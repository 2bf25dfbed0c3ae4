----------------------------- MODULE TurnStream -----------------------------
(***************************************************************************)
(* What the notification router promises to whoever collects the events of *)
(* a turn: a stream opens at the turn's first notification or not at all,  *)
(* misses nothing and repeats nothing while it is open, and is cut only as *)
(* a whole.  Routes, buffers and connections do not appear.                *)
(***************************************************************************)
EXTENDS Naturals

CONSTANT Turns

VARIABLES
    emitted,    \* emitted[u]: notifications the app-server has sent for u
    fed,        \* fed[u]: those that were handed over, from the first on
    heard,      \* heard[u]: those the collector has taken
    open,       \* turns whose stream is open
    up          \* the connection stands

streamVars == <<emitted, fed, heard, open, up>>

StreamInit ==
    /\ emitted = [u \in Turns |-> 0]
    /\ fed = [u \in Turns |-> 0]
    /\ heard = [u \in Turns |-> 0]
    /\ open = {}
    /\ up = TRUE

Emit(u) ==
    /\ up
    /\ emitted' = [emitted EXCEPT ![u] = @ + 1]
    /\ fed' = IF u \in open THEN [fed EXCEPT ![u] = @ + 1] ELSE fed
    /\ UNCHANGED <<heard, open, up>>

\* A notification that cannot be handed over ends the connection.
Overrun(u) ==
    /\ up /\ up' = FALSE
    /\ emitted' = [emitted EXCEPT ![u] = @ + 1]
    /\ UNCHANGED <<fed, heard, open>>

Fail ==
    /\ up /\ up' = FALSE
    /\ UNCHANGED <<emitted, fed, heard, open>>

\* All that was sent before the stream opened comes with it, unless the
\* connection has already ended.
Open(u) ==
    /\ u \notin open /\ heard[u] = 0
    /\ open' = open \cup {u}
    /\ \E n \in 0..emitted[u]:
         /\ up => n = emitted[u]
         /\ fed' = [fed EXCEPT ![u] = n]
    /\ UNCHANGED <<emitted, heard, up>>

Hear(u) ==
    /\ heard[u] < fed[u]
    /\ heard' = [heard EXCEPT ![u] = @ + 1]
    /\ UNCHANGED <<emitted, fed, open, up>>

\* The collector gives the stream up: what it has not taken is gone.
Close(u) ==
    /\ open' = open \ {u}
    /\ fed' = [fed EXCEPT ![u] = heard[u]]
    /\ UNCHANGED <<emitted, heard, up>>

\* Every stream ends with its connection.
CutAll ==
    /\ ~up /\ up' = TRUE
    /\ open' = {}
    /\ UNCHANGED <<emitted, fed, heard>>

StreamNext ==
    \/ Fail \/ CutAll
    \/ \E u \in Turns: Emit(u) \/ Overrun(u) \/ Open(u) \/ Hear(u) \/ Close(u)

StreamSpec == StreamInit /\ [][StreamNext]_streamVars

=============================================================================
