------------------------- MODULE NotificationRouter -------------------------
(***************************************************************************)
(* notification_router.rs: the app-server's notifications of all turns     *)
(* arrive on one pipe and are handed to one bounded channel per turn.  The *)
(* identifier of a turn is known only from the answer to turn/start, and   *)
(* its first notifications may come before that answer: they wait in the   *)
(* pending route of the turn's thread, which is promoted to an exact route *)
(* by the answer.  Around the router stand its reader (spawn_reader of     *)
(* codex_process_client.rs) and its users (start_turn, start_scoped_turn   *)
(* and the drop of a ManagedAgentTurn in agent_thread_manager.rs), which   *)
(* hold the lease of their thread: one user per thread.                    *)
(* register_route has no caller in the program and is left out.            *)
(***************************************************************************)
EXTENDS Naturals, Sequences

CONSTANTS
    Threads,            \* external threads
    Turns,              \* external turns
    ThreadOf,           \* the thread a turn belongs to
    RouteCapacity,      \* notifications an exact route's channel holds
    PendingCapacity,    \* notifications a pending route holds
    MaxItems,           \* bound: notifications of a turn
    MaxBegins,          \* bound: pending routes ever registered
    None

\* NotificationRouter::new refuses any other configuration.
ASSUME RouterAssumption ==
    /\ RouteCapacity \in Nat \ {0} /\ PendingCapacity \in Nat \ {0}
    /\ PendingCapacity <= RouteCapacity
    /\ ThreadOf \in [Turns -> Threads]
    /\ None \notin Turns
    /\ MaxItems \in Nat /\ MaxBegins \in Nat

VARIABLES
    exact,      \* turns with an entry in exact_routes
    chan,       \* chan[u]: what the channel of u's route holds
    pending,    \* pending[t]: {} or one entry of pending_routes
    terminal,   \* terminal_routes
    begins,     \* next_registration_id - 1
    conn,       \* the reader: up, broken (out of its loop), down (routes failed)
    user,       \* user[t]: the holder of t's lease
    phase,      \* phase[u]: new, running, ended, or gone with its app-server
    emitted,    \* emitted[u]: number of u's notifications so far
    heard       \* heard[u]: number of the last one the collector of u received

routerVars == <<exact, chan, pending, terminal, begins>>
vars == <<exact, chan, pending, terminal, begins,
          conn, user, phase, emitted, heard>>

\* Notification number n of turn u; the terminal one ends the turn.
Note == [turn: Turns, n: Nat, last: BOOLEAN]
PendingRoute == [reg: Nat, buf: Seq(Note), ended: SUBSET Turns]

\* begun: a pending route is registered; asked: turn/start is under way, turn
\* being the one the app-server gave it, if any; failed: the route is to be
\* cancelled; open: a ManagedAgentTurn exists.
UserState == [pc: {"idle", "begun", "asked", "failed", "open"},
              reg: Nat, turn: Turns \cup {None}]
Idle == [pc |-> "idle", reg |-> 0, turn |-> None]

RouterInit ==
    /\ exact = {} /\ terminal = {} /\ begins = 0
    /\ chan = [u \in Turns |-> <<>>]
    /\ pending = [t \in Threads |-> {}]
    /\ conn = "up"
    /\ user = [t \in Threads |-> Idle]
    /\ phase = [u \in Turns |-> "new"]
    /\ emitted = [u \in Turns |-> 0]
    /\ heard = [u \in Turns |-> 0]

-----------------------------------------------------------------------------
(* The users of the router *)

\* begin_pending_route.  The guard on pending is the code's refusal of a second
\* pending route of a thread; NothingLeaks says that it never refuses.
BeginPending(t) ==
    /\ user[t].pc = "idle" /\ begins < MaxBegins
    /\ pending[t] = {}
    /\ begins' = begins + 1
    /\ pending' = [pending EXCEPT
         ![t] = {[reg |-> begins + 1, buf |-> <<>>, ended |-> {}]}]
    /\ user' = [user EXCEPT ![t] = [pc |-> "begun", reg |-> begins + 1, turn |-> None]]
    /\ UNCHANGED <<exact, chan, terminal, conn, phase, emitted, heard>>

\* turn/start is written; the app-server starts a turn of its own choice.
AskTurn(t) ==
    /\ user[t].pc = "begun"
    /\ user' = [user EXCEPT ![t].pc = "asked"]
    /\ UNCHANGED <<routerVars, conn, phase, emitted, heard>>

StartTurn(t, u) ==
    /\ user[t].pc = "asked" /\ user[t].turn = None
    /\ conn = "up" /\ phase[u] = "new" /\ ThreadOf[u] = t
    /\ phase' = [phase EXCEPT ![u] = "running"]
    /\ user' = [user EXCEPT ![t].turn = u]
    /\ UNCHANGED <<routerVars, conn, emitted, heard>>

\* Rejected, lost with the connection, or timed out, the turn started or not.
AskFailed(t) ==
    /\ user[t].pc = "asked"
    /\ user' = [user EXCEPT ![t].pc = "failed"]
    /\ UNCHANGED <<routerVars, conn, phase, emitted, heard>>

MyPending(t) == {p \in pending[t]: p.reg = user[t].reg}
AllOf(buf, u) == \A i \in DOMAIN buf: buf[i].turn = u
CanPromote(t) ==
    \E p \in MyPending(t): AllOf(p.buf, user[t].turn) /\ Len(p.buf) <= RouteCapacity
\* A promotion that forgets a terminal notification in the buffer.
MutPromoteForgetting(t) ==
    /\ user[t].pc = "asked" /\ user[t].turn # None
    /\ CanPromote(t)
    /\ \E p \in MyPending(t): LET u == user[t].turn IN
         /\ chan' = [chan EXCEPT ![u] = p.buf]
         /\ exact' = exact \cup {u}
         /\ terminal' = terminal \ {u}
    /\ pending' = [pending EXCEPT ![t] = {}]
    /\ user' = [user EXCEPT ![t].pc = "open"]
    /\ UNCHANGED <<begins, conn, phase, emitted, heard>>

\* promote_pending_route, with the answer to turn/start
Promote(t) ==
    /\ user[t].pc = "asked" /\ user[t].turn # None
    /\ CanPromote(t)
    /\ \E p \in MyPending(t): LET u == user[t].turn IN
         /\ chan' = [chan EXCEPT ![u] = p.buf]
         /\ exact' = exact \cup {u}
         /\ terminal' = IF u \in p.ended THEN terminal \cup {u} ELSE terminal \ {u}
    /\ pending' = [pending EXCEPT ![t] = {}]
    /\ user' = [user EXCEPT ![t].pc = "open"]
    /\ UNCHANGED <<begins, conn, phase, emitted, heard>>

\* UnknownPendingRoute or PendingTurnMismatch
PromoteRefused(t) ==
    /\ user[t].pc = "asked" /\ user[t].turn # None
    /\ ~CanPromote(t)
    /\ user' = [user EXCEPT ![t].pc = "failed"]
    /\ UNCHANGED <<routerVars, conn, phase, emitted, heard>>
\* An error path that does not cancel the pending route.
MutCancelPendingSkipped(t) ==
    /\ user[t].pc = "failed"
    /\ user' = [user EXCEPT ![t] = Idle]
    /\ UNCHANGED <<routerVars, conn, phase, emitted, heard>>

\* cancel_pending_route; UnknownPendingRoute when the connection took the route
CancelPending(t) ==
    /\ user[t].pc = "failed"
    /\ pending' = [pending EXCEPT ![t] = @ \ MyPending(t)]
    /\ user' = [user EXCEPT ![t] = Idle]
    /\ UNCHANGED <<exact, chan, terminal, begins, conn, phase, emitted, heard>>

\* The collector's recv
Receive(t) == LET u == user[t].turn IN
    /\ user[t].pc = "open" /\ chan[u] # <<>>
    /\ heard' = [heard EXCEPT ![u] = Head(chan[u]).n]
    /\ chan' = [chan EXCEPT ![u] = Tail(@)]
    /\ UNCHANGED <<exact, pending, terminal, begins, conn, user, phase, emitted>>

\* unregister_route when the managed turn is finished or dropped
Unregister(t) == LET u == user[t].turn IN
    /\ user[t].pc = "open"
    /\ exact' = exact \ {u}
    /\ terminal' = terminal \ {u}
    /\ chan' = [chan EXCEPT ![u] = <<>>]
    /\ user' = [user EXCEPT ![t] = Idle]
    /\ UNCHANGED <<pending, begins, conn, phase, emitted, heard>>

\* recv tells the collector that its turn is over: the terminal notification was
\* received, or the channel is empty and its sender is gone.
Told(t) == LET u == user[t].turn IN
    /\ user[t].pc = "open" /\ chan[u] = <<>>
    /\ u \notin exact \/ (phase[u] = "ended" /\ heard[u] = emitted[u])

-----------------------------------------------------------------------------
(* The reader *)
\* A full channel that gives up its oldest notification for the newest.
MutFeedNewest(u, note) ==
    /\ u \in exact
    /\ chan' = [chan EXCEPT ![u] = IF Len(@) < RouteCapacity THEN Append(@, note)
                                   ELSE Append(Tail(@), note)]
    /\ terminal' = IF note.last THEN terminal \cup {u} ELSE terminal
    /\ UNCHANGED <<exact, pending, begins, conn>>

Feed(u, note) ==
    /\ u \in exact /\ Len(chan[u]) < RouteCapacity
    /\ chan' = [chan EXCEPT ![u] = Append(@, note)]
    /\ terminal' = IF note.last THEN terminal \cup {u} ELSE terminal
    /\ UNCHANGED <<exact, pending, begins, conn>>

\* A pending route that takes one notification more than its capacity.
MutBufferOneMore(u, note) == LET t == ThreadOf[u] IN
    /\ u \notin exact
    /\ \E p \in pending[t]:
         /\ ~(note.last /\ u \in p.ended) /\ Len(p.buf) <= PendingCapacity
         /\ pending' = [pending EXCEPT ![t] = {[p EXCEPT
              !.buf = Append(@, note),
              !.ended = IF note.last THEN @ \cup {u} ELSE @]}]
    /\ UNCHANGED <<exact, chan, terminal, begins, conn>>

Buffer(u, note) == LET t == ThreadOf[u] IN
    /\ u \notin exact
    /\ \E p \in pending[t]:
         /\ ~(note.last /\ u \in p.ended) /\ Len(p.buf) < PendingCapacity
         /\ pending' = [pending EXCEPT ![t] = {[p EXCEPT
              !.buf = Append(@, note),
              !.ended = IF note.last THEN @ \cup {u} ELSE @]}]
    /\ UNCHANGED <<exact, chan, terminal, begins, conn>>

\* DuplicateTerminalSuppressed, or broadcast as an orphan
Discard(u, note) ==
    /\ \/ note.last /\ u \in terminal
       \/ u \notin exact /\ \A p \in pending[ThreadOf[u]]: note.last /\ u \in p.ended
    /\ UNCHANGED <<routerVars, conn>>

\* A notification that finds no room and is dropped.
MutOverflowDropped(u, note) ==
    /\ \/ u \in exact /\ Len(chan[u]) >= RouteCapacity
       \/ /\ u \notin exact
          /\ \E p \in pending[ThreadOf[u]]:
               Len(p.buf) >= PendingCapacity /\ ~(note.last /\ u \in p.ended)
    /\ UNCHANGED <<routerVars, conn>>

\* RouteChannelFull and PendingBufferFull end the whole connection.
Overflow(u, note) ==
    /\ \/ u \in exact /\ Len(chan[u]) >= RouteCapacity
       \/ /\ u \notin exact
          /\ \E p \in pending[ThreadOf[u]]:
               Len(p.buf) >= PendingCapacity /\ ~(note.last /\ u \in p.ended)
    /\ conn' = "broken"
    /\ UNCHANGED routerVars

Suppressed(u, note) == note.last /\ u \in terminal

\* NotificationRouter::route
Route(u, note) ==
    \/ Discard(u, note)
    \/ ~Suppressed(u, note) /\ (Feed(u, note) \/ Buffer(u, note) \/ Overflow(u, note))

\* The app-server sends the next notification of a turn, and the reader routes it.
Notify(u, last) ==
    /\ conn = "up" /\ phase[u] = "running"
    /\ emitted[u] < MaxItems
    /\ emitted' = [emitted EXCEPT ![u] = @ + 1]
    /\ phase' = IF last THEN [phase EXCEPT ![u] = "ended"] ELSE phase
    /\ Route(u, [turn |-> u, n |-> emitted[u] + 1, last |-> last])
    /\ UNCHANGED <<user, heard>>

\* It repeats the terminal notification (thread-level and turn-level events both
\* end a turn).
NotifyAgain(u) ==
    /\ conn = "up" /\ phase[u] = "ended"
    /\ Route(u, [turn |-> u, n |-> emitted[u], last |-> TRUE])
    /\ UNCHANGED <<user, phase, emitted, heard>>

\* The app-server exits or writes what is not JSON.
Break ==
    /\ conn = "up"
    /\ conn' = "broken"
    /\ UNCHANGED <<routerVars, user, phase, emitted, heard>>
\* A connection loss that leaves the exact routes in place.
MutFailPendingRoutesOnly ==
    /\ conn = "broken"
    /\ exact' = exact /\ terminal' = {}
    /\ pending' = [t \in Threads |-> {}]
    /\ conn' = "down"
    /\ UNCHANGED <<chan, begins, user, phase, emitted, heard>>

\* fail_all_routes, by the reader that left its loop
FailAllRoutes ==
    /\ conn = "broken"
    /\ exact' = {} /\ terminal' = {}
    /\ pending' = [t \in Threads |-> {}]
    /\ conn' = "down"
    /\ UNCHANGED <<chan, begins, user, phase, emitted, heard>>

\* The next request starts another app-server, which knows nothing of the turns.
Reconnect ==
    /\ conn = "down"
    /\ conn' = "up"
    /\ phase' = [u \in Turns |-> IF phase[u] = "new" THEN "new" ELSE "gone"]
    /\ UNCHANGED <<routerVars, user, emitted, heard>>

-----------------------------------------------------------------------------
UserStep(t) ==
    \/ BeginPending(t)
    \/ AskTurn(t) \/ (\E u \in Turns: StartTurn(t, u)) \/ AskFailed(t)
    \/ Promote(t) \/ PromoteRefused(t) \/ CancelPending(t)
    \/ Receive(t) \/ Unregister(t)

ReaderStep ==
    \/ \E u \in Turns: NotifyAgain(u) \/ \E last \in BOOLEAN: Notify(u, last)
    \/ Break \/ FailAllRoutes \/ Reconnect

RouterNext == ReaderStep \/ \E t \in Threads: UserStep(t)

\* The reader's exit path has no wait in it, a collector polls its channel, and
\* one that was told that its turn is over drops it.
Fairness ==
    /\ WF_vars(FailAllRoutes)
    /\ \A t \in Threads:
         /\ WF_vars(Receive(t))
         /\ WF_vars(Told(t) /\ Unregister(t))

RouterSpec == RouterInit /\ [][RouterNext]_vars
FairRouterSpec == RouterSpec /\ Fairness

(* Properties *)

RouterTypeOK ==
    /\ exact \subseteq Turns /\ terminal \subseteq Turns
    /\ chan \in [Turns -> Seq(Note)]
    /\ \A u \in Turns: Len(chan[u]) <= RouteCapacity
    /\ pending \in [Threads -> SUBSET PendingRoute]
    /\ \A t \in Threads: \A p \in pending[t]: Len(p.buf) <= PendingCapacity
    /\ begins \in Nat
    /\ conn \in {"up", "broken", "down"}
    /\ user \in [Threads -> UserState]
    /\ phase \in [Turns -> {"new", "running", "ended", "gone"}]
    /\ emitted \in [Turns -> Nat] /\ heard \in [Turns -> Nat]

\* What a channel holds follows, without a gap, a repetition or a stranger, what
\* its collector has received; a terminal notification comes last and once.
ChannelInOrder ==
    \A u \in Turns: \A i \in DOMAIN chan[u]:
        /\ chan[u][i].turn = u
        /\ chan[u][i].n = heard[u] + i
        /\ chan[u][i].last => i = Len(chan[u]) /\ phase[u] \in {"ended", "gone"}

\* As long as the connection stands, an open route has got all of its turn's
\* notifications, also those that came before the turn's identifier was known.
StreamComplete ==
    \A u \in exact: conn # "broken" => heard[u] + Len(chan[u]) = emitted[u]

\* A user that gave its lease up left neither a pending route, which would refuse
\* the next turn of the thread, nor an exact route or terminal mark behind,
\* whatever error it met on the way.
NothingLeaks ==
    \A t \in Threads: user[t].pc = "idle" =>
        /\ pending[t] = {}
        /\ \A u \in exact \cup terminal: ThreadOf[u] # t

\* "Collectors wake immediately when the underlying app-server connection is
\* lost", and when their turn has ended.
CollectorsWake ==
    \A t \in Threads: \A u \in Turns:
        (user[t].pc = "open" /\ user[t].turn = u /\ (phase[u] = "ended" \/ conn = "broken"))
            ~> (user[t].turn # u)

Stream == INSTANCE TurnStream WITH
    fed <- [u \in Turns |-> heard[u] + Len(chan[u])],
    open <- exact,
    up <- conn # "broken"

\* The router implements the promise of TurnStream.
ImplementsStream == Stream!StreamSpec

\* What the router guarantees in every state: its table has its type, channels are
\* in order and without gaps, and a route has an owner.
RouterInv == RouterTypeOK /\ ChannelInOrder /\ StreamComplete /\ NothingLeaks

=============================================================================
