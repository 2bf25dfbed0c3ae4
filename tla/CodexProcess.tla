---------------------------- MODULE CodexProcess ----------------------------
(***************************************************************************)
(* codex_process_client.rs: requests to the app-server, a child process    *)
(* that may exit, answer late or write nonsense.  Each start of it is a    *)
(* connection generation with a table of pending requests, a reader task   *)
(* and one initialization that every caller waits for.  Callers are the    *)
(* thread manager's operations: ensure_initialized, then a request.  The   *)
(* route table (fail_all_routes) is NotificationRouter's; shutdown, which  *)
(* runs once while the application exits, is left out.                     *)
(***************************************************************************)
EXTENDS Naturals

CONSTANTS
    Clients,        \* tasks that call the client
    Initializer,    \* the task that initializes a generation
    MaxCalls,       \* bound: calls of one client
    MaxGens,        \* bound: the connection of the last generation does not end
    None

ASSUME ProcessAssumption ==
    /\ Initializer \notin Clients
    /\ MaxCalls \in Nat /\ MaxGens \in Nat \ {0}
    /\ None \notin Nat

Gens == 1..MaxGens
Requests == (Clients \X (1..MaxCalls)) \cup ({Initializer} \X Gens)

VARIABLES
    current,    \* CodexProcessClient.state: a generation or None
    conn,       \* conn[g]: the ProcessState of generation g
    client,     \* client[c]: what the task c is doing
    req,        \* req[r]: a request and the oneshot its caller waits on
    pending,    \* pending[g]: the pending requests of generation g
    server      \* server[g]: requests the app-server has read and not answered

vars == <<current, conn, client, req, pending, server>>

\* reader: absent before the spawn; reading; then the steps of its exit: left (the
\* loop), drained (pending requests failed, routes failed), cleared (the state),
\* done (the child killed).  init: the initialization cell and its started flag.
Connection == [reader: {"absent", "reading", "left", "drained", "cleared", "done"},
               alive: BOOLEAN,
               init: {"none", "begun", "ok", "failed"},
               notified: BOOLEAN]
Absent == [reader |-> "absent", alive |-> FALSE, init |-> "none", notified |-> FALSE]
Spawned == [reader |-> "reading", alive |-> TRUE, init |-> "none", notified |-> FALSE]

\* started: holds a connection; armed: created its Notified future; waiting for it;
\* ready: ensure_initialized has returned; asking: a request is under way.
ClientState == [pc: {"idle", "started", "armed", "waiting", "ready", "asking"},
                gen: Gens \cup {None}, armed: BOOLEAN, calls: 0..MaxCalls]
Request == [pc: {"unused", "registered", "written", "answered", "failed", "timedout"},
            gen: Gens \cup {None}]

InitId(g) == <<Initializer, g>>
CallId(c) == <<c, client[c].calls>>
Concluded(r) == req[r].pc \in {"answered", "failed", "timedout"}
Waiting(r) == req[r].pc \in {"registered", "written"}

ProcInit ==
    /\ current = None
    /\ conn = [g \in Gens |-> Absent]
    /\ client = [c \in Clients |->
         [pc |-> "idle", gen |-> None, armed |-> FALSE, calls |-> 0]]
    /\ req = [r \in Requests |-> [pc |-> "unused", gen |-> None]]
    /\ pending = [g \in Gens |-> {}]
    /\ server = [g \in Gens |-> {}]

\* A failure of the environment that ends generation g; there is one to follow.
MayEnd(g) == g < MaxGens

-----------------------------------------------------------------------------
(* The callers *)

\* ensure_started: the current connection, or a new generation
Fresh(g) == conn[g].reader = "absent" /\ \A h \in Gens: h < g => conn[h].reader # "absent"

\* conn after ensure_started returned generation g
Started(g) == IF current = None THEN [conn EXCEPT ![g] = Spawned] ELSE conn
IsStarted(g) == IF current = None THEN Fresh(g) ELSE current = g

\* ensure_initialized up to its compare_exchange; whoever wins it spawns the task
Call(c) ==
    /\ client[c].pc = "idle" /\ client[c].calls < MaxCalls
    /\ \E g \in Gens:
         /\ IsStarted(g)
         /\ current' = g
         /\ conn' = [Started(g) EXCEPT ![g].init = IF @ = "none" THEN "begun" ELSE @]
         /\ client' = [client EXCEPT ![c].pc = "started", ![c].gen = g, ![c].calls = @ + 1]
    /\ UNCHANGED <<req, pending, server>>

\* The Notified future is created before the cell is looked at ...
Arm(c) ==
    /\ client[c].pc = "started"
    /\ client' = [client EXCEPT ![c].pc = "armed",
                                ![c].armed = ~conn[client[c].gen].notified]
    /\ UNCHANGED <<current, conn, req, pending, server>>

\* A result that is taken for a state of the caller.
MutCheckVerbatim(c) == LET init == conn[client[c].gen].init IN
    /\ client[c].pc = "armed"
    /\ client' = [client EXCEPT ![c].pc = IF init = "begun" THEN "waiting" ELSE init]
    /\ UNCHANGED <<current, conn, req, pending, server>>

Check(c) == LET init == conn[client[c].gen].init IN
    /\ client[c].pc = "armed"
    /\ client' = [client EXCEPT ![c].pc =
         CASE init = "ok" -> "ready" [] init = "failed" -> "idle" [] OTHER -> "waiting"]
    /\ UNCHANGED <<current, conn, req, pending, server>>

\* ... and wakes its owner if it is older than the notification.
Wake(c) ==
    /\ client[c].pc = "waiting"
    /\ client[c].armed /\ conn[client[c].gen].notified
    /\ client' = [client EXCEPT ![c].pc = "started"]
    /\ UNCHANGED <<current, conn, req, pending, server>>

\* A request whose sender is not in the table when it is written.
MutRegisterLater(r, g) ==
    /\ req' = [req EXCEPT ![r] = [pc |-> "registered", gen |-> g]]
    /\ UNCHANGED <<pending, server>>

\* An id is issued and its sender put into the table of pending requests.
Register(r, g) ==
    /\ req' = [req EXCEPT ![r] = [pc |-> "registered", gen |-> g]]
    /\ pending' = [pending EXCEPT ![g] = @ \cup {r}]
    /\ UNCHANGED server

\* request_detailed: ensure_started once more, which may be another generation
\* than the one that was initialized for this caller
Ask(c) ==
    /\ client[c].pc = "ready"
    /\ \E g \in Gens:
         /\ IsStarted(g)
         /\ current' = g /\ conn' = Started(g)
         /\ client' = [client EXCEPT ![c].pc = "asking", ![c].gen = g]
         /\ Register(CallId(c), g)

\* current_connection_generation finds no connection: the call is given up.
NoConnection(c) ==
    /\ client[c].pc = "ready" /\ current = None
    /\ client' = [client EXCEPT ![c].pc = "idle"]
    /\ UNCHANGED <<current, conn, req, pending, server>>

Return(c) ==
    /\ client[c].pc = "asking" /\ Concluded(CallId(c))
    /\ client' = [client EXCEPT ![c].pc = "idle"]
    /\ UNCHANGED <<current, conn, req, pending, server>>

-----------------------------------------------------------------------------
(* request_on_connection *)

\* write_json; a write to a dead child fails and takes the request back
Write(r) == LET g == req[r].gen IN
    /\ req[r].pc = "registered"
    /\ IF conn[g].alive
       THEN /\ server' = [server EXCEPT ![g] = @ \cup {r}]
            /\ req' = [req EXCEPT ![r].pc = "written"]
            /\ UNCHANGED pending
       ELSE /\ pending' = [pending EXCEPT ![g] = @ \ {r}]
            /\ req' = [req EXCEPT ![r].pc = "failed"]
            /\ UNCHANGED server
    /\ UNCHANGED <<current, conn, client>>

\* A timeout that leaves its request in the table.
MutTimeoutKeeping(r) ==
    /\ req[r].pc = "written"
    /\ req' = [req EXCEPT ![r].pc = "timedout"]
    /\ UNCHANGED <<current, conn, client, pending, server>>

\* request_timeout, which takes the request back
Timeout(r) == LET g == req[r].gen IN
    /\ req[r].pc = "written"
    /\ pending' = [pending EXCEPT ![g] = @ \ {r}]
    /\ req' = [req EXCEPT ![r].pc = "timedout"]
    /\ UNCHANGED <<current, conn, client, server>>

-----------------------------------------------------------------------------
(* The initialization task: initialize_connection, the cell, the wakeup *)

InitAsk(g) ==
    /\ conn[g].init = "begun" /\ req[InitId(g)].pc = "unused"
    /\ Register(InitId(g), g)
    /\ UNCHANGED <<current, conn, client>>

\* An answer may be an RPC error, and the write of "initialized" may fail.
InitSet(g) ==
    /\ conn[g].init = "begun" /\ Concluded(InitId(g))
    /\ \E result \in {"ok", "failed"}:
         /\ result = "ok" => req[InitId(g)].pc = "answered" /\ conn[g].alive
         /\ conn' = [conn EXCEPT ![g].init = result]
    /\ UNCHANGED <<current, client, req, pending, server>>

\* A wakeup before the result is there.
MutInitNotifyEarly(g) ==
    /\ conn[g].init = "begun" /\ Concluded(InitId(g)) /\ ~conn[g].notified
    /\ conn' = [conn EXCEPT ![g].notified = TRUE]
    /\ UNCHANGED <<current, client, req, pending, server>>

InitNotify(g) ==
    /\ conn[g].init \in {"ok", "failed"} /\ ~conn[g].notified
    /\ conn' = [conn EXCEPT ![g].notified = TRUE]
    /\ UNCHANGED <<current, client, req, pending, server>>

-----------------------------------------------------------------------------
(* The reader and the app-server *)

\* The app-server answers r, and the reader hands the answer to whoever waits.
Answer(g, r) ==
    /\ conn[g].reader = "reading" /\ conn[g].alive /\ r \in server[g]
    /\ r \in pending[g]
    /\ server' = [server EXCEPT ![g] = @ \ {r}]
    /\ pending' = [pending EXCEPT ![g] = @ \ {r}]
    /\ req' = [req EXCEPT ![r].pc = "answered"]
    /\ UNCHANGED <<current, conn, client>>

\* An answer nobody waits for ends the connection.
UnknownAnswer(g, r) ==
    /\ conn[g].reader = "reading" /\ conn[g].alive /\ r \in server[g]
    /\ r \notin pending[g] /\ MayEnd(g)
    /\ server' = [server EXCEPT ![g] = @ \ {r}]
    /\ conn' = [conn EXCEPT ![g].reader = "left"]
    /\ UNCHANGED <<current, client, req, pending>>

\* The child exits: its output ends.
Exit(g) ==
    /\ conn[g].alive /\ MayEnd(g)
    /\ conn' = [conn EXCEPT ![g].alive = FALSE]
    /\ UNCHANGED <<current, client, req, pending, server>>

\* End of the output, invalid JSON, a message of no kind, or a notification that
\* the router refuses, the child being alive or not.
LeaveLoop(g) ==
    /\ conn[g].reader = "reading" /\ MayEnd(g)
    /\ conn' = [conn EXCEPT ![g].reader = "left"]
    /\ UNCHANGED <<current, client, req, pending, server>>

\* fail_pending_requests
Drain(g) ==
    /\ conn[g].reader = "left"
    /\ conn' = [conn EXCEPT ![g].reader = "drained"]
    /\ req' = [r \in Requests |->
         IF r \in pending[g] THEN [req[r] EXCEPT !.pc = "failed"] ELSE req[r]]
    /\ pending' = [pending EXCEPT ![g] = {}]
    /\ UNCHANGED <<current, client, server>>

\* A reader that leaves its dead connection behind as the current one.
MutClearNothing(g) ==
    /\ conn[g].reader = "drained"
    /\ conn' = [conn EXCEPT ![g].reader = "cleared"]
    /\ UNCHANGED <<current, client, req, pending, server>>

\* The next caller starts a new generation.
Clear(g) ==
    /\ conn[g].reader = "drained"
    /\ conn' = [conn EXCEPT ![g].reader = "cleared"]
    /\ current' = IF current = g THEN None ELSE current
    /\ UNCHANGED <<client, req, pending, server>>

Kill(g) ==
    /\ conn[g].reader = "cleared"
    /\ conn' = [conn EXCEPT ![g].reader = "done", ![g].alive = FALSE]
    /\ UNCHANGED <<current, client, req, pending, server>>

-----------------------------------------------------------------------------
ClientStep(c) ==
    \/ Arm(c) \/ Check(c) \/ Wake(c) \/ Ask(c) \/ NoConnection(c) \/ Return(c)
InitStep(g) == InitAsk(g) \/ InitSet(g) \/ InitNotify(g)
ExitStep(g) == Drain(g) \/ Clear(g) \/ Kill(g)

ProcNext ==
    \/ \E c \in Clients: Call(c) \/ ClientStep(c)
    \/ \E r \in Requests: Write(r) \/ Timeout(r)
    \/ \E g \in Gens:
         \/ InitStep(g) \/ ExitStep(g) \/ Exit(g) \/ LeaveLoop(g)
         \/ \E r \in Requests: Answer(g, r) \/ UnknownAnswer(g, r)

\* tokio runs its tasks and the clock runs; the app-server owes nothing.
Fairness ==
    /\ \A c \in Clients: WF_vars(ClientStep(c))
    /\ \A r \in Requests: WF_vars(Write(r)) /\ WF_vars(Timeout(r))
    /\ \A g \in Gens: WF_vars(InitStep(g)) /\ WF_vars(ExitStep(g))

ProcSpec == ProcInit /\ [][ProcNext]_vars
FairProcSpec == ProcSpec /\ Fairness

-----------------------------------------------------------------------------
(* Properties *)

ProcTypeOK ==
    /\ current \in Gens \cup {None}
    /\ conn \in [Gens -> Connection]
    /\ client \in [Clients -> ClientState]
    /\ req \in [Requests -> Request]
    /\ pending \in [Gens -> SUBSET Requests]
    /\ server \in [Gens -> SUBSET Requests]

\* Whoever waits for an answer has its sender in the table of the connection the
\* request was written to, and the table holds nobody else: no answer, failure or
\* timeout can reach a request twice, miss it, or reach it from another generation.
WaitsInTable ==
    \A r \in Requests, g \in Gens: r \in pending[g] <=> (Waiting(r) /\ req[r].gen = g)

\* The current connection is the newest, and a generation is current as long as
\* its reader has not cleared it: no caller is sent to a forgotten app-server, and
\* two generations are never started side by side.
CurrentIsNewest ==
    \A g \in Gens:
        /\ current = g => conn[g].reader \in {"reading", "left", "drained"}
        /\ conn[g].reader \in {"reading", "left", "drained"} => current = g

\* An answer ends the connection only if it is late: the request it belongs to has
\* timed out.  A prompt answer always finds its request.
OnlyLateAnswersBreak ==
    \A g \in Gens: \A r \in server[g]:
        conn[g].reader = "reading" /\ r \notin pending[g] => req[r].pc = "timedout"

\* Every call returns, whether or not the app-server answers: nobody waits for an
\* initialization whose wakeup has passed, or for an answer that cannot come.  The
\* child reads its input: request_timeout covers the answer, not the write to the pipe.
CallsReturn == \A c \in Clients: (client[c].pc # "idle") ~> (client[c].pc = "idle")

\* "child_exit_fails_pending_request": once a connection has ended and its child is
\* killed, no request waits on it any more.
ExitFailsPending ==
    \A r \in Requests: req[r].pc = "written" => conn[req[r].gen].reader # "done"

\* What the client guarantees in every state: its variables have their types, who waits
\* is in the table of his connection, the current connection is the newest one, and
\* only a late answer is an unknown one.
ProcInv == ProcTypeOK /\ WaitsInTable /\ CurrentIsNewest /\ OnlyLateAnswersBreak

=============================================================================
