---------------------------- MODULE AgentThreads ----------------------------
(***************************************************************************)
(* agent_thread_manager.rs with agent_persistence.rs and operations.rs:    *)
(* the Codex threads of one session.  A thread is a row of agent_threads   *)
(* that points to an external thread; a turn runs on it under the lease of *)
(* its plane.  Modelling has one thread that is started once, reused while *)
(* the connection that loaded it lives, resumed afterwards, and replaced   *)
(* when Codex has lost it or the user starts a new conversation.  The VLM  *)
(* check of a batch gets a thread of its own, archived with its turn.  The *)
(* connection may break and the process may die between any two steps.     *)
(***************************************************************************)
EXTENDS Naturals, FiniteSets

CONSTANTS
    Threads,        \* identifiers of rows and of their external threads, in the
                    \* order in which they are given out
    Runs,           \* modelling runs of the session, one active at a time
    Checks,         \* VLM checks of its batches
    User,           \* who starts a new conversation
    MaxGens,        \* bound: connection generations; the last is not lost
    MaxCrashes,     \* bound: restarts of the process
    None

ASSUME ThreadsAssumption ==
    /\ MaxGens \in Nat \ {0} /\ MaxCrashes \in Nat
    /\ Threads \subseteq Nat
    /\ None \notin Threads /\ User \notin Runs \cup Checks
    /\ Runs \cap Checks = {}

VARIABLES
    row,        \* row[t]: agent_threads
    rollouts,   \* external threads Codex still has on disk
    conn,       \* the connection: its generation, and what has been loaded in it
    loaded,     \* ManagerRuntime.loaded_threads
    op,         \* op[p]: the operation that holds the lease of plane p
    pending,    \* planes whose operation has a pending route in the router
    run,        \* run[r]: agent_runs
    check,      \* check[k]: validation_checks
    crashes

vars == <<row, rollouts, conn, loaded, op, pending, run, check, crashes>>

Planes == {"modeling", "validation"}
Gens == 0..MaxGens

\* archived stands for archived_at or replaced_by_id.
Row == [st: {"absent", "ready", "active", "failed", "notloaded", "archived", "replaced"},
        plane: Planes, owner: Checks \cup {None}, archived: BOOLEAN, gen: Gens]
NoRow == [st |-> "absent", plane |-> "modeling", owner |-> None, archived |-> FALSE, gen |-> 0]

\* live: a process runs and is initialized; losing: its reader has left the loop and
\* not yet failed the routes.  loaded: the threads the process has in memory.
Connection == [gen: Gens, live: BOOLEAN, losing: BOOLEAN, loaded: SUBSET Threads]

\* An operation takes the lease (opened), gets its connection (connected), finds its
\* thread missing (replacing), or has it (activated), has a turn started on it
\* (asked), routed (promoted) and bound (turn).  installing: the user's new thread.
Op == [pc: {"idle", "opened", "connected", "replacing", "installing", "activated",
            "asked", "promoted", "turn"},
       who: Runs \cup Checks \cup {User, None}, thread: Threads \cup {None}, gen: Gens]
NoOp == [pc |-> "idle", who |-> None, thread |-> None, gen |-> 0]

\* thread is agent_thread_id, turn says whether external_turn_id is set.
RunState == [st: {"none", "queued", "running", "ended"},
             thread: Threads \cup {None}, turn: BOOLEAN]

ThreadsInit ==
    /\ row = [t \in Threads |-> NoRow]
    /\ rollouts = {}
    /\ conn = [gen |-> 0, live |-> FALSE, losing |-> FALSE, loaded |-> {}]
    /\ loaded = {}
    /\ op = [p \in Planes |-> NoOp]
    /\ pending = {}
    /\ run = [r \in Runs |-> [st |-> "none", thread |-> None, turn |-> FALSE]]
    /\ check = [k \in Checks |-> "queued"]
    /\ crashes = 0

Active(p) == {t \in Threads: row[t].st # "absent" /\ row[t].plane = p /\ ~row[t].archived}
ActiveRuns == {r \in Runs: run[r].st \in {"queued", "running"}}
\* Identifiers Codex has not given out.
Fresh == {t \in Threads: row[t].st = "absent" /\ t \notin rollouts /\ \A p \in Planes: op[p].thread # t}

-----------------------------------------------------------------------------
(* Runs and checks, as far as threads depend on them *)

\* create_agent_run_with_user_message: one active run per session
CreateRun(r) ==
    /\ run[r].st = "none" /\ ActiveRuns = {}
    /\ run' = [run EXCEPT ![r].st = "queued"]
    /\ UNCHANGED <<row, rollouts, conn, loaded, op, pending, check, crashes>>

Holds(p, w) == op[p].pc # "idle" /\ op[p].who = w

\* The gateway gives up a run or concludes it, its turn being over.
EndRun(r) ==
    /\ r \in ActiveRuns /\ ~Holds("modeling", r)
    /\ run' = [run EXCEPT ![r].st = "ended"]
    /\ UNCHANGED <<row, rollouts, conn, loaded, op, pending, check, crashes>>

\* prepare_agent_run_validation_batch_refinement gives the turn up, not the thread.
PrepareRefinement(r) ==
    /\ run[r].st = "running" /\ run[r].turn /\ ~Holds("modeling", r)
    /\ run' = [run EXCEPT ![r].turn = FALSE]
    /\ UNCHANGED <<row, rollouts, conn, loaded, op, pending, check, crashes>>

\* A check whose evaluation has returned an error or a report is terminal.
EndCheck(k) ==
    /\ check[k] # "ended" /\ ~Holds("validation", k)
    /\ check[k] = "running" => \A t \in Active("validation"): row[t].owner # k
    /\ check' = [check EXCEPT ![k] = "ended"]
    /\ UNCHANGED <<row, rollouts, conn, loaded, op, pending, run, crashes>>

-----------------------------------------------------------------------------
(* Operations of the thread manager *)

\* acquire_scope_lease, and what each operation looks at under the lease
OpenTurn(r) ==
    /\ op["modeling"].pc = "idle"
    /\ r \in ActiveRuns /\ ~run[r].turn
    /\ run' = [run EXCEPT ![r].st = "running"]
    /\ op' = [op EXCEPT !["modeling"] = [NoOp EXCEPT !.pc = "opened", !.who = r]]
    /\ UNCHANGED <<row, rollouts, conn, loaded, pending, check, crashes>>

\* start_scoped_turn wants an empty plane; without one the check fails (EndCheck).
OpenCheck(k) ==
    /\ op["validation"].pc = "idle" /\ check[k] = "queued"
    /\ Active("validation") = {}
    /\ op' = [op EXCEPT !["validation"] = [NoOp EXCEPT !.pc = "opened", !.who = k]]
    /\ UNCHANGED <<row, rollouts, conn, loaded, pending, run, check, crashes>>

\* start_new_conversation with prepare_agent_thread_replacement
OpenConversation ==
    /\ op["modeling"].pc = "idle" /\ ActiveRuns = {}
    /\ op' = [op EXCEPT !["modeling"] = [NoOp EXCEPT !.pc = "opened", !.who = User]]
    /\ UNCHANGED <<row, rollouts, conn, loaded, pending, run, check, crashes>>

\* ensure_initialized and current_connection_generation
Connect(p) ==
    /\ op[p].pc = "opened"
    /\ \/ conn.live /\ UNCHANGED conn
       \/ /\ ~conn.live /\ ~conn.losing /\ conn.gen < MaxGens
          /\ conn' = [gen |-> conn.gen + 1, live |-> TRUE, losing |-> FALSE, loaded |-> {}]
    /\ op' = [op EXCEPT ![p].pc = "connected", ![p].gen = conn'.gen]
    /\ UNCHANGED <<row, rollouts, loaded, pending, run, check, crashes>>

\* thread/start: a new external thread, in the memory of whatever process answers
ExternalStart(t) ==
    /\ conn.live
    /\ t \in Fresh /\ \A o \in Fresh: t <= o
    /\ rollouts' = rollouts \cup {t}
    /\ conn' = [conn EXCEPT !.loaded = @ \cup {t}]

\* mark_loaded keeps the entries of its own generation only.
MarkLoaded(g, t) == {e \in loaded: e[1] = g} \cup {<<g, t>>}

NewRow(p, st) == [st |-> st, plane |-> p, owner |-> IF p = "modeling" THEN None ELSE op[p].who,
                  archived |-> FALSE, gen |-> op[p].gen]

\* A thread installed whatever the plane holds.
MutInstallBeside(p, t, st) ==
    /\ row' = [row EXCEPT ![t] = NewRow(p, st)]
    /\ loaded' = MarkLoaded(op[p].gen, t)

\* upsert_agent_thread refuses a second active thread of a plane.
Install(p, t, st) ==
    /\ Active(p) = {}
    /\ row' = [row EXCEPT ![t] = NewRow(p, st)]
    /\ loaded' = MarkLoaded(op[p].gen, t)

\* activate_thread without an active thread, and the fresh thread of a check
StartThread(p) ==
    /\ op[p].pc = "connected" /\ op[p].who # User
    /\ \E t \in Threads:
         /\ ExternalStart(t)
         /\ Install(p, t, IF p = "modeling" THEN "ready" ELSE "active")
         /\ op' = [op EXCEPT ![p].pc = "activated", ![p].thread = t]
    /\ UNCHANGED <<pending, run, check, crashes>>

\* A thread taken for loaded because its row says so.
MutIsLoadedByRow(t, g) == row[t].gen # 0

IsLoaded(t, g) == <<g, t>> \in loaded /\ row[t].gen = g

ReuseThread ==
    /\ op["modeling"].pc = "connected" /\ op["modeling"].who # User
    /\ \E t \in Active("modeling"):
         /\ IsLoaded(t, op["modeling"].gen)
         /\ op' = [op EXCEPT !["modeling"].pc = "activated", !["modeling"].thread = t]
    /\ UNCHANGED <<row, rollouts, conn, loaded, pending, run, check, crashes>>

ResumeThread == LET g == op["modeling"].gen IN
    /\ op["modeling"].pc = "connected" /\ op["modeling"].who # User
    /\ \E t \in Active("modeling"):
         /\ ~IsLoaded(t, g)
         /\ conn.live /\ t \in rollouts
         /\ conn' = [conn EXCEPT !.loaded = @ \cup {t}]
         /\ row' = [row EXCEPT ![t].st = "ready", ![t].gen = g]
         /\ loaded' = MarkLoaded(g, t)
         /\ op' = [op EXCEPT !["modeling"].pc = "activated", !["modeling"].thread = t]
    /\ UNCHANGED <<rollouts, pending, run, check, crashes>>

\* thread/resume answers that the rollout is gone.
ResumeMissing == LET g == op["modeling"].gen IN
    /\ op["modeling"].pc = "connected" /\ op["modeling"].who # User
    /\ \E t \in Active("modeling"):
         /\ ~IsLoaded(t, g)
         /\ conn.live /\ t \notin rollouts
         /\ op' = [op EXCEPT !["modeling"].pc = "replacing", !["modeling"].thread = t]
    /\ UNCHANGED <<row, rollouts, conn, loaded, pending, run, check, crashes>>

\* validate_replacement_active_runs: no active run but the allowed one, unbound
MayReplace(allowed) ==
    \A r \in ActiveRuns: r = allowed /\ run[r].thread = None /\ ~run[r].turn

\* replace_active_agent_thread
Replace(old, new, allowed) ==
    /\ old \in Active("modeling") /\ MayReplace(allowed)
    /\ row' = [row EXCEPT ![old].st = "replaced", ![old].archived = TRUE,
                          ![new] = NewRow("modeling", "ready")]
    /\ loaded' = MarkLoaded(op["modeling"].gen, new)

\* replace_missing_thread
ReplaceThread ==
    /\ op["modeling"].pc = "replacing"
    /\ \E t \in Threads:
         /\ ExternalStart(t)
         /\ Replace(op["modeling"].thread, t, op["modeling"].who)
         /\ op' = [op EXCEPT !["modeling"].pc = "activated", !["modeling"].thread = t]
    /\ UNCHANGED <<pending, run, check, crashes>>

\* The conversation's thread is created; a run may be created meanwhile.
StartConversationThread ==
    /\ op["modeling"].pc = "connected" /\ op["modeling"].who = User
    /\ \E t \in Threads:
         /\ ExternalStart(t)
         /\ op' = [op EXCEPT !["modeling"].pc = "installing", !["modeling"].thread = t]
    /\ UNCHANGED <<row, loaded, pending, run, check, crashes>>

\* replace_active_agent_thread or install_first_agent_thread
InstallConversation == LET new == op["modeling"].thread IN
    /\ op["modeling"].pc = "installing"
    /\ \/ \E old \in Threads: Replace(old, new, None)
       \/ MayReplace(None) /\ Install("modeling", new, "ready")
    /\ op' = [op EXCEPT !["modeling"] = NoOp]
    /\ UNCHANGED <<rollouts, conn, pending, run, check, crashes>>

\* A pending route known by the run it is for.
MutAskTurnByRun(p) == LET t == op[p].thread IN
    /\ op[p].pc = "activated"
    /\ row' = [row EXCEPT ![t].st = "active"]
    /\ pending' = pending \cup {op[p].who}
    /\ op' = [op EXCEPT ![p].pc = "asked"]
    /\ UNCHANGED <<rollouts, conn, loaded, run, check, crashes>>

\* The row becomes active, a pending route is registered, turn/start is written.
AskTurn(p) == LET t == op[p].thread IN
    /\ op[p].pc = "activated"
    /\ row' = [row EXCEPT ![t].st = "active"]
    /\ pending' = pending \cup {p}
    /\ op' = [op EXCEPT ![p].pc = "asked"]
    /\ UNCHANGED <<rollouts, conn, loaded, run, check, crashes>>

\* The turn runs in a process that has the thread loaded, and the pending route
\* is promoted.
TurnStarted(p) == LET t == op[p].thread IN
    /\ op[p].pc = "asked" /\ p \in pending
    /\ conn.live /\ t \in conn.loaded
    /\ pending' = pending \ {p}
    /\ op' = [op EXCEPT ![p].pc = "promoted"]
    /\ UNCHANGED <<row, rollouts, conn, loaded, run, check, crashes>>

\* bind_agent_run_to_thread, or bind_validation_check
BindTurn(p) == LET t == op[p].thread  w == op[p].who IN
    /\ op[p].pc = "promoted"
    /\ IF p = "modeling"
       THEN /\ ~row[t].archived /\ w \in ActiveRuns /\ run[w].thread \in {None, t}
            /\ run' = [run EXCEPT ![w].thread = t, ![w].turn = TRUE]
            /\ UNCHANGED check
       ELSE /\ check' = [check EXCEPT ![w] = "running"]
            /\ UNCHANGED run
    /\ op' = [op EXCEPT ![p].pc = "turn"]
    /\ UNCHANGED <<row, rollouts, conn, loaded, pending, crashes>>

\* Every thread archived with its turn, as those of the checks.
MutFinishTurnArchiving(p) == LET t == op[p].thread IN
    /\ op[p].pc = "turn"
    /\ row' = [row EXCEPT ![t] = IF @.archived THEN @ ELSE [@ EXCEPT !.st = "archived", !.archived = TRUE]]
    /\ op' = [op EXCEPT ![p] = NoOp]
    /\ UNCHANGED <<rollouts, conn, loaded, pending, run, check, crashes>>

\* finish_turn, and the lease is dropped: the turn has ended, timed out, or its
\* channel was closed.
FinishTurn(p) == LET t == op[p].thread IN
    /\ op[p].pc = "turn"
    /\ row' = [row EXCEPT ![t] =
         IF @.archived THEN @
         ELSE IF p = "modeling" THEN [@ EXCEPT !.st = "ready"]
         ELSE [@ EXCEPT !.st = "archived", !.archived = TRUE]]
    /\ op' = [op EXCEPT ![p] = NoOp]
    /\ UNCHANGED <<rollouts, conn, loaded, pending, run, check, crashes>>

\* A lease that outlives a turn which failed to start.
MutGiveUpHoldingLease(p) ==
    /\ op[p].pc \in {"opened", "connected", "replacing", "installing"}
    /\ op' = [op EXCEPT ![p].thread = None]
    /\ UNCHANGED <<row, rollouts, conn, loaded, pending, run, check, crashes>>

\* An error before the pending route: the operation ends and leaves the row as it
\* is.
GiveUp(p) ==
    /\ op[p].pc \in {"opened", "connected", "replacing", "installing"}
    /\ op' = [op EXCEPT ![p] = NoOp]
    /\ UNCHANGED <<row, rollouts, conn, loaded, pending, run, check, crashes>>

\* set_thread_status or archive_scoped_thread after an error
Cleaned(p) == LET t == op[p].thread IN
    \E st \in IF p = "modeling" THEN {"ready", "failed"} ELSE {"failed"}:
        row' = [row EXCEPT ![t].st = st, ![t].archived = (p = "validation")]

\* turn/start or the promotion failed.  cancel_pending comes first: when the
\* connection has taken the pending route with it, its error ends the operation
\* before the row is touched.
AskFailed(p) ==
    /\ op[p].pc = "asked"
    /\ IF p \in pending THEN Cleaned(p) ELSE UNCHANGED row
    /\ pending' = pending \ {p}
    /\ op' = [op EXCEPT ![p] = NoOp]
    /\ UNCHANGED <<rollouts, conn, loaded, run, check, crashes>>

\* The binding is refused.
BindFailed(p) ==
    /\ op[p].pc = "promoted"
    /\ Cleaned(p)
    /\ op' = [op EXCEPT ![p] = NoOp]
    /\ UNCHANGED <<rollouts, conn, loaded, pending, run, check, crashes>>

-----------------------------------------------------------------------------
(* The environment *)

\* The connection breaks; then its reader fails every route.
LoseConnection ==
    /\ conn.live /\ conn.gen < MaxGens
    /\ conn' = [conn EXCEPT !.live = FALSE, !.losing = TRUE, !.loaded = {}]
    /\ UNCHANGED <<row, rollouts, loaded, op, pending, run, check, crashes>>

FailRoutes ==
    /\ conn.losing
    /\ conn' = [conn EXCEPT !.losing = FALSE]
    /\ pending' = {}
    /\ UNCHANGED <<row, rollouts, loaded, op, run, check, crashes>>

\* Codex loses a thread that is in nobody's memory; only the active modelling
\* thread is ever asked for again.
LoseRollout(t) ==
    /\ t \in Active("modeling") /\ t \in rollouts \ conn.loaded
    /\ rollouts' = rollouts \ {t}
    /\ UNCHANGED <<row, conn, loaded, op, pending, run, check, crashes>>

\* The process dies and starts again: normalize_agent_threads_after_process_restart;
\* a bound run is concluded from its history, an unbound running one is given up.
Restart ==
    /\ crashes < MaxCrashes /\ conn.gen < MaxGens
    /\ crashes' = crashes + 1
    /\ row' = [t \in Threads |-> IF row[t].st \in {"ready", "active"}
                                 THEN [row[t] EXCEPT !.st = "notloaded", !.gen = 0] ELSE row[t]]
    /\ conn' = [conn EXCEPT !.live = FALSE, !.losing = FALSE, !.loaded = {}]
    /\ loaded' = {} /\ pending' = {}
    /\ op' = [p \in Planes |-> NoOp]
    /\ run' = [r \in Runs |-> IF run[r].st = "running" THEN [run[r] EXCEPT !.st = "ended"]
                                                     ELSE run[r]]
    /\ UNCHANGED <<rollouts, check>>

\* recover_check: the history of the evaluator's turn is read, the thread archived.
RecoverCheck(k) ==
    /\ check[k] = "running" /\ op["validation"].pc = "idle"
    /\ \E t \in Active("validation"):
         /\ row[t].owner = k
         /\ row' = [row EXCEPT ![t].st = "archived", ![t].archived = TRUE]
    /\ UNCHANGED <<rollouts, conn, loaded, op, pending, run, check, crashes>>

\* thread/read fails: recover_check returns before it archives the thread, and the
\* check is failed.
RecoverFailed(k) ==
    /\ check[k] = "running" /\ op["validation"].pc = "idle"
    /\ check' = [check EXCEPT ![k] = "ended"]
    /\ UNCHANGED <<row, rollouts, conn, loaded, op, pending, run, crashes>>

-----------------------------------------------------------------------------
OpStep(p) ==
    \/ Connect(p) \/ StartThread(p) \/ AskTurn(p) \/ TurnStarted(p) \/ BindTurn(p)
    \/ FinishTurn(p) \/ GiveUp(p) \/ AskFailed(p) \/ BindFailed(p)

ConversationStep == StartConversationThread \/ InstallConversation
ActivationStep == ReuseThread \/ ResumeThread \/ ResumeMissing \/ ReplaceThread

ThreadsNext ==
    \/ \E r \in Runs: CreateRun(r) \/ EndRun(r) \/ PrepareRefinement(r) \/ OpenTurn(r)
    \/ \E k \in Checks: OpenCheck(k) \/ EndCheck(k) \/ RecoverCheck(k) \/ RecoverFailed(k)
    \/ OpenConversation \/ ConversationStep \/ ActivationStep
    \/ \E p \in Planes: OpStep(p)
    \/ LoseConnection \/ FailRoutes \/ Restart
    \/ \E t \in Threads: LoseRollout(t)

\* Requests and turns have timeouts, and the operation then goes on or gives up.
Fairness ==
    /\ \A p \in Planes: WF_vars(OpStep(p))
    /\ WF_vars(ConversationStep) /\ WF_vars(ActivationStep)

ThreadsSpec == ThreadsInit /\ [][ThreadsNext]_vars
FairThreadsSpec == ThreadsSpec /\ Fairness

-----------------------------------------------------------------------------
(* Properties *)

ThreadsTypeOK ==
    /\ row \in [Threads -> Row]
    /\ rollouts \subseteq Threads
    /\ conn \in Connection
    /\ loaded \subseteq Gens \X Threads
    /\ op \in [Planes -> Op]
    /\ pending \subseteq Planes
    /\ run \in [Runs -> RunState]
    /\ check \in [Checks -> {"queued", "running", "ended"}]
    /\ crashes \in 0..MaxCrashes

\* A plane never has two active threads, so that "Multiple active agent threads
\* exist" is never seen, whatever was replaced, lost, restarted or given up.
OneActiveThread == \A p \in Planes: Cardinality(Active(p)) <= 1

\* A run with a turn keeps its thread: neither a new conversation nor the
\* replacement of a missing thread retires it, whenever the user asks for one.
BoundOnActiveThread ==
    \A r \in ActiveRuns: run[r].turn =>
        run[r].thread # None /\ run[r].thread \in Active("modeling")

\* A thread is activated for a turn only if the connection the turn was given loaded
\* it, unless that connection is gone.
ActivatedIsLoaded ==
    \A p \in Planes:
        op[p].pc = "activated" /\ conn.live /\ conn.gen = op[p].gen
            => op[p].thread \in conn.loaded

\* No operation keeps the lease of its plane for ever: after any error the plane
\* takes another turn.
LeaseIsReleased ==
    \A p \in Planes: (op[p].pc # "idle") ~> (op[p].pc = "idle")

\* "fresh_and_archived_on_finish": once the operation that made it is over, a
\* validation thread is archived, or its check is bound to it and will archive it.
EvaluatorIsArchived ==
    op["validation"].pc = "idle" =>
        \A t \in Active("validation"): check[row[t].owner] = "running"

\* "The previous Codex thread could not be loaded. Continue this session": the run
\* whose thread is missing may have it replaced.
MissingThreadIsReplaced ==
    op["modeling"].pc = "replacing" => MayReplace(op["modeling"].who)

\* What the rows and the manager's memory say of each other in every state.
ThreadsInv == ThreadsTypeOK /\ OneActiveThread /\ ActivatedIsLoaded

=============================================================================
