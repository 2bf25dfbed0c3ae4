------------------------------ MODULE AgentRuns ------------------------------
(***************************************************************************)
(* One agent run from the user's prompt to its terminal status: the agent  *)
(* gateway (execute_run and the refinement tasks), the Codex turn it       *)
(* starts, the command line processes of that turn, the user who cancels,  *)
(* the tasks that reconcile the run with the thread history, a crash of    *)
(* the desktop process and its startup recovery; composed with             *)
(* ValidationCoordinator, whose steps are taken as they are.               *)
(*                                                                         *)
(* The run was just created and enqueued (start_run).  A step ends where   *)
(* the code awaits, spawns a task or gives a lock back, so that any two    *)
(* tasks interleave there.                                                 *)
(***************************************************************************)
EXTENDS ValidationCoordinator, FiniteSets

CONSTANTS
    MaxCrashes,  \* bound: crashes of the desktop process
    MaxCancels,  \* bound: clicks on cancel
    MaxExtras    \* bound: crashes, cancels and batches beyond the first, together

ASSUME BudgetAssumption ==
    MaxCrashes \in Nat /\ MaxCancels \in Nat /\ MaxExtras \in Nat

VARIABLES
    active,   \* the run is in the gateway's active_runs
    starts,   \* the task spawned by enqueue has not taken the session lock yet
    gw,       \* execute_run under the session lock: program counter
    gwTurn,   \* the Codex turn it started
    todo,     \* confirm_refinement_bound: the listed <<batch, claim>> yet to visit
    ext,      \* Codex: the status of every turn, as thread/read reports it
    made,     \* revisions created so far
    rec,      \* reconciling tasks: "cancel" and "startup" -> program counter
    recTurn,  \* the turn whose history the task has read
    madeBy,   \* history variable: the turn that finalized a batch
    crashes,
    cancels,
    row,      \* the agent_runs row, of which run is the cached copy
    snap      \* what a refresh has loaded and not installed yet

gwVars    == <<active, starts, gw, gwTurn, todo>>
recVars   == <<rec, recTurn>>
extVars   == <<ext, made, madeBy>>
budget    == <<crashes, cancels>>
agentVars == <<gwVars, extVars, recVars, budget>>
rowVars   == <<row, snap>>
runsVars  == <<allCoordVars, agentVars, rowVars>>

Tasks == {"cancel", "startup"}

GwPC == {"idle", "check", "run", "begin", "launch", "bind", "meta", "confirm", "turn",
         "install", "lost", "ok", "queue", "finish", "complete", "err", "failrun", "cleanup", "enqueue"}
RecPC == {"idle", "drop", "write", "mark", "interrupt", "read", "apply", "unknown", "clean"}

\* "hung": the history shows the turn in progress and always will.
ExtStatus == {"none", "running", "completed", "failed", "interrupted", "hung"}
Ended     == {"completed", "failed", "interrupted", "hung"}

Snapshot == [run : RunRecord, known : SUBSET Batches, rev : Revs \cup {None}]

QueuedRun == [status |-> "queued", step |-> "none", reconciling |-> FALSE]
NoSnap    == [run |-> QueuedRun, known |-> {}, rev |-> None]

AgentTypeOK ==
    /\ CoordTypeOK
    /\ active \in BOOLEAN
    /\ starts \in BOOLEAN
    /\ gw \in GwPC
    /\ gwTurn \in Turns \cup {None}
    /\ todo \in SUBSET (Batches \X (Tokens \cup {None}))
    /\ ext \in [Turns -> ExtStatus]
    /\ made \in SUBSET Revs
    /\ rec \in [Tasks -> RecPC]
    /\ recTurn \in [Tasks -> Turns \cup {None}]
    /\ madeBy \in [Batches -> Turns \cup {None}]
    /\ crashes \in 0 .. MaxCrashes
    /\ cancels \in 0 .. MaxCancels
    /\ row \in RunRecord
    /\ snap \in Snapshot

AgentInit ==
    /\ CoordInit
    /\ active = TRUE
    /\ starts = TRUE
    /\ gw = "idle"
    /\ gwTurn = None
    /\ todo = {}
    /\ ext = [t \in Turns |-> "none"]
    /\ made = {}
    /\ rec = [w \in Tasks |-> "idle"]
    /\ recTurn = [w \in Tasks |-> None]
    /\ madeBy = [b \in Batches |-> None]
    /\ crashes = 0
    /\ cancels = 0
    /\ row = run
    /\ snap = NoSnap

\* Room in the bound for one more crash, cancel or batch.
Spare == crashes + cancels + Cardinality({b \in Batches : Exists(b)}) <= MaxExtras
SpareBatch == (\E b \in Batches : Exists(b)) => Spare
SpareFault == IF \E b \in Batches : Exists(b) THEN Spare ELSE crashes + cancels < MaxExtras

-----------------------------------------------------------------------------
(* Operations of SessionService on the run. *)

\* update_agent_run takes any status at any time: see SetRun.

CanReconcile == ~RunTerminal /\ turn # None
MarkReconciling == run' = [run EXCEPT !.reconciling = TRUE]

\* mark_agent_run_unknown_outcome: nothing happens when it is refused.
MarkUnknown ==
    run' = IF RunTerminal \/ (turn # None /\ ~run.reconciling) THEN run
           ELSE [status |-> "failed", step |-> "none", reconciling |-> FALSE]

\* Mutant of StatusOf: the status is taken over in Codex's words.
MutStatusOfVerbatim(outcome) == outcome

StatusOf(outcome) ==
    CASE outcome = "completed"   -> "completed"
      [] outcome = "failed"      -> "failed"
      [] outcome = "interrupted" -> "cancelled"

\* apply_agent_run_history_recovery: refused without a turn and on a terminal
\* run of another status, without effect on a terminal run of the same one.
AcceptsHistory(outcome) ==
    turn # None /\ (RunTerminal => run.status = StatusOf(outcome))

ApplyHistory(outcome) ==
    run' = IF RunTerminal \/ ~AcceptsHistory(outcome) THEN run
           ELSE [status |-> StatusOf(outcome), step |-> "none", reconciling |-> FALSE]

\* The steps that save the cached run even when they leave it as it is:
\* update_agent_run, bind_agent_run_to_thread and the preparation of a refinement.
Writing ==
    \/ gw \in {"run", "queue", "complete", "failrun"} /\ gw' # gw
    \/ gw = "bind" /\ gw' = "meta"
    \/ gw = "meta" /\ gw' = "confirm"
    \/ rec["cancel"] = "write" /\ rec'["cancel"] # "write"
    \/ \E b \in Batches : eff[b] \in {"fail", "complete"} /\ eff'[b] # eff[b]
    \/ \E b \in Batches : eff[b] = "prepare" /\ eff'[b] = "request" /\ turn # None

\* save_agent_run writes the whole row, from the cache.
SavesRun ==
    /\ row' = IF Writing \/ run' # run THEN run' ELSE row
    /\ UNCHANGED snap

-----------------------------------------------------------------------------
(* The gateway: execute_run under the session lock. *)

GoGw(pc) == gw' = pc

\* What a gateway step leaves alone unless it says otherwise.
CoordAlone == <<storeVars, phase, coordVars>>

GwStart ==
    /\ gw = "idle"
    /\ starts
    /\ starts' = FALSE
    /\ GoGw("check")
    /\ UNCHANGED <<CoordAlone, run, cacheVars, spawned, active, gwTurn, todo, extVars>>

\* A refinement task is dropped while the run is (or is still marked) active.
GwRefine ==
    /\ gw = "idle"
    /\ spawned > 0
    /\ spawned' = spawned - 1
    /\ active' = TRUE
    /\ GoGw(IF active THEN "idle" ELSE "check")
    /\ UNCHANGED <<CoordAlone, run, cacheVars, starts, gwTurn, todo, extVars>>

GwCheck ==
    /\ gw = "check"
    /\ GoGw(IF active THEN "run" ELSE "idle")
    /\ UNCHANGED <<CoordAlone, run, cacheVars, spawned, active, starts, gwTurn, todo, extVars>>

GwRun ==
    /\ gw = "run"
    /\ SetRun("running", "starting")
    /\ GoGw("begin")
    /\ UNCHANGED <<CoordAlone, cacheVars, spawned, active, starts, gwTurn, todo, extVars>>

\* start_turn refuses a run that is terminal or bound to a turn already.
GwBegin ==
    /\ gw = "begin"
    /\ GoGw(IF turn # None \/ RunTerminal THEN "err" ELSE "launch")
    /\ UNCHANGED <<CoordAlone, run, cacheVars, spawned, active, starts, gwTurn, todo, extVars>>

\* turn/start is answered with the identifier of a turn that is under way.
GwLaunch ==
    /\ gw = "launch"
    /\ \E t \in Turns :
          /\ ext[t] = "none"
          /\ ext' = [ext EXCEPT ![t] = "running"]
          /\ gwTurn' = t
    /\ GoGw("bind")
    /\ UNCHANGED <<CoordAlone, run, cacheVars, spawned, active, starts, todo, made, madeBy>>

\* The process, the connection, the thread or the request failed.
GwLaunchFails ==
    /\ gw = "launch"
    /\ GoGw("err")
    /\ UNCHANGED <<CoordAlone, run, cacheVars, spawned, active, starts, gwTurn, todo, extVars>>

\* bind_agent_run_to_thread.  A refused binding leaves the turn to itself.
GwBind ==
    /\ gw = "bind"
    /\ IF RunTerminal \/ turn \notin {None, gwTurn}
       THEN UNCHANGED <<storeVars, run>> /\ GoGw("err")
       ELSE /\ SetTurn(gwTurn)
            /\ run' = [run EXCEPT !.reconciling = FALSE]
            /\ GoGw("meta")
    /\ UNCHANGED <<phase, coordVars, cacheVars, spawned, active, starts, gwTurn, todo, extVars>>

\* The RunMetadata event, ignored by the sink of a run that is not active.
GwMeta ==
    /\ gw = "meta"
    /\ IF active
       THEN /\ SetTurn(gwTurn)
            /\ todo' = {<<b, batch[b].effects>> : b \in {o \in known : Awaiting(o)}}
            /\ GoGw("confirm")
       ELSE UNCHANGED <<storeVars, todo>> /\ GoGw("turn")
    /\ UNCHANGED <<phase, coordVars, run, cacheVars, spawned, active, starts, gwTurn, extVars>>

GwConfirm(b, c) ==
    /\ gw = "confirm"
    /\ <<b, c>> \in todo
    /\ ConfirmBound(b, c)
    /\ todo' = todo \ {<<b, c>>}
    /\ GoGw(IF todo' = {} THEN "turn" ELSE "confirm")
    /\ UNCHANGED <<run, phase, cacheVars, iteration, task, exec, number, lease, spawned,
                   active, starts, gwTurn, extVars>>

\* The event sink reports the error: the run fails and its turn goes on alone.
GwConfirmRefused(b, c) ==
    /\ gw = "confirm"
    /\ <<b, c>> \in todo
    /\ ConfirmRefused(b, c)
    /\ todo' = {}
    /\ GoGw("err")
    /\ UNCHANGED <<CoordAlone, run, cacheVars, spawned, active, starts, gwTurn, extVars>>

GwNothingToConfirm ==
    /\ gw = "confirm"
    /\ todo = {}
    /\ GoGw("turn")
    /\ UNCHANGED <<CoordAlone, run, cacheVars, spawned, active, starts, gwTurn, todo, extVars>>

-----------------------------------------------------------------------------
(* The gateway while the turn is under way, and its end. *)

\* The events of the turn are dropped by the sink of a run that is not active.
\* Each saves the cached run with the label of the moment, whatever its status.
SavesProgress ==
    /\ gw = "turn"
    /\ active
    /\ run' = [run EXCEPT !.step = "starting"]
    /\ row' = run'

GwProgress ==
    /\ SavesProgress
    /\ UNCHANGED <<CoordAlone, cacheVars, spawned, gwVars, extVars, snap>>

\* A ToolCompleted event of a cadgen-ax command refreshes the cache as well:
\* everything is loaded first and installed in a later step.
GwLoad ==
    /\ SavesProgress
    /\ snap' = [run |-> run', known |-> {b \in Batches : Exists(b)}, rev |-> outRev]
    /\ GoGw("install")
    /\ UNCHANGED <<CoordAlone, cacheVars, spawned, active, starts, gwTurn, todo, extVars>>

GwInstall ==
    /\ gw = "install"
    /\ run' = snap.run
    /\ known' = snap.known
    /\ cachedRev' = snap.rev
    /\ snap' = NoSnap
    /\ GoGw("turn")
    /\ UNCHANGED <<CoordAlone, spawned, active, starts, gwTurn, todo, extVars, row>>

\* The last command that wrote anything has been followed by its refresh.
Refreshed == cachedRev = outRev /\ \A b \in Batches : Exists(b) => b \in known

\* The terminal notification comes after those of every command of the turn.
GwTurnEnds ==
    /\ gw = "turn"
    /\ ext[gwTurn] \in {"completed", "failed", "interrupted"}
    /\ active => Refreshed
    /\ \/ ext[gwTurn] = "completed" /\ GoGw("ok")
       \/ ext[gwTurn] = "completed" /\ GoGw("lost")   \* no agent message was seen
       \/ ext[gwTurn] # "completed" /\ GoGw("err")
    /\ UNCHANGED <<CoordAlone, run, cacheVars, spawned, active, starts, gwTurn, todo, extVars>>

\* The turn timeout interrupts the turn; its end is read from the
\* notifications or, if they do not come, from the history.
GwTimeout ==
    /\ gw = "turn"
    /\ ext[gwTurn] = "running"
    /\ ext' = [ext EXCEPT ![gwTurn] = "interrupted"]
    /\ GoGw("err") \/ GoGw("lost")
    /\ UNCHANGED <<CoordAlone, run, cacheVars, spawned, active, starts, gwTurn, todo, made, madeBy>>

\* The app-server died: a running turn ends with it, in whatever way its
\* history will show; notifications already sent may be lost.
GwConnectionLost ==
    /\ gw = "turn"
    /\ IF ext[gwTurn] = "running"
       THEN \E s \in Ended : ext' = [ext EXCEPT ![gwTurn] = s]
       ELSE UNCHANGED ext
    /\ IF CanReconcile
       THEN MarkReconciling /\ GoGw("lost")
       ELSE UNCHANGED run /\ GoGw("err")
    /\ UNCHANGED <<CoordAlone, cacheVars, spawned, active, starts, gwTurn, todo, made, madeBy>>

\* recover_run_from_history, for the turn the run is bound to.
GwHistory ==
    /\ gw = "lost"
    /\ IF turn = None
       THEN UNCHANGED run /\ GoGw("err")
       ELSE IF ext[turn] \in {"hung", "running"}
       THEN MarkUnknown /\ GoGw("err")
       ELSE /\ ApplyHistory(ext[turn])
            /\ GoGw(IF ext[turn] = "completed" /\ AcceptsHistory("completed") THEN "ok" ELSE "err")
    /\ UNCHANGED <<CoordAlone, cacheVars, spawned, active, starts, gwTurn, todo, extVars>>

Pending == \E b \in known : Unsettled(b)

\* Mutant of GwOk: the end of the turn is the end of the run.
MutGwOkFinishing ==
    /\ gw = "ok"
    /\ GoGw("finish")
    /\ UNCHANGED <<CoordAlone, run, cacheVars, spawned, active, starts, gwTurn, todo, extVars>>

GwOk ==
    /\ gw = "ok"
    /\ GoGw(IF Pending THEN "queue" ELSE "finish")
    /\ UNCHANGED <<CoordAlone, run, cacheVars, spawned, active, starts, gwTurn, todo, extVars>>

GwQueue ==
    /\ gw = "queue"
    /\ SetRun("running", "validation")
    /\ GoGw("cleanup")
    /\ UNCHANGED <<CoordAlone, cacheVars, spawned, active, starts, gwTurn, todo, extVars>>

GwFinish ==
    /\ gw = "finish"
    /\ GoGw(IF active /\ ~RunTerminal THEN "complete" ELSE "cleanup")
    /\ UNCHANGED <<CoordAlone, run, cacheVars, spawned, active, starts, gwTurn, todo, extVars>>

GwComplete ==
    /\ gw = "complete"
    /\ SetRun("completed", "none")
    /\ GoGw("cleanup")
    /\ UNCHANGED <<CoordAlone, cacheVars, spawned, active, starts, gwTurn, todo, extVars>>

\* A run that is terminal already is left as it is: nothing is enqueued.
GwErr ==
    /\ gw = "err"
    /\ gwTurn' = IF RunTerminal THEN None ELSE gwTurn
    /\ active' = (active /\ ~RunTerminal)
    /\ GoGw(IF RunTerminal THEN "idle" ELSE "failrun")
    /\ UNCHANGED <<CoordAlone, run, cacheVars, spawned, starts, todo, extVars>>

GwFailRun ==
    /\ gw = "failrun"
    /\ SetRun("failed", "none")
    /\ GoGw("cleanup")
    /\ UNCHANGED <<CoordAlone, cacheVars, spawned, active, starts, gwTurn, todo, extVars>>

\* Mutant of GwCleanup: the run is not taken out of active_runs.
MutGwCleanupKeepingActive ==
    /\ gw = "cleanup"
    /\ gwTurn' = None
    /\ GoGw("enqueue")
    /\ UNCHANGED <<CoordAlone, run, cacheVars, spawned, active, starts, todo, extVars>>

\* Mutant of GwCleanup: the coordinator is not told that the turn has ended.
MutGwCleanupOnly ==
    /\ gw = "cleanup"
    /\ active' = FALSE
    /\ gwTurn' = None
    /\ GoGw("idle")
    /\ UNCHANGED <<CoordAlone, run, cacheVars, spawned, starts, todo, extVars>>

GwCleanup ==
    /\ gw = "cleanup"
    /\ active' = FALSE
    /\ gwTurn' = None
    /\ GoGw("enqueue")
    /\ UNCHANGED <<CoordAlone, run, cacheVars, spawned, starts, todo, extVars>>

\* Mutant of GwEnqueue: every known batch is started, whatever its status.
MutGwEnqueueAll ==
    /\ gw = "enqueue"
    /\ StartTasks(known)
    /\ StartEffects(known)
    /\ GoGw("idle")
    /\ UNCHANGED <<storeVars, run, phase, cacheVars, iteration, number, lease, activeRef, spawned,
                   active, starts, gwTurn, todo, extVars>>

GwEnqueue ==
    /\ gw = "enqueue"
    /\ EnqueueRun
    /\ GoGw("idle")
    /\ UNCHANGED <<storeVars, run, phase, cacheVars, iteration, number, lease, activeRef, spawned,
                   active, starts, gwTurn, todo, extVars>>

GwAct ==
    /\ \/ GwStart   \/ GwRefine  \/ GwCheck \/ GwRun    \/ GwBegin  \/ GwLaunch
       \/ GwLaunchFails \/ GwBind \/ GwMeta \/ (\E p \in todo : GwConfirm(p[1], p[2]) \/ GwConfirmRefused(p[1], p[2]))
       \/ GwNothingToConfirm \/ GwTurnEnds \/ GwTimeout \/ GwConnectionLost
       \/ GwHistory \/ GwOk \/ GwQueue \/ GwFinish \/ GwComplete
       \/ GwErr \/ GwFailRun \/ GwCleanup \/ GwEnqueue
    /\ SavesRun

GwStep ==
    /\ phase = "up"
    /\ UNCHANGED <<recVars, budget>>
    /\ GwAct \/ GwProgress \/ GwLoad \/ GwInstall

-----------------------------------------------------------------------------
(* The turn: the command line processes the agent starts, and its end. *)

ExternalAlone == <<run, phase, cacheVars, coordVars, spawned, gwVars, recVars, budget, rowVars>>

AgentApply(t) ==
    /\ ext[t] = "running"
    /\ \E r \in Revs \ made : LinkOutputRevision(r) /\ made' = made \cup {r}
    /\ UNCHANGED <<ExternalAlone, ext, madeBy>>

AgentFinalize(t) ==
    /\ ext[t] = "running"
    /\ SpareBatch
    /\ \E b \in Batches : CreateBatch(b) /\ madeBy' = [madeBy EXCEPT ![b] = t]
    /\ UNCHANGED <<ExternalAlone, ext, made>>

AgentEnds(t) ==
    /\ ext[t] = "running"
    /\ \E s \in {"completed", "failed"} : ext' = [ext EXCEPT ![t] = s]
    /\ UNCHANGED <<ExternalAlone, storeVars, made, madeBy>>

AgentStep ==
    /\ phase = "up"
    /\ \E t \in Turns : AgentApply(t) \/ AgentFinalize(t) \/ AgentEnds(t)

-----------------------------------------------------------------------------
(* Cancellation (cancel_run and the task it spawns) and the startup task   *)
(* that reads the history of an interrupted run.                           *)

GoRec(w, pc) == rec' = [rec EXCEPT ![w] = pc]

RecAlone == <<storeVars, phase, cacheVars, coordVars, spawned, starts, gw, gwTurn, todo,
              made, madeBy, crashes>>

CancelRequest ==
    /\ cancels < MaxCancels /\ SpareFault
    /\ rec["cancel"] = "idle"
    /\ ~RunTerminal
    /\ cancels' = cancels + 1
    /\ GoRec("cancel", IF turn = None THEN "drop" ELSE "mark")
    /\ UNCHANGED <<RecAlone, run, active, ext, recTurn>>

CancelDrop ==
    /\ rec["cancel"] = "drop"
    /\ active' = FALSE
    /\ GoRec("cancel", "write")
    /\ UNCHANGED <<RecAlone, run, ext, recTurn, cancels>>

CancelWrite ==
    /\ rec["cancel"] = "write"
    /\ SetRun("cancelled", "none")
    /\ GoRec("cancel", "idle")
    /\ UNCHANGED <<RecAlone, active, ext, recTurn, cancels>>

CancelMark ==
    /\ rec["cancel"] = "mark"
    /\ IF CanReconcile
       THEN MarkReconciling /\ GoRec("cancel", "interrupt")
       ELSE UNCHANGED run /\ GoRec("cancel", "idle")
    /\ UNCHANGED <<RecAlone, active, ext, recTurn, cancels>>

\* turn/interrupt stops a running turn; on any turn it may be refused.
CancelInterrupt ==
    /\ rec["cancel"] = "interrupt"
    /\ \/ GoRec("cancel", "unknown") /\ UNCHANGED ext
       \/ /\ turn # None
          /\ ext' = [ext EXCEPT ![turn] = IF @ = "running" THEN "interrupted" ELSE @]
          /\ GoRec("cancel", "read")
    /\ UNCHANGED <<RecAlone, run, active, recTurn, cancels>>

RecRead(w) ==
    /\ rec[w] = "read"
    /\ recTurn' = [recTurn EXCEPT ![w] = turn]
    /\ GoRec(w, IF turn = None THEN "unknown" ELSE "apply")
    /\ UNCHANGED <<RecAlone, run, active, ext, cancels>>

RecDone(w) == IF w = "cancel" THEN "clean" ELSE "idle"

\* The cancel task reads a turn in progress again until its deadline passes;
\* the startup task leaves the run reconciling.
RecApply(w) ==
    /\ rec[w] = "apply"
    /\ recTurn' = [recTurn EXCEPT ![w] = None]
    /\ \/ /\ ext[recTurn[w]] \in {"hung", "running"}
          /\ IF CanReconcile THEN MarkReconciling ELSE UNCHANGED run
          /\ \/ CanReconcile /\ w = "startup" /\ GoRec(w, "idle")
             \/ ext[recTurn[w]] = "running" /\ w = "cancel" /\ GoRec(w, "read")
             \/ ~(CanReconcile /\ w = "startup") /\ GoRec(w, "unknown")
       \/ /\ ext[recTurn[w]] \notin {"hung", "running"}
          /\ ApplyHistory(ext[recTurn[w]])
          /\ GoRec(w, IF AcceptsHistory(ext[recTurn[w]]) THEN RecDone(w) ELSE "unknown")
    /\ UNCHANGED <<RecAlone, active, ext, cancels>>

RecUnknown(w) ==
    /\ rec[w] = "unknown"
    /\ MarkUnknown
    /\ GoRec(w, RecDone(w))
    /\ UNCHANGED <<RecAlone, active, ext, recTurn, cancels>>

CancelClean ==
    /\ rec["cancel"] = "clean"
    /\ active' = FALSE
    /\ GoRec("cancel", "idle")
    /\ UNCHANGED <<RecAlone, run, ext, recTurn, cancels>>

RecStep ==
    /\ phase = "up"
    /\ \/ CancelRequest \/ CancelDrop \/ CancelWrite \/ CancelMark \/ CancelInterrupt
       \/ CancelClean
       \/ \E w \in Tasks : RecRead(w) \/ RecApply(w) \/ RecUnknown(w)
    /\ SavesRun

-----------------------------------------------------------------------------
(* Crash and startup. *)

\* The app-server is a child of the desktop process and dies with it.
Crash ==
    /\ crashes < MaxCrashes /\ SpareFault
    /\ crashes' = crashes + 1
    /\ CoordCrash
    /\ active' = FALSE
    /\ starts' = FALSE
    /\ gw' = "idle"
    /\ gwTurn' = None
    /\ todo' = {}
    /\ rec' = [w \in Tasks |-> "idle"]
    /\ recTurn' = [w \in Tasks |-> None]
    /\ \E s \in Ended : ext' = [t \in Turns |-> IF ext[t] = "running" THEN s ELSE ext[t]]
    /\ snap' = NoSnap
    /\ UNCHANGED <<made, madeBy, cancels, row>>

Boot == CoordBoot /\ run' = row /\ UNCHANGED <<agentVars, rowVars>>

BootNormalize(b) == CoordNormalize(b) /\ UNCHANGED <<agentVars, rowVars>>

\* list_startup_agent_run_recovery_candidates: a run that waits, unbound, for
\* the effects of a batch of its output revision is left to the coordinator.
IsCandidate ==
    /\ ~RunTerminal
    /\ ~\E b \in Batches :
          SameRevision(b, outRev) /\ ~batch[b].applied /\ turn = None

\* recover_startup_runs, then recover_startup.
BootRecover ==
    /\ CoordRecover
    /\ \/ /\ IsCandidate /\ turn # None
          /\ MarkReconciling
          /\ GoRec("startup", "read")
          /\ UNCHANGED <<active, starts>>
       \/ /\ IsCandidate /\ turn = None /\ run.status = "queued"
          /\ active' = TRUE
          /\ starts' = TRUE
          /\ UNCHANGED <<run, rec>>
       \/ /\ IsCandidate /\ turn = None /\ run.status # "queued"
          /\ MarkUnknown
          /\ UNCHANGED <<active, starts, rec>>
       \/ /\ ~IsCandidate
          /\ UNCHANGED <<run, active, starts, rec>>
    /\ UNCHANGED <<gw, gwTurn, todo, recTurn, extVars, budget>>
    /\ SavesRun

-----------------------------------------------------------------------------

AgentCoordStep == CoordStep /\ UNCHANGED agentVars /\ SavesRun

AgentNext ==
    \/ AgentCoordStep
    \/ GwStep
    \/ AgentStep
    \/ RecStep
    \/ Crash
    \/ Boot
    \/ \E b \in Batches : BootNormalize(b)
    \/ BootRecover

AgentSpec == AgentInit /\ [][AgentNext]_runsVars

\* Tasks of the runtime are scheduled, requests are answered or time out, turns
\* are interrupted when they take too long and run finitely many commands, so
\* that their end is reached; nobody has to cancel or to crash.
Fairness ==
    /\ WF_runsVars(AgentCoordStep)
    /\ WF_runsVars(GwStep /\ gw' # gw)
    /\ SF_runsVars(GwStep /\ gw = "turn" /\ gw' \notin {"turn", "install"})
    /\ \A t \in Turns : WF_runsVars(phase = "up" /\ AgentEnds(t))
    /\ \A w \in Tasks : WF_runsVars(RecStep /\ rec[w] # "idle" /\ rec'[w] # rec[w])
    /\ WF_runsVars(Boot \/ (\E b \in Batches : BootNormalize(b)) \/ BootRecover)

FairAgentSpec == AgentSpec /\ Fairness

-----------------------------------------------------------------------------
(* Properties. *)

\* The executor that is about to complete, fail or refine the run speaks for
\* the newest attempt on the output revision the process knows, although it
\* looked at both several steps ago.
ActsOnLatest ==
    \A b \in Batches : eff[b] \in {"fail", "complete", "refine", "prepare", "request"} =>
        IsLatest(b)

\* A rejection is answered by a turn that starts after it.
AnsweredByLaterTurn ==
    \A b \in Batches : batch[b].bound => turn # madeBy[b]

\* A run never waits for two refinement turns, and the task that will start the
\* one it waits for is never dropped as a duplicate of the turn it follows.
OneRefinementTask ==
    /\ spawned <= 1
    /\ (spawned = 1 /\ gw = "idle") => ~active

\* The iteration number an executor has computed is still free when it saves it,
\* a transaction later: UNIQUE(run_id, iteration) never refuses the save, which
\* would leave the batch claimed and the run without an answer.
SaveNeverConflicts ==
    \A b \in Batches : eff[b] = "save" => ~NumberTaken(b)

\* A refresh under way may put back what was cached of a batch whose checks are
\* executed meanwhile, and the next step of that execution be refused.
CachedRowsAtRisk(b) == gw = "install" /\ task[b] # "idle"

\* Liveness: a batch the process knows of is concluded, or the run has ended
\* without it, or a refresh has overtaken the execution of its checks.
BatchesAreConcluded ==
    \A b \in Batches : b \in known ~>
        (batch[b].applied \/ RunTerminal \/ CachedRowsAtRisk(b))

\* Liveness: a verdict that calls for no refinement ends the run, unless a newer
\* model or a newer attempt has taken its place.
VerdictEndsRun ==
    \A b \in Batches :
        (b \in known /\ Settled(b) /\ ~Rejected(b)) ~> (RunTerminal \/ ~IsLatest(b))

\* Liveness: a run the user has cancelled ends, and stays ended.
CancelEndsRun == (cancels > 0) ~> []RunTerminal

\* A rejection of the newest model is never closed in silence: a turn bound to
\* the run answers it, or the run has ended.
RejectionIsAnswered ==
    [][\A b \in Batches :
          (Rejected(b) /\ ~batch[b].applied /\ batch'[b].applied
             /\ LatestBatch(b))
             => batch'[b].bound \/ RunTerminal]_runsVars

\* A completion that was recorded before, for a refresh or a new process to find.
RecordedCompletion == "completed" \in {run.status, row.status, snap.run.status}

\* A run is completed over an open verdict (checks under way, or a rejection no
\* later turn has answered) only by a reading of its turn's history: neither the
\* gateway, which looked at the batches when the turn ended, nor the executor of
\* another batch can complete it.
CompletionIsEarned ==
    [][(~RecordedCompletion /\ run'.status = "completed") =>
          \/ gw = "lost" \/ \E w \in Tasks : rec[w] = "apply"
          \/ \A b \in Batches : Exists(b) /\ LatestBatch(b) =>
                Settled(b) /\ (batch[b].passed \/ batch[b].bound)]_runsVars

\* A cancellation that is recorded, in the cache and in the row, is undone only by
\* somebody who looked at the run before it: an update in the step after its look,
\* or a refresh that loaded the run before the cancellation was saved.  A
\* refinement that is prepared, a history that is read, the progress of the turn
\* and a restart leave it alone.
CancelledAtRestStays ==
    [][(run.status = "cancelled" /\ row.status = "cancelled") =>
          \/ run'.status = "cancelled" /\ row'.status = "cancelled"
          \/ gw \in {"run", "queue", "complete", "failrun"} /\ gw' # gw
          \/ gw = "install" /\ gw' = "turn" /\ snap.run.status # "cancelled"
          \/ \E b \in Batches : eff[b] \in {"fail", "complete"} /\ eff'[b] # eff[b]]_runsVars

\* README: a run is completed only when every check has passed.
CompletedOnlyAfterPass ==
    \A b \in Batches :
        (run.status = "completed" /\ batch[b].applied /\ LatestBatch(b))
            => batch[b].passed

\* A cancelled run is not brought back to life once a batch of it has been
\* judged (the test cancelled_run_is_not_resurrected_by_terminal_batch).
CancelledStaysCancelled ==
    [][run.status = "cancelled" /\ (\E b \in Batches : Settled(b))
          => run'.status # "running"]_runsVars

\* A refresh leaves a cancelled run cancelled.
RefreshKeepsCancelled ==
    [][gw = "install" /\ gw' = "turn" /\ run.status = "cancelled"
          => run'.status = "cancelled"]_runsVars

\* Gateway, agent, user and startup touch validation only as the environment of
\* ValidationCoordinator may: what holds there holds in the whole program.
ImplementsCoordinator == CoordSpec

=============================================================================
