------------------------ MODULE ValidationCoordinator ------------------------
(***************************************************************************)
(* The ValidationCoordinator of the desktop process: it runs the checks of *)
(* a batch concurrently, settles the batch once all have ended, and        *)
(* applies the verdict to the agent run: complete it, fail it, or ask the  *)
(* gateway for a refinement turn.                                          *)
(*                                                                         *)
(* A step is one call into SessionService (a lock and a transaction), so   *)
(* tasks interleave wherever the code awaits, returns to the executor or   *)
(* merely releases the service lock.  The operators below are the steps;   *)
(* AgentRuns composes them with the gateway, the agent and the user.       *)
(* Spec closes the module with the weakest environment: anything the rest  *)
(* of the program may do to the run between two steps of the coordinator.  *)
(***************************************************************************)
EXTENDS ValidationStore

VARIABLES
    run,        \* agent_runs: status, active_step and recovery_status
    known,      \* the batches in the desktop process's cache (state.validation_batches)
    cachedRev,  \* the run's output revision in that cache
    iteration,  \* workflow_outer_iterations: batch -> iteration number, 0 if none
    phase,      \* "down", "boot" (startup recovery in progress) or "up"
    task,       \* execute_batch: batch -> program counter (active_batches)
    exec,       \* execute_*_check: batch -> check -> program counter
    eff,        \* apply_settled_effects: batch -> program counter
    number,     \* its local: the iteration number computed before the save
    lease,      \* the validation-plane scope lease: the batch whose VLM check holds it
    activeRef,  \* active_refinements
    spawned     \* refinement tasks handed to the gateway and not yet started

cacheVars == <<known, cachedRev>>
coordVars == <<iteration, task, exec, eff, number, lease, activeRef>>
taskVars  == <<task, exec, lease>>

RunStatus == {"queued", "running", "completed", "failed", "cancelled"}
\* active_step; "starting" stands for every label a modelling turn gives it.
ActiveStep == {"none", "starting", "validation", "refining"}
\* Of the recovery status only "reconciling" is ever tested.
RunRecord == [status : RunStatus, step : ActiveStep, reconciling : BOOLEAN]

TaskPC == {"idle", "checks", "claim", "settle"}
ExecPC == {"idle", "start", "work", "render", "turn", "recover", "done"}
EffPC  == {"idle", "claim", "latest", "status", "fail", "iterate", "save", "complete",
           "refine", "prepare", "request", "enqueue", "bind", "mark"}

CoordTypeOK ==
    /\ StoreTypeOK
    /\ run \in RunRecord
    /\ known \in SUBSET Batches
    /\ cachedRev \in Revs \cup {None}
    /\ iteration \in [Batches -> Nat]
    /\ phase \in {"down", "boot", "up"}
    /\ task \in [Batches -> TaskPC]
    /\ exec \in [Batches -> [Kinds -> ExecPC]]
    /\ eff \in [Batches -> EffPC]
    /\ number \in [Batches -> Nat]
    /\ lease \in Batches \cup {None}
    /\ activeRef \in SUBSET Batches
    /\ spawned \in Nat

RunTerminal == run.status \in {"completed", "failed", "cancelled"}

IdleVolatile ==
    /\ task = [b \in Batches |-> "idle"]
    /\ exec = [b \in Batches |-> [k \in Kinds |-> "idle"]]
    /\ eff = [b \in Batches |-> "idle"]
    /\ number = [b \in Batches |-> 0]
    /\ lease = None
    /\ activeRef = {}
    /\ spawned = 0

CoordInit ==
    /\ StoreInit
    /\ run = [status |-> "queued", step |-> "none", reconciling |-> FALSE]
    /\ known = {}
    /\ cachedRev = None
    /\ iteration = [b \in Batches |-> 0]
    /\ phase = "up"
    /\ IdleVolatile

-----------------------------------------------------------------------------
(* Running the checks: execute_batch and the three executions it joins. *)

\* What the execution of a check does first depends on the status it was
\* listed with.  A structural or DFM check is never listed running: startup has
\* queued it again before any task of the new process starts.
ExecEntry(b, k) ==
    CASE Terminal(b, k)                -> "done"
      [] ~Terminal(b, k) /\ k # Vlm    -> "start"
      [] check[b][k].status = "running" /\ k = Vlm -> "recover"
      [] check[b][k].status = "queued"  /\ k = Vlm -> "render"

\* Start the task of every batch of S that is not active already.
StartTasks(S) ==
    LET fresh == {b \in S : task[b] = "idle"} IN
    /\ task' = [b \in Batches |-> IF b \in fresh THEN "checks" ELSE task[b]]
    /\ exec' = [b \in Batches |->
                  IF b \in fresh THEN [k \in Kinds |-> ExecEntry(b, k)] ELSE exec[b]]

\* An executor already at work owns the claim; a second one would find it taken.
StartEffects(S) ==
    eff' = [b \in Batches |-> IF b \in S /\ eff[b] = "idle" THEN "claim" ELSE eff[b]]

GoExec(b, k, pc) == exec' = [exec EXCEPT ![b][k] = pc]

ExecStart(b, k) ==
    /\ exec[b][k] = "start"
    /\ StartCheck(b, k)
    /\ GoExec(b, k, "work")
    /\ UNCHANGED <<task, lease>>

\* persist_check_result: a report, or an operational failure (the evaluation
\* failed, or rejected without an actionable issue).
EndCheck(b, k) == FailCheck(b, k) \/ \E p \in BOOLEAN : CompleteCheck(b, k, p)

ExecFinish(b, k) ==
    /\ exec[b][k] = "work"
    /\ EndCheck(b, k)
    /\ GoExec(b, k, "done")
    /\ UNCHANGED <<task, lease>>

\* Rendering or starting the evaluator turn failed, or the session's one
\* validation lease is taken: the check fails without having run.
VlmUnavailable(b) ==
    /\ exec[b][Vlm] = "render"
    /\ FailCheck(b, Vlm)
    /\ GoExec(b, Vlm, "done")
    /\ UNCHANGED <<task, lease>>

VlmBind(b) ==
    /\ exec[b][Vlm] = "render"
    /\ lease = None
    /\ StartCheck(b, Vlm)
    /\ lease' = b
    /\ GoExec(b, Vlm, "turn")
    /\ UNCHANGED task

VlmFinish(b) ==
    /\ exec[b][Vlm] = "turn"
    /\ EndCheck(b, Vlm)
    /\ lease' = None
    /\ GoExec(b, Vlm, "done")
    /\ UNCHANGED task

\* Mutant of VlmRecover: the check is queued again and evaluated a second time.
MutVlmRecoverByRetry(b) ==
    /\ exec[b][Vlm] = "recover"
    /\ WriteCheck(b, Vlm, QueuedCheck)
    /\ UNCHANGED <<batch, issued, outRev, turn>>
    /\ GoExec(b, Vlm, "render")
    /\ UNCHANGED <<task, lease>>

\* After a restart the bound turn is read from the thread history.
VlmRecover(b) ==
    /\ exec[b][Vlm] = "recover"
    /\ EndCheck(b, Vlm)
    /\ GoExec(b, Vlm, "done")
    /\ UNCHANGED <<task, lease>>

CheckExec(b) ==
    /\ \/ \E k \in Kinds \ {Vlm} : ExecStart(b, k) \/ ExecFinish(b, k)
       \/ VlmUnavailable(b)
       \/ VlmBind(b)
       \/ VlmFinish(b)
       \/ VlmRecover(b)
    /\ UNCHANGED <<run, cacheVars, iteration, eff, number, activeRef, spawned>>

-----------------------------------------------------------------------------
(* Settlement: try_settle_batch. *)

GoTask(b, pc) == task' = [task EXCEPT ![b] = pc]

TaskJoin(b) ==
    /\ task[b] = "checks"
    /\ \A k \in Kinds : exec[b][k] = "done"
    /\ GoTask(b, "claim")
    /\ UNCHANGED <<storeVars, exec, eff>>

TaskClaim(b) ==
    /\ task[b] = "claim"
    /\ \E t \in Stamps : ClaimSettlement(b, t)
    /\ GoTask(b, "settle")
    /\ UNCHANGED <<exec, eff>>

SomeFailed(b) == \E k \in Kinds : check[b][k].status = "failed"
AllPassed(b)  == \A k \in Kinds : check[b][k].passed

\* Mutant of TaskSettle: an operational failure is aggregated like a rejection.
MutTaskSettleIgnoringFailures(b) ==
    /\ task[b] = "settle"
    /\ Settle(b, batch[b].claim, "succeeded", AllPassed(b))
    /\ GoTask(b, "idle")
    /\ StartEffects({b})
    /\ UNCHANGED exec

\* The verdict, from the checks as they are listed under the claim.
TaskSettle(b) ==
    /\ task[b] = "settle"
    /\ Settle(b, batch[b].claim, IF SomeFailed(b) THEN "failed" ELSE "succeeded", AllPassed(b))
    /\ GoTask(b, "idle")
    /\ StartEffects({b})
    /\ UNCHANGED exec

TaskStep(b) ==
    /\ TaskJoin(b) \/ TaskClaim(b) \/ TaskSettle(b)
    /\ UNCHANGED <<run, cacheVars, iteration, number, lease, activeRef, spawned>>

-----------------------------------------------------------------------------
(* Effects: apply_settled_effects, one executor per batch. *)

GoEff(b, pc) == eff' = [eff EXCEPT ![b] = pc]

\* Mutant of SetRun: the two optional arguments are swapped.
MutSetRunSwapped(status, step) == run' = [run EXCEPT !.status = step, !.step = status]

SetRun(status, step) == run' = [run EXCEPT !.status = status, !.step = step]

EffClaim(b) ==
    /\ eff[b] = "claim"
    /\ IF CanClaimEffects(b)
       THEN (\E t \in Tokens : ClaimEffects(b, t)) /\ GoEff(b, "latest")
       ELSE UNCHANGED storeVars /\ GoEff(b, "idle")
    /\ UNCHANGED <<run, iteration, number, activeRef, spawned>>

\* is_latest: the run as cached, then the run and the attempts in the database.
IsLatest(b) == cachedRev = batch[b].rev /\ LatestBatch(b)

\* Mutant of EffLatest: the verdict of an outdated model is applied.
MutEffLatestUnchecked(b) ==
    /\ eff[b] = "latest"
    /\ GoEff(b, "status")
    /\ UNCHANGED <<storeVars, run, iteration, number, activeRef, spawned>>

EffLatest(b) ==
    /\ eff[b] = "latest"
    /\ GoEff(b, IF IsLatest(b) THEN "status" ELSE "mark")
    /\ UNCHANGED <<storeVars, run, iteration, number, activeRef, spawned>>

EffStatus(b) ==
    /\ eff[b] = "status"
    /\ GoEff(b, IF RunTerminal THEN "mark"
                ELSE IF batch[b].status = "failed" THEN "fail" ELSE "iterate")
    /\ UNCHANGED <<storeVars, run, iteration, number, activeRef, spawned>>

\* Mutant of EffFail: the failure is not recorded on the run.
MutEffFailSilently(b) ==
    /\ eff[b] = "fail"
    /\ GoEff(b, "mark")
    /\ UNCHANGED <<storeVars, run, iteration, number, activeRef, spawned>>

EffFail(b) ==
    /\ eff[b] = "fail"
    /\ SetRun("failed", "none")
    /\ GoEff(b, "mark")
    /\ UNCHANGED <<storeVars, iteration, number, activeRef, spawned>>

Iterations == {0} \cup {iteration[b] : b \in Batches}

LastIteration(n) == n \in Iterations /\ \A m \in Iterations : m <= n

AfterIteration(b) == IF batch[b].passed THEN "complete" ELSE "refine"

\* Mutant of EffIterate: the last iteration number is used again.
MutEffIterateSameNumber(b) ==
    /\ eff[b] = "iterate"
    /\ IF iteration[b] # 0
       THEN GoEff(b, AfterIteration(b)) /\ UNCHANGED number
       ELSE /\ GoEff(b, "save")
            /\ \E n \in Iterations : LastIteration(n) /\ number' = [number EXCEPT ![b] = n]
    /\ UNCHANGED <<storeVars, run, iteration, activeRef, spawned>>

EffIterate(b) ==
    /\ eff[b] = "iterate"
    /\ IF iteration[b] # 0
       THEN GoEff(b, AfterIteration(b)) /\ UNCHANGED number
       ELSE /\ GoEff(b, "save")
            /\ \E n \in Iterations : LastIteration(n) /\ number' = [number EXCEPT ![b] = n + 1]
    /\ UNCHANGED <<storeVars, run, iteration, activeRef, spawned>>

\* UNIQUE(run_id, iteration): the save fails if the number was taken meanwhile.
NumberTaken(b) == \E o \in Batches : iteration[o] = number[b]

EffSave(b) ==
    /\ eff[b] = "save"
    /\ number' = [number EXCEPT ![b] = 0]
    /\ IF NumberTaken(b)
       THEN GoEff(b, "idle") /\ UNCHANGED iteration
       ELSE /\ iteration' = [iteration EXCEPT ![b] = number[b]]
            /\ GoEff(b, AfterIteration(b))
    /\ UNCHANGED <<storeVars, run, activeRef, spawned>>

\* Mutant of EffComplete: the batch is marked and the run forgotten.
MutEffCompleteSilently(b) ==
    /\ eff[b] = "complete"
    /\ GoEff(b, "mark")
    /\ UNCHANGED <<storeVars, run, iteration, number, activeRef, spawned>>

EffComplete(b) ==
    /\ eff[b] = "complete"
    /\ SetRun("completed", "none")
    /\ GoEff(b, "mark")
    /\ UNCHANGED <<storeVars, iteration, number, activeRef, spawned>>

\* Mutant of EffRefine: a refinement requested before a restart is taken for
\* done.
MutEffRefineOnce(b) ==
    /\ eff[b] = "refine"
    /\ GoEff(b, IF ~batch[b].requested THEN "prepare"
                ELSE IF turn # None THEN "bind" ELSE "mark")
    /\ UNCHANGED <<storeVars, run, iteration, number, activeRef, spawned>>

EffRefine(b) ==
    /\ eff[b] = "refine"
    /\ GoEff(b, IF ~batch[b].requested THEN "prepare"
                ELSE IF turn # None THEN "bind" ELSE "enqueue")
    /\ UNCHANGED <<storeVars, run, iteration, number, activeRef, spawned>>

\* The gateway may have bound the turn meanwhile: the compare-and-set fails.
EffBind(b) ==
    /\ eff[b] = "bind"
    /\ IF turn # None /\ ~batch[b].applied
       THEN BindRefinement(b, batch[b].effects)
       ELSE UNCHANGED storeVars
    /\ GoEff(b, "idle")
    /\ UNCHANGED <<run, iteration, number, activeRef, spawned>>

\* Mutant of EffPrepare: the binding to the old turn is kept.
MutEffPrepareKeepingTurn(b) ==
    /\ eff[b] = "prepare"
    /\ GoEff(b, IF run.status \in {"failed", "cancelled"} THEN "idle" ELSE "request")
    /\ SetRun("running", "refining")
    /\ UNCHANGED <<storeVars, iteration, number, activeRef, spawned>>

\* Mutant of EffPrepare: the status of the run is not looked at.
MutEffPrepareAnyStatus(b) ==
    /\ eff[b] = "prepare"
    /\ GoEff(b, "request")
    /\ run' = [status |-> "running", step |-> "refining", reconciling |-> FALSE]
    /\ SetTurn(None)
    /\ UNCHANGED <<iteration, number, activeRef, spawned>>

\* The run is made ready for another turn: the binding to the turn that
\* produced the rejected model is cleared.  Refused on a failed or cancelled
\* run, and then the executor leaves with its claim still on the batch.
EffPrepare(b) ==
    /\ eff[b] = "prepare"
    /\ IF run.status \in {"failed", "cancelled"}
       THEN GoEff(b, "idle") /\ UNCHANGED <<storeVars, run>>
       ELSE /\ GoEff(b, "request")
            /\ run' = IF run.status = "running" /\ turn = None /\ run.step = "refining"
                      THEN run
                      ELSE [status |-> "running", step |-> "refining", reconciling |-> FALSE]
            /\ SetTurn(None)
    /\ UNCHANGED <<iteration, number, activeRef, spawned>>

EffRequest(b) ==
    /\ eff[b] = "request"
    /\ RequestRefinement(b, batch[b].effects)
    /\ GoEff(b, "enqueue")
    /\ UNCHANGED <<run, iteration, number, activeRef, spawned>>

\* enqueue_pending_refinement: the claim stays until the new turn is bound.
EffEnqueue(b) ==
    /\ eff[b] = "enqueue"
    /\ activeRef' = activeRef \cup {b}
    /\ spawned' = IF b \in activeRef THEN spawned ELSE spawned + 1
    /\ GoEff(b, "idle")
    /\ UNCHANGED <<storeVars, run, iteration, number>>

EffMark(b) ==
    /\ eff[b] = "mark"
    /\ IF batch[b].applied THEN UNCHANGED storeVars ELSE MarkApplied(b, batch[b].effects)
    /\ GoEff(b, "idle")
    /\ UNCHANGED <<run, iteration, number, activeRef, spawned>>

EffStep(b) ==
    /\ \/ EffClaim(b)   \/ EffLatest(b)   \/ EffStatus(b)  \/ EffFail(b)
       \/ EffIterate(b) \/ EffSave(b)     \/ EffComplete(b)
       \/ EffRefine(b)  \/ EffBind(b)     \/ EffPrepare(b)
       \/ EffRequest(b) \/ EffEnqueue(b)  \/ EffMark(b)
    /\ UNCHANGED <<taskVars, cacheVars>>

-----------------------------------------------------------------------------
(* Calls into the coordinator. *)

Unapplied(b) == Settled(b) /\ ~batch[b].applied

\* enqueue_run, when a modelling turn has ended: over the cached batches, and
\* not at all (an error) while the cache shows no output revision.
EnqueueRun ==
    IF cachedRev = None
    THEN UNCHANGED <<task, exec, eff>>
    ELSE /\ StartTasks({b \in known : Unsettled(b)})
         /\ StartEffects({b \in known : Unapplied(b)})

\* The batches whose refinement waits for a durable turn.
Awaiting(b) == batch[b].requested /\ ~batch[b].bound /\ ~batch[b].applied

\* Mutant of ConfirmBound: the outcomes of the freshness check are swapped.
MutConfirmBoundSwapped(b, c) ==
    \/ /\ c = None
       /\ StartEffects({b})
       /\ UNCHANGED <<storeVars, activeRef>>
    \/ /\ c # None
       /\ ~IsLatest(b)
       /\ BindRefinement(b, c) \/ (batch[b].bound /\ UNCHANGED storeVars)
       /\ activeRef' = activeRef \ {b}
       /\ UNCHANGED eff
    \/ /\ c # None
       /\ IsLatest(b)
       /\ MarkApplied(b, c)
       /\ UNCHANGED <<eff, activeRef>>

\* confirm_refinement_bound, for one batch that was listed as awaiting while
\* its effects were claimed by c.
ConfirmBound(b, c) ==
    \/ /\ c = None
       /\ StartEffects({b})
       /\ UNCHANGED <<storeVars, activeRef>>
    \/ /\ c # None
       /\ IsLatest(b)
       /\ BindRefinement(b, c) \/ (batch[b].bound /\ UNCHANGED storeVars)
       /\ activeRef' = activeRef \ {b}
       /\ UNCHANGED eff
    \/ /\ c # None
       /\ ~IsLatest(b)
       /\ MarkApplied(b, c)
       /\ UNCHANGED <<eff, activeRef>>

\* The compare-and-set fails: somebody else has concluded the batch meanwhile.
ConfirmRefused(b, c) ==
    /\ c # None
    /\ IF IsLatest(b) THEN ~batch[b].bound /\ (turn = None \/ ~OwnsEffects(b, c))
                      ELSE ~OwnsEffects(b, c)

\* The load of a new process.
LoadCache ==
    /\ known' = {b \in Batches : Exists(b)}
    /\ cachedRev' = outRev

\* refresh_session_from_repository as it takes effect: it installs what it
\* loaded before it took the service lock, which may be out of date by now.
InstallCache ==
    /\ known' \in SUBSET {b \in Batches : Exists(b)}
    /\ cachedRev' \in Revs \cup {None}
    /\ run' \in RunRecord

\* Startup recovery of the batches, after normalization: running structural
\* and DFM checks are queued again and every claim has been released.
Normalized ==
    \A b \in Batches :
        /\ batch[b].claim = None
        /\ batch[b].effects = None
        /\ \A k \in Kinds \ {Vlm} : check[b][k].status # "running"

Normalize(b) ==
    \/ \E k \in Kinds \ {Vlm} : ResetCheck(b, k)
    \/ ReleaseSettlement(b, batch[b].claim)
    \/ ReleaseEffects(b)

\* Mutant of RecoverBatches: settled batches are taken for finished ones.
MutRecoverUnsettledOnly ==
    /\ task' = [b \in Batches |->
                  IF ~Unsettled(b) THEN "idle" ELSE IF AllTerminal(b) THEN "claim" ELSE "checks"]
    /\ exec' = [b \in Batches |-> [k \in Kinds |->
                  IF Unsettled(b) /\ ~AllTerminal(b) THEN ExecEntry(b, k) ELSE "idle"]]
    /\ UNCHANGED eff

RecoverBatches ==
    /\ task' = [b \in Batches |->
                  IF ~Unsettled(b) THEN "idle" ELSE IF AllTerminal(b) THEN "claim" ELSE "checks"]
    /\ exec' = [b \in Batches |-> [k \in Kinds |->
                  IF Unsettled(b) /\ ~AllTerminal(b) THEN ExecEntry(b, k) ELSE "idle"]]
    /\ StartEffects({b \in Batches : Unapplied(b)})

\* The process dies: what it held in memory is gone, the rows stay.
DropVolatile ==
    /\ task' = [b \in Batches |-> "idle"]
    /\ exec' = [b \in Batches |-> [k \in Kinds |-> "idle"]]
    /\ eff' = [b \in Batches |-> "idle"]
    /\ number' = [b \in Batches |-> 0]
    /\ lease' = None
    /\ activeRef' = {}
    /\ spawned' = 0

-----------------------------------------------------------------------------
(* The coordinator in an unconstrained environment. *)

CoordStep ==
    /\ phase = "up"
    /\ \E b \in Batches : CheckExec(b) \/ TaskStep(b) \/ EffStep(b)
    /\ UNCHANGED phase

\* The gateway calls.
CallEnqueueRun ==
    /\ phase = "up"
    /\ EnqueueRun
    /\ UNCHANGED <<storeVars, run, phase, cacheVars, iteration, number, lease, activeRef, spawned>>

CallConfirmBound(b) ==
    /\ phase = "up"
    /\ batch[b].requested
    /\ \E c \in Tokens \cup {None} : ConfirmBound(b, c)
    /\ UNCHANGED <<run, phase, cacheVars, iteration, task, exec, number, lease, spawned>>

\* The agent's processes, the gateway and the user change the run at any time,
\* and the cache follows when the gateway has refreshed it.
RunChanges ==
    /\ \/ (\E t \in Turns \cup {None} : SetTurn(t)) /\ run' \in RunRecord
            /\ UNCHANGED <<cacheVars, spawned>>
       \/ (\E r \in Revs : LinkOutputRevision(r)) /\ UNCHANGED <<run, cacheVars, spawned>>
       \/ (\E b \in Batches : CreateBatch(b)) /\ UNCHANGED <<run, cacheVars, spawned>>
       \/ InstallCache /\ UNCHANGED <<storeVars, spawned>>
       \/ spawned > 0 /\ spawned' = spawned - 1 /\ UNCHANGED <<storeVars, run, cacheVars>>
    /\ UNCHANGED <<phase, coordVars>>

CoordCrash ==
    /\ phase \in {"boot", "up"}
    /\ phase' = "down"
    /\ DropVolatile
    /\ UNCHANGED <<storeVars, run, cacheVars, iteration>>

CoordBoot ==
    /\ phase = "down"
    /\ phase' = "boot"
    /\ LoadCache
    /\ run' \in RunRecord
    /\ UNCHANGED <<storeVars, coordVars, spawned>>

\* Mutant of CoordNormalize: a second process (or a late call) normalizes the
\* rows while the executors of this one are at work.
MutCoordNormalizeAnytime(b) ==
    /\ phase \in {"boot", "up"}
    /\ Normalize(b)
    /\ UNCHANGED <<run, phase, cacheVars, coordVars, spawned>>

CoordNormalize(b) ==
    /\ phase = "boot"
    /\ Normalize(b)
    /\ UNCHANGED <<run, phase, cacheVars, coordVars, spawned>>

CoordRecover ==
    /\ phase = "boot"
    /\ Normalized
    /\ phase' = "up"
    /\ RecoverBatches
    /\ run' \in RunRecord
    /\ UNCHANGED <<storeVars, cacheVars, iteration, number, lease, activeRef, spawned>>

CoordNext ==
    \/ CoordStep
    \/ CallEnqueueRun
    \/ \E b \in Batches : CallConfirmBound(b) \/ CoordNormalize(b)
    \/ RunChanges
    \/ CoordCrash
    \/ CoordBoot
    \/ CoordRecover

allCoordVars == <<storeVars, run, phase, cacheVars, coordVars, spawned>>

CoordSpec == CoordInit /\ [][CoordNext]_allCoordVars

-----------------------------------------------------------------------------
(* Properties. *)

\* A settled verdict is the one its checks give: failed exactly when a check
\* failed operationally, passed exactly when every check passed; whichever
\* task, crash or recovery settled it.
VerdictMatchesChecks ==
    \A b \in Batches : Settled(b) =>
        /\ batch[b].status = "failed" <=> SomeFailed(b)
        /\ batch[b].passed <=> AllPassed(b)

\* An executor beyond its claim still owns the batch, or the batch has been
\* concluded: nobody acts twice, and nobody acts on a batch someone else holds.
ExecutorOwns ==
    \A b \in Batches : eff[b] \notin {"idle", "claim"} =>
        batch[b].effects # None \/ batch[b].applied

\* The coordinator touches validation through the store's operations only.
ImplementsStore == StoreSpec

=============================================================================
