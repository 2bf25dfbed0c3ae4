--------------------------- MODULE AgentRunsProofs ---------------------------
(***************************************************************************)
(* Proofs about one agent run: the gateway, the agent, the user and the    *)
(* startup only do to validation what ValidationCoordinator's environment  *)
(* may do; the inductive invariant of the composition; from it the safety  *)
(* and action properties of AgentRuns.                                     *)
(*                                                                         *)
(* The argument: a modelling turn of the run is due, runs or is being      *)
(* concluded (Working), or a verdict on its newest model is acted upon,    *)
(* never both.  What the gateway and the agent do while they work is done  *)
(* to batches no executor believes to be the newest; and the executor that *)
(* acts on the newest batch is alone, since that batch is unique.          *)
(***************************************************************************)
EXTENDS AgentRuns, ValidationProofs

-----------------------------------------------------------------------------
(* The inductive invariant. *)

\* An executor or a task of the batch is in memory.
LiveExec(b) == task[b] # "idle" \/ eff[b] # "idle"

\* A modelling turn of the run is due, is prepared, runs, or is being concluded.
InFlight == starts \/ spawned > 0 \/ gw # "idle"
Working  == InFlight \/ \E t \in Turns : ext[t] = "running"

\* What an executor has found its batch to be.
Acting == {"status", "fail", "iterate", "save", "complete", "refine", "prepare", "request",
           "enqueue", "bind"}

\* A refinement that was asked for and not yet answered.
Open(b) == batch[b].requested /\ ~batch[b].applied

\* What is known was made: identifiers are fresh when they are given out.
NamesAreMade ==
    /\ outRev # None => outRev \in made
    /\ turn # None => ext[turn] # "none"
    /\ gwTurn # None => ext[gwTurn] # "none"
    /\ \A w \in Tasks : recTurn[w] # None => ext[recTurn[w]] # "none"
    /\ \A w \in Tasks : rec[w] = "apply" => recTurn[w] # None
    /\ \A b \in Batches : Exists(b) =>
          batch[b].rev \in made /\ madeBy[b] \in Turns /\ ext[madeBy[b]] # "none"

\* So do those that a refresh has loaded, until it installs them.
SnapIsSound ==
    /\ \A b \in snap.known : b \in Batches /\ Exists(b) /\ (batch[b].rev = outRev => snap.rev = outRev)
    /\ \A b \in Batches : LiveExec(b) \/ batch[b].requested => b \in snap.known

\* The cache of batches and the cached revision belong together.
CacheIsSound ==
    /\ \A b \in known : Exists(b) /\ (batch[b].rev = outRev => cachedRev = outRev)
    /\ phase = "boot" => cachedRev = outRev /\ \A b \in Batches : Exists(b) => b \in known
    /\ \A b \in Batches : LiveExec(b) \/ batch[b].requested => b \in known
    /\ gw = "install" => SnapIsSound

\* Before the run has left the queue, and until the first task runs, there is nothing.
QueuedIsNew ==
    /\ run.status = "queued" \/ row.status = "queued" \/ starts => \A t \in Turns : ext[t] = "none"
    /\ run.status = "queued" \/ row.status = "queued" => gw \in {"idle", "check", "run"}
    /\ gw = "install" => snap.run.status # "queued"

\* One execution of the run at a time, and the next one only after it.
OneExecution ==
    /\ spawned <= 1
    /\ starts => spawned = 0 /\ gw = "idle"
    /\ gw # "idle" => spawned = 0
    /\ active => starts \/ gw # "idle"
    /\ gw = "enqueue" => ~active
    /\ todo # {} => gw = "confirm"
    /\ gw \in {"idle", "check", "run", "begin", "launch", "enqueue"} => gwTurn = None
    /\ gw \in {"bind", "meta", "confirm", "turn", "install", "lost"} => gwTurn # None
    /\ gw \in {"launch", "bind"} => turn = None
    /\ gw \in {"meta", "confirm", "turn", "install", "lost"} => turn = gwTurn

\* A process that is not up has nothing in memory, and no turn runs without it.
DownIsQuiet ==
    phase # "up" =>
        /\ gw = "idle" /\ ~starts /\ spawned = 0
        /\ \A t \in Turns : ext[t] # "running"
        /\ \A b \in Batches : task[b] = "idle"

\* A running turn is the gateway's, or the run has ended without it.
RunningTurn ==
    \A t \in Turns : ext[t] = "running" =>
        \/ gw \in {"bind", "meta", "confirm", "turn", "install"} /\ t = gwTurn
        \/ gw \in {"err", "idle"} /\ RunTerminal /\ ~starts /\ spawned = 0

\* While the run works on a model, executors are left only of outdated ones.
OutdatedWhileWorking ==
    \A b \in Batches : Working /\ LiveExec(b) => ~LatestBatch(b)

ExecutorsOnLatest ==
    \A b \in Batches :
        /\ task[b] # "idle" => Unsettled(b)
        /\ eff[b] \in Acting => IsLatest(b) /\ batch[b].effects # None
        /\ eff[b] = "latest" /\ LatestBatch(b) => batch[b].effects # None

ExecutorsFollowVerdict ==
    \A b \in Batches :
        /\ eff[b] = "fail" => batch[b].status = "failed"
        /\ eff[b] = "complete" => batch[b].passed /\ Settled(b)
        /\ eff[b] \in {"enqueue", "bind"} => batch[b].requested
        /\ eff[b] = "mark" /\ Rejected(b) /\ LatestBatch(b) /\ ~batch[b].applied => RunTerminal

NumberIsNext ==
    \A b, o \in Batches : eff[b] = "save" => iteration[o] < number[b]

\* An open refinement is that of the newest model, and somebody answers for it.
OpenIsLatest ==
    \A b \in Batches : Open(b) => LatestBatch(b) /\ (batch[b].effects # None \/ ~Working)

TodoIsOpen ==
    /\ \A p \in todo : p[2] # None /\ batch[p[1]].effects = p[2] /\ batch[p[1]].requested
    /\ gw = "confirm" => \A b \in Batches : Open(b) => <<b, batch[b].effects>> \in todo

\* The turn that made a batch is over before its verdict is acted upon.
MakerIsPast ==
    \A b \in Batches :
        /\ LiveExec(b) \/ batch[b].requested => gwTurn # madeBy[b]
        /\ batch[b].requested \/ eff[b] = "request" => turn # madeBy[b]

\* The newest model of a run that works was made by this turn or refined by it.
LatestIsAnswered ==
    /\ InFlight => \A b \in Batches : Exists(b) /\ LatestBatch(b) =>
          Unsettled(b) \/ batch[b].bound \/ Open(b)
    /\ active /\ gw \in {"turn", "install", "lost", "ok", "finish"} => \A b \in Batches : ~Open(b)
    /\ active /\ gw = "ok" /\ ~RunTerminal => \A b \in Batches : Exists(b) => b \in known
    /\ active /\ gw = "finish" /\ ~RunTerminal => \A b \in Batches : ~Unsettled(b)
    /\ gw = "complete" => \A b \in Batches : ~Unsettled(b) /\ ~Open(b)

RunsInv ==
    /\ CoordInv
    /\ AgentTypeOK
    /\ NamesAreMade
    /\ CacheIsSound
    /\ QueuedIsNew
    /\ OneExecution
    /\ DownIsQuiet
    /\ RunningTurn
    /\ OutdatedWhileWorking
    /\ ExecutorsOnLatest
    /\ ExecutorsFollowVerdict
    /\ NumberIsNext
    /\ OpenIsLatest
    /\ TodoIsOpen
    /\ MakerIsPast
    /\ LatestIsAnswered

\* Nothing has been made when the program starts.
LEMMA RunsInitInv == ASSUME AgentInit PROVE RunsInv
<1>0. CoordInit /\ CoordInv
  BY CoordInitInv DEF AgentInit
<1>1. AgentTypeOK
  BY <1>0, BudgetAssumption DEF AgentInit, AgentTypeOK, CoordInv, CoordTypeOK, GwPC, RecPC, ExtStatus, Tasks,
     Snapshot, NoSnap, QueuedRun, RunRecord, RunStatus, ActiveStep
<1>2. /\ \A b \in Batches : ~Exists(b) /\ ~LiveExec(b) /\ batch[b] = Pristine /\ eff[b] = "idle"
      /\ \A b \in Batches : task[b] = "idle"
      /\ spawned = 0 /\ run.status = "queued" /\ outRev = None /\ turn = None /\ known = {}
      /\ phase = "up"
  BY <1>0 DEF CoordInit, StoreInit, IdleVolatile, Exists, LiveExec, Pristine
<1>3. NamesAreMade /\ CacheIsSound /\ QueuedIsNew
  BY <1>2 DEF AgentInit, NamesAreMade, CacheIsSound, QueuedIsNew, Pristine, Tasks
<1>4. OneExecution /\ DownIsQuiet /\ RunningTurn
  BY <1>2 DEF AgentInit, OneExecution, DownIsQuiet, RunningTurn
<1>5. /\ OutdatedWhileWorking /\ ExecutorsOnLatest /\ ExecutorsFollowVerdict
      /\ NumberIsNext
  BY <1>2 DEF OutdatedWhileWorking, ExecutorsOnLatest, ExecutorsFollowVerdict, NumberIsNext, Acting
<1>6. OpenIsLatest /\ TodoIsOpen /\ MakerIsPast /\ LatestIsAnswered
  BY <1>2 DEF AgentInit, OpenIsLatest, TodoIsOpen, MakerIsPast, LatestIsAnswered, Open, Pristine
<1> QED
  BY <1>0, <1>1, <1>3, <1>4, <1>5, <1>6 DEF RunsInv

-----------------------------------------------------------------------------
(* Every step is one the coordinator expects of its environment. *)

\* Every way the run's record is written keeps it a record of a run.
LEMMA RunWritten ==
    ASSUME run \in RunRecord
    PROVE  /\ \A s \in RunStatus, l \in ActiveStep : SetRun(s, l) => run' \in RunRecord
           /\ MarkReconciling => run' \in RunRecord
           /\ MarkUnknown => run' \in RunRecord
           /\ \A o \in {"completed", "failed", "interrupted"} : ApplyHistory(o) => run' \in RunRecord
<1>1. \A o \in {"completed", "failed", "interrupted"} :
         [status |-> StatusOf(o), step |-> "none", reconciling |-> FALSE] \in RunRecord
  BY DEF StatusOf, RunRecord, RunStatus, ActiveStep
<1>2. [status |-> "failed", step |-> "none", reconciling |-> FALSE] \in RunRecord
  BY DEF RunRecord, RunStatus, ActiveStep
<1> QED
  BY <1>1, <1>2 DEF SetRun, MarkReconciling, MarkUnknown, ApplyHistory, RunRecord

\* A step that writes the run's record and nothing else of the coordinator's.
LEMMA RunOnly ==
    ASSUME StoreTypeOK, run' \in RunRecord,
           UNCHANGED <<storeVars, phase, cacheVars, coordVars, spawned>>
    PROVE  RunChanges
<1>1. SetTurn(turn) /\ turn \in Turns \cup {None}
  BY DEF SetTurn, storeVars, StoreTypeOK
<1> QED
  BY <1>1 DEF RunChanges

\* What a turn in its history can be: not unknown to Codex.
LEMMA HistoryStatus ==
    ASSUME ext \in [Turns -> ExtStatus], NEW t \in Turns, ext[t] # "none",
           ext[t] \notin {"hung", "running"}
    PROVE  ext[t] \in {"completed", "failed", "interrupted"}
BY DEF ExtStatus

\* The gateway: it writes the run, binds a turn, refreshes the cache, or calls
\* the coordinator.
LEMMA GwIsCoordStep ==
    ASSUME RunsInv, GwStep
    PROVE  [CoordNext]_allCoordVars
<1>0. /\ StoreTypeOK /\ run \in RunRecord /\ AgentTypeOK /\ NamesAreMade /\ TodoIsOpen
      /\ phase = "up"
  BY DEF RunsInv, CoordInv, StoreInv, CoordTypeOK, GwStep
<1>1. CASE \/ GwStart \/ GwCheck \/ GwBegin \/ GwLaunch \/ GwLaunchFails
           \/ GwNothingToConfirm \/ GwTurnEnds \/ GwTimeout \/ GwOk \/ GwFinish \/ GwErr \/ GwCleanup
           \/ \E p \in todo : GwConfirmRefused(p[1], p[2])
  BY <1>1 DEF GwStart, GwCheck, GwBegin, GwLaunch, GwLaunchFails, GwNothingToConfirm, GwTurnEnds, GwTimeout, GwOk,
     GwFinish, GwErr, GwCleanup, GwConfirmRefused, CoordAlone, allCoordVars
<1>2. CASE GwRun \/ GwQueue \/ GwComplete \/ GwFailRun \/ GwProgress \/ GwLoad
  <2>1. SavesProgress => run' \in RunRecord
    BY <1>0 DEF SavesProgress, RunRecord, ActiveStep
  <2>2. run' \in RunRecord
    BY <1>0, <1>2, <2>1, RunWritten DEF GwRun, GwQueue, GwComplete, GwFailRun, GwProgress, GwLoad,
       RunStatus, ActiveStep
  <2> QED
    BY <1>0, <1>2, <2>2, RunOnly DEF GwRun, GwQueue, GwComplete, GwFailRun, GwProgress, GwLoad,
       CoordAlone, CoordNext
<1>3. CASE GwHistory \/ GwConnectionLost
  <2>1. GwHistory /\ turn # None /\ ext[turn] \notin {"hung", "running"}
           => ext[turn] \in {"completed", "failed", "interrupted"}
    BY <1>0, HistoryStatus DEF NamesAreMade, StoreTypeOK, AgentTypeOK
  <2>2. run' \in RunRecord
    BY <1>0, <1>3, <2>1, RunWritten DEF GwHistory, GwConnectionLost
  <2> QED
    BY <1>0, <1>3, <2>2, RunOnly DEF GwHistory, GwConnectionLost, CoordAlone, CoordNext
<1>4. CASE GwBind \/ GwMeta
  <2>1. run' \in RunRecord
    BY <1>0, <1>4 DEF GwBind, GwMeta, RunRecord
  <2>2. SetTurn(gwTurn) \/ UNCHANGED <<storeVars, run>>
    BY <1>4 DEF GwBind, GwMeta
  <2>3. UNCHANGED <<phase, coordVars, cacheVars, spawned>>
    BY <1>4 DEF GwBind, GwMeta
  <2>4. SetTurn(gwTurn) => \E t \in Turns \cup {None} : SetTurn(t)
    BY <1>0 DEF AgentTypeOK
  <2> QED
    BY <2>1, <2>2, <2>3, <2>4 DEF RunChanges, CoordNext, allCoordVars
<1>5. CASE GwRefine
  BY <1>5 DEF GwRefine, CoordAlone, RunChanges, CoordNext
<1>6. CASE \E p \in todo : GwConfirm(p[1], p[2])
  <2>1. PICK p \in todo : GwConfirm(p[1], p[2])
    BY <1>6
  <2>2. p[1] \in Batches /\ p[2] \in Tokens \cup {None} /\ batch[p[1]].requested
    BY <1>0, <2>1 DEF AgentTypeOK, TodoIsOpen
  <2>3. CallConfirmBound(p[1])
    BY <1>0, <2>1, <2>2 DEF GwConfirm, CallConfirmBound
  <2> QED
    BY <2>2, <2>3 DEF CoordNext
<1>7. CASE GwEnqueue
  BY <1>0, <1>7 DEF GwEnqueue, CallEnqueueRun, CoordNext
<1>8. CASE GwInstall
  <2>1. snap \in Snapshot /\ \A b \in snap.known : b \in Batches /\ Exists(b)
    BY <1>0, <1>8 DEF AgentTypeOK, GwInstall, RunsInv, CacheIsSound, SnapIsSound
  <2>2. InstallCache
    BY <1>8, <2>1 DEF GwInstall, InstallCache, Snapshot
  <2> QED
    BY <1>8, <2>2 DEF GwInstall, CoordAlone, RunChanges, CoordNext
<1> QED
  BY <1>1, <1>2, <1>3, <1>4, <1>5, <1>6, <1>7, <1>8 DEF GwStep, GwAct

\* The agent's processes: they give the run a model or a batch.
LEMMA AgentIsCoordStep ==
    ASSUME run \in RunRecord, AgentStep
    PROVE  [CoordNext]_allCoordVars
<1>1. PICK t \in Turns : AgentApply(t) \/ AgentFinalize(t) \/ AgentEnds(t)
  BY DEF AgentStep
<1>2. CASE AgentApply(t)
  <2>1. \E r \in Revs : LinkOutputRevision(r)
    BY <1>2 DEF AgentApply
  <2> QED
    BY <1>2, <2>1 DEF AgentApply, ExternalAlone, RunChanges, CoordNext
<1>3. CASE AgentFinalize(t)
  BY <1>3 DEF AgentFinalize, ExternalAlone, RunChanges, CoordNext
<1>4. CASE AgentEnds(t)
  BY <1>4 DEF AgentEnds, ExternalAlone, allCoordVars
<1> QED
  BY <1>1, <1>2, <1>3, <1>4

\* The tasks that cancel or recover: they write the run's record only.
LEMMA RecIsCoordStep ==
    ASSUME RunsInv, RecStep
    PROVE  [CoordNext]_allCoordVars
<1>0. /\ StoreTypeOK /\ run \in RunRecord /\ AgentTypeOK /\ NamesAreMade
  BY DEF RunsInv, CoordInv, StoreInv, CoordTypeOK
<1>1. UNCHANGED <<storeVars, phase, cacheVars, coordVars, spawned>>
  BY DEF RecStep, CancelRequest, CancelDrop, CancelWrite, CancelMark, CancelInterrupt, CancelClean,
     RecRead, RecApply, RecUnknown, RecAlone
<1>2. CASE CancelRequest \/ CancelDrop \/ CancelInterrupt \/ CancelClean \/ \E w \in Tasks : RecRead(w)
  BY <1>1, <1>2 DEF CancelRequest, CancelDrop, CancelInterrupt, CancelClean, RecRead, allCoordVars
<1>3. CASE CancelWrite \/ CancelMark \/ \E w \in Tasks : RecApply(w) \/ RecUnknown(w)
  <2>1. ASSUME NEW w \in Tasks, rec[w] = "apply", ext[recTurn[w]] \notin {"hung", "running"}
        PROVE  ext[recTurn[w]] \in {"completed", "failed", "interrupted"}
    <3>1. recTurn[w] \in Turns /\ ext[recTurn[w]] # "none"
      BY <1>0, <2>1 DEF NamesAreMade, AgentTypeOK
    <3> QED
      BY <1>0, <2>1, <3>1, HistoryStatus DEF AgentTypeOK
  <2>2. run' \in RunRecord
    BY <1>0, <1>3, <2>1, RunWritten DEF CancelWrite, CancelMark, RecApply, RecUnknown, RunStatus, ActiveStep
  <2> QED
    BY <1>0, <1>1, <2>2, RunOnly DEF CoordNext
<1> QED
  BY <1>2, <1>3 DEF RecStep

\* The gateway, the agent, the user, a crash and a restart are steps the
\* coordinator allows its environment.
LEMMA RunsIsCoordStep ==
    ASSUME RunsInv, [AgentNext]_runsVars
    PROVE  [CoordNext]_allCoordVars
<1>0. run \in RunRecord
  BY DEF RunsInv, CoordInv, CoordTypeOK
<1>1. CASE CoordStep \/ Crash \/ Boot \/ BootRecover \/ \E b \in Batches : BootNormalize(b)
  BY <1>1 DEF CoordNext, Crash, Boot, BootNormalize, BootRecover
<1>2. CASE UNCHANGED runsVars
  BY <1>2 DEF runsVars
<1> QED
  BY <1>0, <1>1, <1>2, GwIsCoordStep, AgentIsCoordStep, RecIsCoordStep DEF AgentNext, AgentCoordStep

\* What holds of the coordinator in any environment holds in the program.
LEMMA CoordPart ==
    ASSUME RunsInv, [AgentNext]_runsVars
    PROVE  CoordInv' /\ [StoreNext]_storeVars
<1>1. [CoordNext]_allCoordVars
  BY RunsIsCoordStep
<1> QED
  BY <1>1, CoordInvStep, CoordIsStoreStep DEF RunsInv, CoordInv, StoreInv

-----------------------------------------------------------------------------
(* Types. *)

\* A crash or the end of a turn ends turns and nothing else of them.
LEMMA ExtWritten ==
    ASSUME ext \in [Turns -> ExtStatus]
    PROVE  /\ \A t \in Turns, s \in ExtStatus : [ext EXCEPT ![t] = s] \in [Turns -> ExtStatus]
           /\ \A s \in Ended : s \in ExtStatus /\ s # "none" /\ s # "running"
           /\ \A s \in Ended :
                 [t \in Turns |-> IF ext[t] = "running" THEN s ELSE ext[t]] \in [Turns -> ExtStatus]
           /\ \A t \in Turns :
                 [ext EXCEPT ![t] = IF @ = "running" THEN "interrupted" ELSE @] \in [Turns -> ExtStatus]
BY DEF ExtStatus, Ended

\* The row is left alone or becomes what is cached; a refresh loads or is over.
LEMMA RowFollows ==
    ASSUME [AgentNext]_runsVars
    PROVE  /\ row' = row \/ row' = run'
           /\ snap' = snap \/ snap' = NoSnap \/ GwLoad
BY DEF AgentNext, AgentCoordStep, SavesRun, GwStep, GwAct, GwProgress, SavesProgress, GwLoad, GwInstall,
   AgentStep, AgentApply, AgentFinalize, AgentEnds, ExternalAlone, RecStep, Crash, Boot, BootNormalize,
   BootRecover, rowVars, runsVars

\* Both keep their types.
LEMMA RowTyped ==
    ASSUME AgentTypeOK, CoordTypeOK', [AgentNext]_runsVars
    PROVE  row' \in RunRecord /\ snap' \in Snapshot
<1>1. row' \in RunRecord
  BY RowFollows DEF AgentTypeOK, CoordTypeOK
<1>2. NoSnap \in Snapshot
  BY DEF NoSnap, QueuedRun, Snapshot, RunRecord, RunStatus, ActiveStep
<1>3. GwLoad => snap' \in Snapshot
  BY DEF GwLoad, Snapshot, AgentTypeOK, CoordTypeOK, StoreTypeOK
<1> QED
  BY <1>1, <1>2, <1>3, RowFollows DEF AgentTypeOK

\* The gateway keeps the types.
LEMMA GwTyped ==
    ASSUME AgentTypeOK, CoordTypeOK', GwStep
    PROVE  AgentTypeOK'
<1>0. UNCHANGED <<rec, recTurn, crashes, cancels>>
  BY DEF GwStep, recVars, budget
<1>1. active' \in BOOLEAN /\ starts' \in BOOLEAN
  BY DEF GwStep, GwAct, GwStart, GwCheck, GwBegin, GwLaunch, GwLaunchFails, GwNothingToConfirm, GwTimeout, GwOk,
     GwFinish, GwErr, GwCleanup, GwConfirmRefused, GwRun, GwQueue, GwComplete, GwFailRun, GwHistory,
     GwConnectionLost, GwBind, GwMeta, GwProgress, SavesProgress, GwLoad, GwInstall, GwTurnEnds, GwRefine, GwConfirm, GwEnqueue,
     gwVars, AgentTypeOK
<1>2. gw' \in GwPC
  BY DEF GwStep, GwAct, GwStart, GwCheck, GwBegin, GwLaunch, GwLaunchFails, GwNothingToConfirm, GwTimeout, GwOk,
     GwFinish, GwErr, GwCleanup, GwConfirmRefused, GwRun, GwQueue, GwComplete, GwFailRun, GwHistory,
     GwConnectionLost, GwBind, GwMeta, GwProgress, SavesProgress, GwLoad, GwInstall, GwTurnEnds, GwRefine, GwConfirm, GwEnqueue,
     gwVars, AgentTypeOK, GoGw, GwPC
<1>3. gwTurn' \in Turns \cup {None}
  BY DEF GwStep, GwAct, GwStart, GwCheck, GwBegin, GwLaunch, GwLaunchFails, GwNothingToConfirm, GwTimeout, GwOk,
     GwFinish, GwErr, GwCleanup, GwConfirmRefused, GwRun, GwQueue, GwComplete, GwFailRun, GwHistory,
     GwConnectionLost, GwBind, GwMeta, GwProgress, SavesProgress, GwLoad, GwInstall, GwTurnEnds, GwRefine, GwConfirm, GwEnqueue,
     gwVars, AgentTypeOK
<1>4. todo' \in SUBSET (Batches \X (Tokens \cup {None}))
  <2>1. CASE GwMeta
    BY <2>1 DEF GwMeta, AgentTypeOK, CoordTypeOK, StoreTypeOK, BatchRecord
  <2>2. CASE ~GwMeta
    <3>1. todo' \subseteq todo
      BY <2>2 DEF GwStep, GwAct, GwStart, GwCheck, GwBegin, GwLaunch, GwLaunchFails, GwNothingToConfirm, GwTimeout, GwOk,
     GwFinish, GwErr, GwCleanup, GwConfirmRefused, GwRun, GwQueue, GwComplete, GwFailRun, GwHistory,
     GwConnectionLost, GwBind, GwProgress, SavesProgress, GwLoad, GwInstall, GwTurnEnds, GwRefine, GwConfirm, GwEnqueue, gwVars
    <3> QED
      BY <3>1 DEF AgentTypeOK
  <2> QED
    BY <2>1, <2>2
<1>5. ext' \in [Turns -> ExtStatus] /\ UNCHANGED <<made, madeBy>>
  <2>1. CASE GwLaunch \/ GwTimeout \/ GwConnectionLost
    <3>1. UNCHANGED <<made, madeBy>>
      BY <2>1 DEF GwLaunch, GwTimeout, GwConnectionLost
    <3>2. CASE ext' = ext
      BY <3>1, <3>2 DEF AgentTypeOK
    <3>3. CASE ext' # ext
      <4>1. gwTurn' \in Turns \cup {None} /\ ext \in [Turns -> ExtStatus]
        BY <1>3 DEF AgentTypeOK
      <4>2. \E t, s : s \in ExtStatus /\ ext' = [ext EXCEPT ![t] = s]
        BY <2>1, <3>3 DEF GwLaunch, GwTimeout, GwConnectionLost, ExtStatus, Ended
      <4> QED
        BY <3>1, <4>1, <4>2
    <3> QED
      BY <3>2, <3>3
  <2>2. CASE ~(GwLaunch \/ GwTimeout \/ GwConnectionLost)
    BY <2>2 DEF GwStep, GwAct, GwStart, GwCheck, GwBegin, GwLaunchFails, GwNothingToConfirm, GwOk,
     GwFinish, GwErr, GwCleanup, GwConfirmRefused, GwRun, GwQueue, GwComplete, GwFailRun, GwHistory,
     GwBind, GwMeta, GwProgress, SavesProgress, GwLoad, GwInstall, GwTurnEnds, GwRefine, GwConfirm, GwEnqueue, extVars, AgentTypeOK
  <2> QED
    BY <2>1, <2>2
<1>6. row' \in RunRecord /\ snap' \in Snapshot
  BY RowTyped DEF AgentNext
<1> QED
  BY <1>0, <1>1, <1>2, <1>3, <1>4, <1>5, <1>6 DEF AgentTypeOK

\* The tasks that cancel or recover keep the types.
LEMMA RecTyped ==
    ASSUME AgentTypeOK, CoordTypeOK', RecStep
    PROVE  AgentTypeOK'
<1>0. UNCHANGED <<starts, gw, gwTurn, todo, made, madeBy, crashes>> /\ StoreTypeOK
  BY DEF RecStep, CancelRequest, CancelDrop, CancelWrite, CancelMark, CancelInterrupt, CancelClean,
     RecRead, RecApply, RecUnknown, RecAlone, AgentTypeOK, CoordTypeOK
<1>1. active' \in BOOLEAN /\ cancels' \in 0 .. MaxCancels
  <2>1. active' \in BOOLEAN
    BY DEF RecStep, CancelRequest, CancelDrop, CancelWrite, CancelMark,
       CancelInterrupt, CancelClean, RecRead, RecApply, RecUnknown, AgentTypeOK
  <2>2. cancels' = cancels \/ (cancels < MaxCancels /\ cancels' = cancels + 1)
    BY DEF RecStep, CancelRequest, CancelDrop, CancelWrite, CancelMark,
       CancelInterrupt, CancelClean, RecRead, RecApply, RecUnknown
  <2> QED
    BY <2>1, <2>2, BudgetAssumption DEF AgentTypeOK
<1>2. ext' \in [Turns -> ExtStatus]
  BY ExtWritten, <1>0 DEF RecStep, CancelRequest, CancelDrop, CancelWrite, CancelMark, CancelInterrupt,
     CancelClean, RecRead, RecApply, RecUnknown, AgentTypeOK, StoreTypeOK
<1>3. recTurn' \in [Tasks -> Turns \cup {None}]
  BY <1>0 DEF RecStep, CancelRequest, CancelDrop, CancelWrite, CancelMark, CancelInterrupt, CancelClean,
     RecRead, RecApply, RecUnknown, AgentTypeOK, StoreTypeOK
<1>4. ASSUME NEW w, NEW pc \in RecPC, GoRec(w, pc)
      PROVE  rec' \in [Tasks -> RecPC]
  BY <1>4 DEF GoRec, AgentTypeOK
<1>5. rec' \in [Tasks -> RecPC]
  BY <1>4 DEF RecStep, CancelRequest, CancelDrop, CancelWrite, CancelMark, CancelInterrupt, CancelClean,
     RecRead, RecApply, RecUnknown, RecDone, RecPC
<1>6. row' \in RunRecord /\ snap' \in Snapshot
  BY RowTyped DEF AgentNext
<1> QED
  BY <1>0, <1>1, <1>2, <1>3, <1>5, <1>6 DEF AgentTypeOK

\* Every step keeps the types.
LEMMA AgentTypedStep ==
    ASSUME AgentTypeOK, CoordTypeOK', [AgentNext]_runsVars
    PROVE  AgentTypeOK'
<1>0. row' \in RunRecord /\ snap' \in Snapshot
  BY RowTyped
<1>1. CASE CoordStep /\ UNCHANGED agentVars
  BY <1>0, <1>1 DEF agentVars, gwVars, extVars, recVars, budget, AgentTypeOK
<1>2. CASE AgentStep
  <2>1. UNCHANGED <<gwVars, recVars, budget>> /\ made' \in SUBSET Revs
    BY <1>2 DEF AgentStep, AgentApply, AgentFinalize, AgentEnds, ExternalAlone, AgentTypeOK
  <2>2. ext' \in [Turns -> ExtStatus]
    BY <1>2 DEF AgentStep, AgentApply, AgentFinalize, AgentEnds, AgentTypeOK, ExtStatus
  <2>3. madeBy' \in [Batches -> Turns \cup {None}]
    BY <1>2 DEF AgentStep, AgentApply, AgentFinalize, AgentEnds, AgentTypeOK
  <2> QED
    BY <1>0, <2>1, <2>2, <2>3 DEF gwVars, recVars, budget, AgentTypeOK
<1>3. CASE Crash
  <2>1. ext' \in [Turns -> ExtStatus] /\ crashes' \in 0 .. MaxCrashes
    BY <1>3, ExtWritten, BudgetAssumption DEF Crash, AgentTypeOK
  <2> QED
    BY <1>0, <1>3, <2>1 DEF Crash, AgentTypeOK, GwPC, RecPC
<1>4. CASE Boot \/ \E b \in Batches : BootNormalize(b)
  BY <1>0, <1>4 DEF Boot, BootNormalize, agentVars, gwVars, extVars, recVars, budget, AgentTypeOK
<1>5. CASE BootRecover
  <2>1. rec' \in [Tasks -> RecPC] /\ active' \in BOOLEAN /\ starts' \in BOOLEAN
    BY <1>5 DEF BootRecover, GoRec, AgentTypeOK, RecPC
  <2> QED
    BY <1>0, <1>5, <2>1 DEF BootRecover, extVars, budget, AgentTypeOK
<1>6. CASE UNCHANGED runsVars
  BY <1>0, <1>6 DEF runsVars, agentVars, gwVars, extVars, recVars, budget, AgentTypeOK
<1> QED
  BY <1>1, <1>2, <1>3, <1>4, <1>5, <1>6, GwTyped, RecTyped DEF AgentNext, AgentCoordStep

-----------------------------------------------------------------------------
(* What the steps leave alone. *)

\* What a row says besides its progress through the checks.
KeepsRow(b) ==
    /\ batch'[b].rev = batch[b].rev /\ batch'[b].attempt = batch[b].attempt
    /\ batch'[b].passed = batch[b].passed /\ batch'[b].effects = batch[b].effects
    /\ batch'[b].requested = batch[b].requested /\ batch'[b].bound = batch[b].bound
    /\ batch'[b].applied = batch[b].applied
    /\ Exists(b)' = Exists(b) /\ Unsettled(b)' = Unsettled(b) /\ Settled(b)' = Settled(b)
    /\ batch'[b].status \in {"succeeded", "failed"} => batch'[b].status = batch[b].status

KeepsRows == outRev' = outRev /\ \A b \in Batches : KeepsRow(b)

\* The batches stay what they are, whatever is decided about them.
KeepsNames ==
    /\ outRev' = outRev
    /\ \A b \in Batches : /\ batch'[b].rev = batch[b].rev
                          /\ batch'[b].attempt = batch[b].attempt
                          /\ Exists(b)' = Exists(b)

\* Rows that are not written say what they said.
LEMMA SameBatchKeeps == ASSUME UNCHANGED <<batch, outRev>> PROVE KeepsRows
BY DEF KeepsRows, KeepsRow, Exists, Unsettled, Settled

\* What says the same is the same batch.
LEMMA RowsKeepNames == ASSUME KeepsRows PROVE KeepsNames
BY DEF KeepsRows, KeepsRow, KeepsNames

\* While the batches and the model stay what they are, so does the newest.
LEMMA NamesKeepLatest ==
    ASSUME KeepsNames
    PROVE  \A b \in Batches : LatestBatch(b)' <=> LatestBatch(b)
BY DEF KeepsNames, LatestBatch, LatestAttempt, SameRevision

\* Running checks and claiming or releasing a settlement decide nothing.
LEMMA QuietRows ==
    ASSUME StoreInv, NEW b \in Batches,
           \/ CheckStep(b)
           \/ \E t : ClaimSettlement(b, t) \/ ReleaseSettlement(b, t)
    PROVE  KeepsRows /\ turn' = turn
<1>0. batch \in [Batches -> BatchRecord] /\ batch[b] \in BatchRecord
  BY DEF StoreInv, StoreTypeOK
<1>1. CASE CheckStep(b)
  <2>1. /\ UNCHANGED <<issued, outRev, turn>>
        /\ \A o \in Batches : o # b => batch'[o] = batch[o]
        /\ \/ batch'[b] = batch[b]
           \/ batch'[b] = [batch[b] EXCEPT !.status = IF @ = "queued" THEN "running" ELSE @]
    BY <1>1, CheckStepEffect DEF StoreInv
  <2>2. \A o \in Batches : o # b => KeepsRow(o)
    BY <2>1 DEF KeepsRow, Exists, Unsettled, Settled
  <2>3. KeepsRow(b)
    BY <1>0, <2>1 DEF KeepsRow, Exists, Unsettled, Settled, BatchRecord, BatchStatus
  <2> QED
    BY <2>1, <2>2, <2>3 DEF KeepsRows
<1>2. CASE \E t : ClaimSettlement(b, t) \/ ReleaseSettlement(b, t)
  <2>1. PICK t : WriteBatch(b, [batch[b] EXCEPT !.claim = t])
    BY <1>2 DEF ClaimSettlement, ReleaseSettlement
  <2>2. /\ UNCHANGED <<outRev, turn>>
        /\ \A o \in Batches : o # b => batch'[o] = batch[o]
        /\ batch'[b] = [batch[b] EXCEPT !.claim = t]
    BY <1>0, <1>2, <2>1 DEF ClaimSettlement, ReleaseSettlement, WriteBatch
  <2>3. \A o \in Batches : o # b => KeepsRow(o)
    BY <2>2 DEF KeepsRow, Exists, Unsettled, Settled
  <2>4. KeepsRow(b)
    BY <1>0, <2>2 DEF KeepsRow, Exists, Unsettled, Settled, BatchRecord
  <2> QED
    BY <2>2, <2>3, <2>4 DEF KeepsRows
<1> QED
  BY <1>1, <1>2

\* A step of the coordinator concerns one batch: it starts no executor, and
\* what it changes besides is told by the step it is.
LEMMA CoordStepFrame ==
    ASSUME CoordInv, NEW b \in Batches, CheckExec(b) \/ TaskStep(b) \/ EffStep(b)
    PROVE  /\ UNCHANGED <<known, cachedRev>> /\ KeepsNames
           /\ \A o \in Batches \ {b} :
                 KeepsRow(o) /\ task'[o] = task[o] /\ eff'[o] = eff[o]
           /\ task'[b] # "idle" => task[b] # "idle"
           /\ LiveExec(b)' => LiveExec(b)
           /\ KeepsRow(b) \/ TaskSettle(b) \/ EffClaim(b) \/ EffBind(b) \/ EffRequest(b) \/ EffMark(b)
           /\ turn' = turn \/ EffPrepare(b)
           /\ spawned' = spawned \/ EffEnqueue(b)
           /\ run' = run \/ EffFail(b) \/ EffComplete(b) \/ EffPrepare(b)
           /\ iteration' = iteration \/ EffSave(b)
           /\ eff'[b] = eff[b] \/ TaskSettle(b) \/ EffStep(b)
<1>0. /\ StoreInv /\ StoreTypeOK /\ CoordTypeOK
      /\ batch \in [Batches -> BatchRecord] /\ batch[b] \in BatchRecord
  BY DEF CoordInv, StoreInv, StoreTypeOK
<1>1. CASE CheckExec(b) \/ (TaskStep(b) /\ (TaskJoin(b) \/ TaskClaim(b)))
  <2>1. KeepsRows /\ turn' = turn
    <3>1. CASE CheckExec(b)
      BY <1>0, <3>1, CheckExecIsStoreStep, QuietRows
    <3>2. CASE TaskJoin(b)
      BY <3>2, SameBatchKeeps DEF TaskJoin, storeVars
    <3>3. CASE TaskClaim(b)
      BY <1>0, <3>3, QuietRows DEF TaskClaim
    <3> QED
      BY <1>1, <3>1, <3>2, <3>3
  <2>2. eff' = eff /\ (task' = task \/ \E pc : task[b] # "idle" /\ task' = [task EXCEPT ![b] = pc])
    BY <1>1 DEF CheckExec, ExecStart, ExecFinish, VlmUnavailable, VlmBind, VlmFinish, VlmRecover,
       TaskJoin, TaskClaim, GoTask
  <2>3. UNCHANGED <<run, known, cachedRev, iteration, spawned>>
    BY <1>1 DEF CheckExec, TaskStep, cacheVars
  <2>4. /\ \A o \in Batches \ {b} : task'[o] = task[o]
        /\ task'[b] # "idle" => task[b] # "idle"
    BY <1>0, <2>2 DEF CoordTypeOK
  <2> QED
    BY <2>1, <2>2, <2>3, <2>4, RowsKeepNames DEF KeepsRows, LiveExec
<1>2. CASE TaskSettle(b) /\ TaskStep(b)
  <2>1. /\ outRev' = outRev /\ turn' = turn
        /\ \A o \in Batches \ {b} : batch'[o] = batch[o]
        /\ batch'[b].rev = batch[b].rev /\ batch'[b].attempt = batch[b].attempt
        /\ Exists(b)' = Exists(b)
    BY <1>0, <1>2 DEF TaskSettle, Settle, WriteBatch, BatchRecord, Exists, Unsettled
  <2>2. \A o \in Batches \ {b} : KeepsRow(o)
    BY <2>1 DEF KeepsRow, Exists, Unsettled, Settled
  <2>3. KeepsNames
    BY <2>1 DEF KeepsNames, Exists
  <2>4. UNCHANGED <<run, known, cachedRev, iteration, spawned>>
    BY <1>2 DEF TaskStep, cacheVars
  <2>5. /\ \A o \in Batches \ {b} : task'[o] = task[o] /\ eff'[o] = eff[o]
        /\ task[b] # "idle"
    BY <1>0, <1>2 DEF TaskSettle, GoTask, StartEffects, CoordTypeOK
  <2> QED
    BY <1>2, <2>1, <2>2, <2>3, <2>4, <2>5 DEF LiveExec
<1>3. CASE EffStep(b)
  <2>1. /\ UNCHANGED <<task, known, cachedRev>>
        /\ turn' = turn \/ EffPrepare(b)
        /\ spawned' = spawned \/ EffEnqueue(b)
        /\ run' = run \/ EffFail(b) \/ EffComplete(b) \/ EffPrepare(b)
        /\ iteration' = iteration \/ EffSave(b)
    BY <1>3 DEF EffStep, EffClaim, EffLatest, EffStatus, EffFail, EffIterate, EffSave,
       EffComplete, EffRefine, EffBind, EffPrepare, EffRequest, EffEnqueue, EffMark, taskVars, cacheVars,
       storeVars, ClaimEffects, BindRefinement, RequestRefinement, MarkApplied
  <2>2. \E pc : GoEff(b, pc)
    BY <1>3 DEF EffStep, EffClaim, EffLatest, EffStatus, EffFail, EffIterate, EffSave,
       EffComplete, EffRefine, EffBind, EffPrepare, EffRequest, EffEnqueue, EffMark
  <2>3. \A o \in Batches \ {b} : eff'[o] = eff[o]
    BY <1>0, <2>2 DEF GoEff, CoordTypeOK
  <2>4. eff[b] # "idle"
    BY <1>3 DEF EffStep, EffClaim, EffLatest, EffStatus, EffFail, EffIterate, EffSave,
       EffComplete, EffRefine, EffBind, EffPrepare, EffRequest, EffEnqueue, EffMark
  <2>5. /\ KeepsNames
        /\ \A o \in Batches \ {b} : KeepsRow(o)
        /\ KeepsRow(b) \/ EffClaim(b) \/ EffBind(b) \/ EffRequest(b) \/ EffMark(b)
    <3>1. CASE UNCHANGED <<batch, outRev>>
      BY <3>1, SameBatchKeeps, RowsKeepNames DEF KeepsRows
    <3>2. CASE EffClaim(b) \/ EffBind(b) \/ EffRequest(b) \/ EffMark(b)
      <4>1. OwnerStep(b) \/ UNCHANGED storeVars
        BY <1>0, <3>2, OwnClaimIsStoreStep DEF EffClaim, EffBind, EffRequest, EffMark, OwnerStep
      <4>2. CASE UNCHANGED storeVars
        BY <3>1, <4>2 DEF storeVars
      <4>3. CASE OwnerStep(b)
        <5>1. EffectsStep(b)
          BY <4>3 DEF OwnerStep, EffectsStep
        <5>2. outRev' = outRev /\ \A o \in Batches \ {b} : batch'[o] = batch[o]
          BY <1>0, <5>1, EffectsFrame
        <5>3. \A o \in Batches \ {b} : KeepsRow(o)
          BY <5>2 DEF KeepsRow, Exists, Unsettled, Settled
        <5> QED
          BY <1>0, <3>2, <5>1, <5>2, <5>3, IdentityKept DEF KeepsNames
      <4> QED
        BY <4>1, <4>2, <4>3
    <3>3. CASE \/ EffLatest(b) \/ EffStatus(b) \/ EffFail(b) \/ EffIterate(b) \/ EffSave(b)
               \/ EffComplete(b) \/ EffRefine(b) \/ EffPrepare(b) \/ EffEnqueue(b)
      <4>1. UNCHANGED <<batch, outRev>>
        BY <3>3 DEF EffLatest, EffStatus, EffFail, EffIterate, EffSave, EffComplete, EffRefine,
           EffPrepare, EffEnqueue, storeVars, SetTurn
      <4> QED
        BY <3>1, <4>1
    <3> QED
      BY <1>3, <3>2, <3>3 DEF EffStep
  <2> QED
    BY <1>3, <2>1, <2>3, <2>4, <2>5 DEF LiveExec
<1> QED
  BY <1>1, <1>2, <1>3 DEF TaskStep

\* Two batches are not both the newest attempt on the output revision.
LEMMA LatestUnique ==
    ASSUME StoreInv, NEW b \in Batches, NEW o \in Batches, Exists(b), Exists(o),
           LatestBatch(b), LatestBatch(o)
    PROVE  o = b
<1>1. batch[b].attempt \in Nat /\ batch[o].attempt \in Nat
  BY DEF StoreInv, StoreTypeOK, BatchRecord
<1>2. batch[o].attempt <= batch[b].attempt /\ batch[b].attempt <= batch[o].attempt
  BY DEF LatestBatch, LatestAttempt, SameRevision
<1>3. batch[o].attempt = batch[b].attempt
  BY <1>1, <1>2
<1> QED
  BY <1>3 DEF StoreInv, AttemptsUnique, SameRevision, LatestBatch

\* What was requested, owned or is executed exists and is known.
LEMMA LiveIsKnown ==
    ASSUME RunsInv, NEW b \in Batches, LiveExec(b) \/ batch[b].requested
    PROVE  b \in known /\ Exists(b) /\ (LatestBatch(b) => IsLatest(b))
BY DEF RunsInv, CacheIsSound, IsLatest, LatestBatch

\* An executor that acts on a batch acts on the newest one, alone, while the run
\* waits for it.
LEMMA ActingAlone ==
    ASSUME RunsInv, NEW b \in Batches, eff[b] \in Acting
    PROVE  /\ ~Working /\ gw = "idle" /\ ~starts /\ spawned = 0 /\ phase = "up"
           /\ Exists(b) /\ IsLatest(b) /\ LatestBatch(b)
           /\ Settled(b) /\ batch[b].effects # None /\ ~batch[b].applied
           /\ task[b] = "idle"
           /\ \A o \in Batches : Exists(o) /\ LatestBatch(o) => o = b
           /\ \A o \in Batches : eff[o] \in Acting => o = b
<1>0. /\ LiveExec(b) /\ eff[b] # "idle"
      /\ StoreInv /\ CoordTypeOK
  BY DEF Acting, LiveExec, RunsInv, CoordInv
<1>1. IsLatest(b) /\ batch[b].effects # None /\ LatestBatch(b)
  BY DEF RunsInv, ExecutorsOnLatest, IsLatest
<1>2. ~Working
  BY <1>0, <1>1 DEF RunsInv, OutdatedWhileWorking
<1>3. gw = "idle" /\ ~starts /\ spawned = 0
  BY <1>0, <1>2 DEF Working, InFlight, CoordTypeOK
<1>4. phase = "up"
  BY <1>0 DEF RunsInv, CoordInv, QuietUnlessUp
<1>5. Settled(b) /\ ~batch[b].applied
  BY <1>0, <1>1 DEF StoreInv, EffectsFollowVerdict, RefinementAnswersRejection
<1>6. task[b] = "idle"
  BY <1>5 DEF RunsInv, ExecutorsOnLatest, Settled, Unsettled
<1>7. Exists(b)
  BY <1>5 DEF Settled, Exists
<1>8. \A o \in Batches : Exists(o) /\ LatestBatch(o) => o = b
  BY <1>0, <1>1, <1>7, LatestUnique
<1>9. \A o \in Batches : eff[o] \in Acting => o = b
  <2> SUFFICES ASSUME NEW o \in Batches, eff[o] \in Acting PROVE o = b
    OBVIOUS
  <2>1. LiveExec(o) /\ LatestBatch(o)
    BY DEF RunsInv, ExecutorsOnLatest, IsLatest, Acting, LiveExec
  <2> QED
    BY <1>8, <2>1, LiveIsKnown
<1> QED
  BY <1>1, <1>2, <1>3, <1>4, <1>5, <1>6, <1>7, <1>8, <1>9

\* A step that is taken by an acting executor is that of ActingAlone.
LEMMA ActingSteps ==
    ASSUME NEW b \in Batches,
           \/ EffStatus(b) \/ EffFail(b) \/ EffIterate(b) \/ EffSave(b) \/ EffComplete(b)
           \/ EffRefine(b) \/ EffPrepare(b) \/ EffRequest(b) \/ EffEnqueue(b) \/ EffBind(b)
    PROVE  eff[b] \in Acting
BY DEF EffStatus, EffFail, EffIterate, EffSave, EffComplete, EffRefine, EffPrepare, EffRequest,
   EffEnqueue, EffBind, Acting

\* While the turn is bound, what it confirms is the newest batch, cached as such
\* and claimed as it was listed, and no executor is left of it.
LEMMA TodoIsNewest ==
    ASSUME RunsInv, NEW p \in todo
    PROVE  /\ gw = "confirm" /\ p[1] \in Batches /\ p[2] # None /\ turn # None
           /\ batch[p[1]].effects = p[2] /\ Open(p[1]) /\ ~batch[p[1]].bound /\ Exists(p[1])
           /\ LatestBatch(p[1]) /\ IsLatest(p[1]) /\ ~LiveExec(p[1])
<1>1. gw = "confirm" /\ turn # None
  BY DEF RunsInv, OneExecution
<1>2. /\ p[1] \in Batches /\ p[2] # None
      /\ batch[p[1]].effects = p[2] /\ batch[p[1]].requested
  BY DEF RunsInv, TodoIsOpen, AgentTypeOK
<1>3. ~batch[p[1]].applied /\ ~batch[p[1]].bound
  BY <1>2 DEF RunsInv, CoordInv, StoreInv, RefinementAnswersRejection
<1>4. Open(p[1])
  BY <1>2, <1>3 DEF Open
<1>5. LatestBatch(p[1])
  BY <1>2, <1>4 DEF RunsInv, OpenIsLatest
<1>6. ~LiveExec(p[1])
  BY <1>1, <1>2, <1>5 DEF RunsInv, OutdatedWhileWorking, Working, InFlight
<1> QED
  BY <1>1, <1>2, <1>3, <1>4, <1>5, <1>6, LiveIsKnown

\* So a confirmation is never refused,
LEMMA NeverRefused ==
    ASSUME RunsInv, NEW p \in todo
    PROVE  ~ConfirmRefused(p[1], p[2])
BY TodoIsNewest DEF ConfirmRefused, OwnsEffects, Open

\* and it closes its batch as answered by the bound turn.
LEMMA ConfirmBinds ==
    ASSUME RunsInv, NEW p \in todo, GwConfirm(p[1], p[2])
    PROVE  /\ UNCHANGED <<eff, task, outRev, turn>> /\ KeepsNames
           /\ \A o \in Batches \ {p[1]} : KeepsRow(o)
           /\ batch'[p[1]] = [batch[p[1]] EXCEPT !.bound = TRUE, !.effects = None, !.applied = TRUE]
           /\ batch'[p[1]].bound /\ batch'[p[1]].applied /\ batch'[p[1]].requested
           /\ Rejected(p[1]) /\ batch'[p[1]].status = batch[p[1]].status
<1> DEFINE b == p[1]
<1>1. b \in Batches /\ p[2] # None /\ IsLatest(b) /\ ~batch[b].bound
  BY TodoIsNewest
<1>2. BindRefinement(b, p[2]) /\ eff' = eff
  BY <1>1 DEF GwConfirm, ConfirmBound
<1>3. batch \in [Batches -> BatchRecord] /\ batch[b] \in BatchRecord
  BY <1>1 DEF RunsInv, CoordInv, StoreInv, StoreTypeOK
<1>4. /\ batch'[b] = [batch[b] EXCEPT !.bound = TRUE, !.effects = None, !.applied = TRUE]
      /\ \A o \in Batches \ {b} : batch'[o] = batch[o]
      /\ UNCHANGED <<outRev, turn>> /\ Rejected(b) /\ batch[b].requested
  BY <1>1, <1>2, <1>3 DEF BindRefinement, WriteBatch
<1>5. /\ batch'[b].bound /\ batch'[b].applied /\ batch'[b].requested
      /\ batch'[b].rev = batch[b].rev /\ batch'[b].attempt = batch[b].attempt
      /\ batch'[b].status = batch[b].status
  BY <1>3, <1>4 DEF BatchRecord
<1>6. \A o \in Batches \ {b} : KeepsRow(o)
  BY <1>4 DEF KeepsRow, Exists, Unsettled, Settled
<1>7. KeepsNames
  BY <1>4, <1>5 DEF KeepsNames, Exists
<1>8. task' = task
  BY DEF GwConfirm
<1> QED
  BY <1>2, <1>4, <1>5, <1>6, <1>7, <1>8

\* A step of the gateway; what it changes of the coordinator's state and of the
\* turns is told by the step it is.
LEMMA GwStepFrame ==
    ASSUME RunsInv, GwStep
    PROVE  /\ phase = "up" /\ UNCHANGED <<phase, iteration, number, rec, recTurn, made, madeBy>>
           /\ KeepsNames
           /\ KeepsRows \/ \E p \in todo : GwConfirm(p[1], p[2])
           /\ turn' = turn \/ GwBind \/ GwMeta
           /\ (eff' = eff /\ task' = task) \/ GwEnqueue
           /\ spawned' = spawned \/ GwRefine
           /\ starts' = starts \/ GwStart
           /\ UNCHANGED <<known, cachedRev>> \/ GwInstall
           /\ todo' = todo \/ GwMeta \/ \E p \in todo : GwConfirm(p[1], p[2])
           /\ ext' = ext \/ GwLaunch \/ GwTimeout \/ GwConnectionLost
           /\ run' = run \/ GwRun \/ GwBind \/ GwConnectionLost \/ GwHistory \/ GwQueue
                         \/ GwComplete \/ GwFailRun \/ GwInstall
                         \/ (SavesProgress /\ (GwProgress \/ GwLoad))
<1>1. ASSUME NEW p \in todo, GwConfirm(p[1], p[2]) PROVE KeepsNames /\ eff' = eff
  BY <1>1, ConfirmBinds
<1>2. \A p \in todo : ~GwConfirmRefused(p[1], p[2])
  BY NeverRefused DEF GwConfirmRefused
<1>3. UNCHANGED <<batch, outRev>> \/ \E p \in todo : GwConfirm(p[1], p[2])
  BY <1>2 DEF GwStep, GwAct, GwStart, GwCheck, GwBegin, GwLaunch, GwLaunchFails, GwNothingToConfirm, GwTimeout, GwOk,
     GwFinish, GwErr, GwCleanup, GwRun, GwQueue, GwComplete, GwFailRun, GwHistory,
     GwConnectionLost, GwBind, GwMeta, GwProgress, SavesProgress, GwLoad, GwInstall, GwTurnEnds, GwRefine, GwEnqueue,
     CoordAlone, storeVars, SetTurn
<1>4. KeepsNames /\ (KeepsRows \/ \E p \in todo : GwConfirm(p[1], p[2]))
  BY <1>1, <1>3, SameBatchKeeps, RowsKeepNames
<1>5. /\ phase = "up" /\ UNCHANGED <<phase, iteration, number, rec, recTurn, made, madeBy>>
      /\ (eff' = eff /\ task' = task) \/ GwEnqueue
  BY <1>1, <1>2 DEF GwStep, GwAct, GwStart, GwCheck, GwBegin, GwLaunch, GwLaunchFails, GwNothingToConfirm, GwTimeout, GwOk,
     GwFinish, GwErr, GwCleanup, GwRun, GwQueue, GwComplete, GwFailRun, GwHistory,
     GwConnectionLost, GwBind, GwMeta, GwProgress, SavesProgress, GwLoad, GwInstall, GwTurnEnds, GwRefine, GwConfirm, GwEnqueue,
     CoordAlone, coordVars, recVars, extVars
<1>6. /\ turn' = turn \/ GwBind \/ GwMeta
      /\ spawned' = spawned \/ GwRefine
      /\ starts' = starts \/ GwStart
      /\ UNCHANGED <<known, cachedRev>> \/ GwInstall
  BY <1>2, ConfirmBinds DEF GwStep, GwAct, GwStart, GwCheck, GwBegin, GwLaunch, GwLaunchFails, GwNothingToConfirm, GwTimeout, GwOk,
     GwFinish, GwErr, GwCleanup, GwRun, GwQueue, GwComplete, GwFailRun, GwHistory,
     GwConnectionLost, GwProgress, SavesProgress, GwLoad, GwInstall, GwTurnEnds, GwRefine, GwConfirm, GwEnqueue, GwBind, GwMeta,
     CoordAlone, storeVars, cacheVars, gwVars
<1>7. /\ todo' = todo \/ GwMeta \/ \E p \in todo : GwConfirm(p[1], p[2])
      /\ ext' = ext \/ GwLaunch \/ GwTimeout \/ GwConnectionLost
  BY <1>2 DEF GwStep, GwAct, GwStart, GwCheck, GwBegin, GwLaunch, GwLaunchFails, GwNothingToConfirm, GwTimeout, GwOk,
     GwFinish, GwErr, GwCleanup, GwRun, GwQueue, GwComplete, GwFailRun, GwHistory, GwBind,
     GwConnectionLost, GwProgress, SavesProgress, GwLoad, GwInstall, GwTurnEnds, GwRefine, GwConfirm, GwEnqueue, GwMeta, extVars, gwVars
<1>8. run' = run \/ GwRun \/ GwBind \/ GwConnectionLost \/ GwHistory \/ GwQueue
                 \/ GwComplete \/ GwFailRun \/ GwInstall
                 \/ (SavesProgress /\ (GwProgress \/ GwLoad))
  BY <1>2 DEF GwStep, GwAct, GwStart, GwCheck, GwBegin, GwLaunch, GwLaunchFails, GwNothingToConfirm, GwTimeout, GwOk,
     GwFinish, GwErr, GwCleanup, GwProgress, GwLoad, GwTurnEnds, GwRefine, GwConfirm, GwEnqueue, GwMeta
<1> QED
  BY <1>4, <1>5, <1>6, <1>7, <1>8

\* No write but that of a run that is taken up again ends its being terminal, and
\* none puts it back in the queue.
LEMMA RunEnds ==
    ASSUME run \in RunRecord,
           \/ run' = run \/ MarkReconciling \/ MarkUnknown
           \/ \E s \in {"completed", "failed", "cancelled"} : SetRun(s, "none")
           \/ \E o \in {"completed", "failed", "interrupted"} : ApplyHistory(o)
    PROVE  /\ RunTerminal => RunTerminal'
           /\ run'.status = "queued" => run.status = "queued"
<1>1. CASE run' = run
  BY <1>1 DEF RunTerminal
<1>2. CASE MarkReconciling
  BY <1>2 DEF MarkReconciling, RunTerminal, RunRecord
<1>3. CASE MarkUnknown
  BY <1>1, <1>3 DEF MarkUnknown, RunTerminal
<1>4. CASE \E s \in {"completed", "failed", "cancelled"} : SetRun(s, "none")
  BY <1>4 DEF SetRun, RunTerminal, RunRecord
<1>5. CASE \E o \in {"completed", "failed", "interrupted"} : ApplyHistory(o)
  <2>1. PICK o \in {"completed", "failed", "interrupted"} : ApplyHistory(o)
    BY <1>5
  <2>2. StatusOf(o) # "queued"
    BY DEF StatusOf
  <2>3. ~RunTerminal => run' = run \/ run'.status = StatusOf(o)
    BY <2>1 DEF ApplyHistory
  <2> QED
    BY <1>1, <2>1, <2>2, <2>3 DEF ApplyHistory, RunTerminal
<1> QED
  BY <1>1, <1>2, <1>3, <1>4, <1>5

\* The task that cancels or recovers touches the run, its turn in Codex and
\* whether the run is active, and nothing of validation.
LEMMA RecStepFrame ==
    ASSUME RunsInv, RecStep
    PROVE  /\ phase = "up"
           /\ UNCHANGED <<phase, batch, outRev, turn, known, cachedRev, iteration, number, task, eff,
                          spawned, starts, gw, gwTurn, todo, made, madeBy>>
           /\ active' => active
           /\ \A t \in Turns : /\ ext'[t] = "running" => ext[t] = "running"
                               /\ ext'[t] = "none" <=> ext[t] = "none"
           /\ RunTerminal => RunTerminal'
           /\ run'.status = "queued" => run.status = "queued"
<1>1. /\ phase = "up"
      /\ UNCHANGED <<phase, batch, outRev, turn, known, cachedRev, iteration, number, task, eff,
                          spawned, starts, gw, gwTurn, todo, made, madeBy>>
      /\ active' => active
  BY DEF RecStep, CancelRequest, CancelDrop, CancelWrite, CancelMark, CancelInterrupt, CancelClean,
     RecRead, RecApply, RecUnknown, RecAlone, storeVars, coordVars, cacheVars
<1>2. ext' = ext \/ ext' = [ext EXCEPT ![turn] = IF @ = "running" THEN "interrupted" ELSE @]
  BY DEF RecStep, CancelRequest, CancelDrop, CancelWrite, CancelMark, CancelInterrupt, CancelClean,
     RecRead, RecApply, RecUnknown
<1>3. \A t \in Turns : /\ ext'[t] = "running" => ext[t] = "running"
                       /\ ext'[t] = "none" <=> ext[t] = "none"
  BY <1>2 DEF RunsInv, AgentTypeOK
<1>4. run' = run \/ SetRun("cancelled", "none") \/ MarkReconciling \/ MarkUnknown
                 \/ \E o \in {"completed", "failed", "interrupted"} : ApplyHistory(o)
  <2>1. ASSUME NEW w \in Tasks, rec[w] = "apply", ext[recTurn[w]] \notin {"hung", "running"}
        PROVE  ext[recTurn[w]] \in {"completed", "failed", "interrupted"}
    <3>1. recTurn[w] \in Turns /\ ext[recTurn[w]] # "none"
      BY <2>1 DEF RunsInv, NamesAreMade, AgentTypeOK
    <3> QED
      BY <2>1, <3>1, HistoryStatus DEF RunsInv, AgentTypeOK
  <2> QED
    BY <2>1 DEF RecStep, CancelRequest, CancelDrop, CancelWrite, CancelMark, CancelInterrupt, CancelClean,
       RecRead, RecApply, RecUnknown
<1>5. run \in RunRecord
  BY DEF RunsInv, CoordInv, CoordTypeOK
<1>7. /\ RunTerminal => RunTerminal'
      /\ run'.status = "queued" => run.status = "queued"
  BY <1>4, <1>5, RunEnds
<1> QED
  BY <1>1, <1>3, <1>7

\* A command of the turn happens while the run works.  It adds a batch or gives
\* the run another model, but not while a refinement is open; what was not the
\* newest does not become it.
LEMMA AgentStepFrame ==
    ASSUME RunsInv, AgentStep
    PROVE  /\ phase = "up" /\ Working /\ \E t \in Turns : ext[t] = "running"
           /\ UNCHANGED <<phase, run, known, cachedRev, turn, iteration, number, task, eff, spawned,
                          active, starts, gw, gwTurn, todo, rec, recTurn>>
           /\ \A t \in Turns : /\ ext'[t] = "running" => ext[t] = "running"
                               /\ ext'[t] = "none" <=> ext[t] = "none"
           /\ made \subseteq made' /\ (outRev' = outRev \/ outRev' \in made')
           /\ outRev' = outRev \/ \A b \in Batches : Exists(b) => batch[b].rev # outRev'
           /\ \A b \in Batches : Exists(b) =>
                 KeepsRow(b) /\ madeBy'[b] = madeBy[b] /\ (LatestBatch(b)' => LatestBatch(b))
           /\ \A b \in Batches : ~Exists(b) /\ Exists(b)' =>
                 /\ Unsettled(b)' /\ ~batch'[b].requested
                 /\ batch'[b].rev = outRev /\ outRev # None
                 /\ madeBy'[b] \in Turns /\ ext[madeBy'[b]] = "running"
           /\ \A b \in Batches : ~Exists(b) /\ ~Exists(b)' => batch'[b] = batch[b]
           /\ (\E b \in Batches : Open(b)) => UNCHANGED <<batch, outRev>>
<1>1. PICK t \in Turns : AgentApply(t) \/ AgentFinalize(t) \/ AgentEnds(t)
  BY DEF AgentStep
<1>2. /\ ext[t] = "running"
      /\ UNCHANGED <<phase, run, known, cachedRev, turn, iteration, number, task, eff, spawned,
                          active, starts, gw, gwTurn, todo, rec, recTurn>>
  BY <1>1 DEF AgentApply, AgentFinalize, AgentEnds, ExternalAlone, cacheVars, coordVars, gwVars, recVars,
     LinkOutputRevision, CreateBatch, storeVars
<1>3. Working /\ phase = "up"
  BY <1>2 DEF Working, AgentStep
<1>4. /\ StoreInv /\ StoreTypeOK /\ batch \in [Batches -> BatchRecord] /\ ext \in [Turns -> ExtStatus]
      /\ madeBy \in [Batches -> Turns \cup {None}]
  BY DEF RunsInv, CoordInv, StoreInv, StoreTypeOK, AgentTypeOK
<1>5. ASSUME NEW b \in Batches, Open(b) PROVE EffectsOwned(b) /\ LatestBatch(b) /\ Exists(b)
  BY <1>3, <1>5, LiveIsKnown DEF RunsInv, OpenIsLatest, Open, EffectsOwned
<1>6. \A b \in Batches : batch'[b] = batch[b] => KeepsRow(b)
  BY DEF KeepsRow, Exists, Unsettled, Settled
<1>7. CASE AgentApply(t)
  <2>1. PICK r \in Revs \ made : LinkOutputRevision(r) /\ made' = made \cup {r}
    BY <1>7 DEF AgentApply
  <2>2. r # outRev
    BY <2>1, StoreAssumption DEF RunsInv, NamesAreMade
  <2>3. batch' = batch /\ outRev' = r /\ UNCHANGED <<ext, madeBy>>
    BY <1>7, <2>1 DEF LinkOutputRevision, AgentApply
  <2>4. \A b \in Batches : ~EffectsOwned(b)
    BY <2>1, <2>2 DEF LinkOutputRevision
  <2>5. \A b \in Batches : Exists(b) => batch[b].rev # r
    BY <2>1 DEF RunsInv, NamesAreMade
  <2>6. \A b \in Batches : Exists(b) => ~LatestBatch(b)'
    BY <2>3, <2>5 DEF LatestBatch
  <2>7. \A b \in Batches : Exists(b)' = Exists(b)
    BY <2>3 DEF Exists
  <2>8. \A b \in Batches : Exists(b) => batch[b].rev # outRev'
    BY <2>3, <2>5
  <2>9. \A b \in Batches : ~Open(b)
    BY <1>5, <2>4
  <2> QED
    BY <1>2, <1>3, <1>6, <2>1, <2>3, <2>6, <2>7, <2>8, <2>9
<1>8. CASE AgentFinalize(t)
  <2>1. PICK b \in Batches : CreateBatch(b) /\ madeBy' = [madeBy EXCEPT ![b] = t]
    BY <1>8 DEF AgentFinalize
  <2>2. /\ ~Exists(b) /\ outRev' = outRev /\ outRev # None
        /\ \A o \in Batches \ {b} : batch'[o] = batch[o] /\ madeBy'[o] = madeBy[o]
        /\ batch'[b].rev = outRev /\ madeBy'[b] = t
        /\ \A o \in Batches : SameRevision(o, outRev) => ~EffectsOwned(o)
    BY <1>4, <2>1, CreateFrame DEF CreateBatch
  <2>3. PICK n \in 1 .. MaxAttempt :
            WriteBatch(b, [Pristine EXCEPT !.status = "queued", !.rev = outRev, !.attempt = n])
    BY <1>4, <2>1, CreateBatchEffect
  <2>4. batch'[b].status = "queued" /\ batch'[b].requested = FALSE
    BY <1>4, <2>3 DEF WriteBatch, Pristine
  <2>5. Unsettled(b)' /\ Exists(b)'
    BY <2>4 DEF Unsettled, Exists
  <2>6. UNCHANGED <<made, ext>>
    BY <1>8 DEF AgentFinalize
  <2>7. \A o \in Batches : ~Open(o)
    BY <1>5, <2>2 DEF LatestBatch, SameRevision
  <2>8. ASSUME NEW o \in Batches, Exists(o), LatestBatch(o)'
        PROVE  LatestBatch(o)
    <3>1. o # b /\ batch'[o] = batch[o]
      BY <2>2, <2>8
    <3>2. \A x \in Batches : SameRevision(x, batch[o].rev) => x # b /\ SameRevision(x, batch[o].rev)'
      BY <2>2, <3>1 DEF SameRevision, Exists
    <3>3. \A x \in Batches : SameRevision(x, batch[o].rev) => batch[x].attempt <= batch[o].attempt
      BY <2>2, <2>8, <3>1, <3>2 DEF LatestBatch, LatestAttempt
    <3> QED
      BY <2>2, <2>8, <3>1, <3>3 DEF LatestBatch, LatestAttempt
  <2>9. \A o \in Batches \ {b} : Exists(o)' = Exists(o)
    BY <2>2 DEF Exists
  <2> QED
    BY <1>2, <1>3, <1>6, <2>2, <2>4, <2>5, <2>6, <2>7, <2>8, <2>9
<1>9. CASE AgentEnds(t)
  <2>1. UNCHANGED <<batch, outRev, made, madeBy>>
    BY <1>9 DEF AgentEnds, storeVars
  <2>2. PICK s \in {"completed", "failed"} : ext' = [ext EXCEPT ![t] = s]
    BY <1>9 DEF AgentEnds
  <2>3. KeepsRows /\ \A b \in Batches : (LatestBatch(b)' <=> LatestBatch(b)) /\ Exists(b)' = Exists(b)
    BY <2>1, SameBatchKeeps, RowsKeepNames, NamesKeepLatest DEF KeepsNames
  <2>4. \A u \in Turns : /\ ext'[u] = "running" => ext[u] = "running"
                         /\ ext'[u] = "none" <=> ext[u] = "none"
    BY <1>2, <1>4, <2>2
  <2> QED
    BY <1>2, <1>3, <1>6, <2>1, <2>3, <2>4
<1> QED
  BY <1>1, <1>7, <1>8, <1>9

\* The startup normalization releases claims and decides nothing.
LEMMA NormalizeFrame ==
    ASSUME CoordInv, NEW b \in Batches, CoordNormalize(b)
    PROVE  /\ phase = "boot" /\ phase' = "boot" /\ turn' = turn /\ KeepsNames
           /\ UNCHANGED <<run, known, cachedRev, iteration, task, eff, number, spawned>>
           /\ \A o \in Batches : /\ batch'[o].requested = batch[o].requested
                                 /\ batch'[o].applied = batch[o].applied
                                 /\ batch'[o].bound = batch[o].bound
                                 /\ Unsettled(o)' = Unsettled(o)
<1>0. StoreInv /\ batch \in [Batches -> BatchRecord] /\ batch[b] \in BatchRecord
  BY DEF CoordInv, StoreInv, StoreTypeOK
<1>1. /\ phase = "boot" /\ phase' = "boot"
      /\ UNCHANGED <<run, known, cachedRev, iteration, task, eff, number, spawned>>
  BY DEF CoordNormalize, cacheVars, coordVars
<1>2. CASE \/ \E k \in Kinds \ {Vlm} : ResetCheck(b, k)
           \/ ReleaseSettlement(b, batch[b].claim)
  <2>1. CheckStep(b) \/ \E t : ReleaseSettlement(b, t)
    BY <1>2 DEF CheckStep
  <2>2. KeepsRows /\ turn' = turn
    BY <1>0, <2>1, QuietRows
  <2> QED
    BY <1>1, <2>2, RowsKeepNames DEF KeepsRows, KeepsRow
<1>3. CASE ReleaseEffects(b)
  <2>1. EffectsStep(b)
    BY <1>3 DEF EffectsStep
  <2>2. KeepsNames /\ turn' = turn
    BY <1>0, <1>3, <2>1, IdentityKept, OutRevKept DEF KeepsNames, ReleaseEffects
  <2>3. /\ \A o \in Batches \ {b} : batch'[o] = batch[o]
        /\ batch'[b] = [batch[b] EXCEPT !.effects = None]
    BY <1>0, <1>3 DEF ReleaseEffects, WriteBatch
  <2>4. /\ batch'[b].requested = batch[b].requested /\ batch'[b].applied = batch[b].applied
        /\ batch'[b].bound = batch[b].bound /\ batch'[b].status = batch[b].status
    BY <1>0, <2>3 DEF BatchRecord
  <2> QED
    BY <1>1, <2>2, <2>3, <2>4 DEF Unsettled
<1> QED
  BY <1>2, <1>3 DEF CoordNormalize, Normalize

\* A batch that exists stays what it is; it never becomes the newest again, and
\* what was requested of it or decided about it stays.
LEMMA BatchesStay ==
    ASSUME RunsInv, [AgentNext]_runsVars, NEW b \in Batches, Exists(b)
    PROVE  /\ Exists(b)' /\ batch'[b].rev = batch[b].rev /\ madeBy'[b] = madeBy[b]
           /\ LatestBatch(b)' => LatestBatch(b)
           /\ batch[b].applied => batch'[b] = batch[b]
           /\ Settled(b) => batch'[b].status = batch[b].status /\ batch'[b].passed = batch[b].passed
<1>1. CASE AgentStep
  <2>1. KeepsRow(b) /\ madeBy'[b] = madeBy[b] /\ (LatestBatch(b)' => LatestBatch(b))
    BY <1>1, AgentStepFrame
  <2> QED
    BY <2>1, CoordPart, AppliedIsFinalStep, VerdictIsFinalStep DEF KeepsRow, RunsInv, CoordInv, storeVars
<1>2. CASE ~AgentStep
  <2>1. KeepsNames /\ madeBy' = madeBy
    <3>1. CASE CoordStep /\ UNCHANGED agentVars
      BY <3>1, CoordStepFrame DEF CoordStep, agentVars, extVars, RunsInv
    <3>2. CASE GwStep
      BY <3>2, GwStepFrame
    <3>3. CASE RecStep
      BY <3>3, RecStepFrame, SameBatchKeeps, RowsKeepNames
    <3>4. CASE Crash \/ Boot \/ BootRecover \/ UNCHANGED runsVars
      BY <3>4, SameBatchKeeps, RowsKeepNames DEF Crash, Boot, BootRecover, CoordCrash, CoordBoot, CoordRecover,
         storeVars, agentVars, extVars, runsVars, allCoordVars
    <3>5. CASE \E o \in Batches : BootNormalize(o)
      BY <3>5, NormalizeFrame DEF BootNormalize, RunsInv, agentVars, extVars
    <3> QED
      BY <1>2, <3>1, <3>2, <3>3, <3>4, <3>5 DEF AgentNext, AgentCoordStep
  <2>2. /\ batch[b].applied => batch'[b] = batch[b]
        /\ Settled(b) => batch'[b].status = batch[b].status /\ batch'[b].passed = batch[b].passed
    BY CoordPart, AppliedIsFinalStep, VerdictIsFinalStep DEF RunsInv, CoordInv, storeVars
  <2> QED
    BY <2>1, <2>2, NamesKeepLatest DEF KeepsNames
<1> QED
  BY <1>1, <1>2

\* A turn in Codex never goes back, and only turn/start begins one.
LEMMA TurnsMove ==
    ASSUME RunsInv, [AgentNext]_runsVars, NEW t \in Turns
    PROVE  /\ ext'[t] = "none" => ext[t] = "none"
           /\ ~(GwStep /\ GwLaunch) => /\ ext'[t] = "running" => ext[t] = "running"
                                       /\ ext[t] = "none" => ext'[t] = "none"
<1>0. ext \in [Turns -> ExtStatus] /\ gwTurn \in Turns \cup {None}
  BY DEF RunsInv, AgentTypeOK
<1>1. CASE GwStep
  <2>1. CASE ext' = ext
    BY <2>1
  <2>2. CASE GwLaunch
    BY <1>0, <1>1, <2>2 DEF GwLaunch
  <2>3. CASE GwTimeout
    BY <1>0, <2>3 DEF GwTimeout
  <2>4. CASE GwConnectionLost
    BY <1>0, <2>4 DEF GwConnectionLost, Ended
  <2> QED
    BY <1>1, <2>1, <2>2, <2>3, <2>4, GwStepFrame
<1>2. CASE AgentStep
  BY <1>2, AgentStepFrame
<1>3. CASE RecStep
  BY <1>3, RecStepFrame
<1>4. CASE Crash
  BY <1>4 DEF Crash, Ended
<1>5. CASE ~GwStep /\ ~AgentStep /\ ~RecStep /\ ~Crash
  BY <1>5 DEF AgentNext, AgentCoordStep, Boot, BootNormalize, BootRecover, agentVars, extVars, runsVars
<1> QED
  BY <1>1, <1>2, <1>3, <1>4, <1>5

\* A crash leaves nothing in memory, and nothing starts before the recovery.
LEMMA DownIsQuietStep ==
    ASSUME RunsInv, [AgentNext]_runsVars
    PROVE  DownIsQuiet'
<1> SUFFICES ASSUME phase' # "up"
             PROVE  /\ gw' = "idle" /\ ~starts' /\ spawned' = 0
                    /\ \A t \in Turns : ext'[t] # "running"
                    /\ \A b \in Batches : task'[b] = "idle"
  BY DEF DownIsQuiet
<1>1. CASE Crash
  BY <1>1 DEF Crash, CoordCrash, DropVolatile, Ended
<1>2. CASE Boot
  BY <1>2 DEF Boot, CoordBoot, coordVars, agentVars, gwVars, extVars, RunsInv, DownIsQuiet
<1>3. ASSUME NEW b \in Batches, BootNormalize(b)
      PROVE  /\ gw' = "idle" /\ ~starts' /\ spawned' = 0
             /\ \A t \in Turns : ext'[t] # "running"
             /\ \A o \in Batches : task'[o] = "idle"
  BY <1>3, NormalizeFrame DEF BootNormalize, agentVars, gwVars, extVars, RunsInv, DownIsQuiet
<1>4. CASE UNCHANGED runsVars
  BY <1>4 DEF runsVars, allCoordVars, coordVars, agentVars, gwVars, extVars, RunsInv, DownIsQuiet
<1>5. ~BootRecover /\ ~CoordStep /\ ~GwStep /\ ~AgentStep /\ ~RecStep
  BY GwStepFrame, AgentStepFrame, RecStepFrame DEF BootRecover, CoordRecover, CoordStep
<1> QED
  BY <1>1, <1>2, <1>3, <1>4, <1>5 DEF AgentNext, AgentCoordStep

\* Asking for a refinement turn is done by an acting executor, so nothing is due
\* or under way; a turn that starts takes up what was due.
LEMMA OneExecutionStep ==
    ASSUME RunsInv, [AgentNext]_runsVars
    PROVE  OneExecution'
<1>0. OneExecution /\ spawned \in Nat /\ starts \in BOOLEAN
  BY DEF RunsInv, CoordInv, CoordTypeOK, AgentTypeOK
<1>1. CASE CoordStep /\ UNCHANGED agentVars
  <2>1. PICK b \in Batches : CheckExec(b) \/ TaskStep(b) \/ EffStep(b)
    BY <1>1 DEF CoordStep
  <2>2. UNCHANGED <<active, starts, gw, gwTurn, todo>>
    BY <1>1 DEF agentVars, gwVars
  <2>3. (turn' = turn \/ EffPrepare(b)) /\ (spawned' = spawned \/ EffEnqueue(b))
    BY <2>1, CoordStepFrame DEF RunsInv
  <2>4. CASE EffPrepare(b) \/ EffEnqueue(b)
    <3>1. gw = "idle" /\ ~starts /\ spawned = 0
      BY <2>4, ActingSteps, ActingAlone
    <3>2. spawned' <= 1 /\ spawned' \in Nat
      BY <2>4, <3>1 DEF EffPrepare, EffEnqueue
    <3> QED
      BY <1>0, <2>2, <3>1, <3>2 DEF OneExecution
  <2>5. CASE UNCHANGED <<turn, spawned>>
    BY <1>0, <2>2, <2>5 DEF OneExecution
  <2> QED
    BY <2>3, <2>4, <2>5 DEF EffPrepare, EffEnqueue, storeVars
<1>2. CASE GwStep
  <2>0. turn' = turn \/ GwBind \/ GwMeta
    BY <1>2, GwStepFrame
  <2>1. CASE GwStart \/ GwCheck \/ GwRun \/ GwBegin \/ GwLaunchFails \/ GwOk \/ GwQueue \/ GwFinish
             \/ GwComplete \/ GwErr \/ GwFailRun
    BY <1>0, <2>0, <2>1 DEF GwStart, GwCheck, GwRun, GwBegin, GwLaunchFails, GwOk, GwQueue, GwFinish, GwComplete,
       GwErr, GwFailRun, GwBind, GwMeta, GoGw, OneExecution
  <2>2. CASE GwRefine
    BY <1>0, <2>0, <2>2 DEF GwRefine, GwBind, GwMeta, GoGw, OneExecution
  <2>3. CASE GwLaunch
    <3>1. gwTurn' # None
      BY <2>3, StoreAssumption DEF GwLaunch
    <3> QED
      BY <1>0, <2>0, <2>3, <3>1 DEF GwLaunch, GwBind, GwMeta, GoGw, OneExecution
  <2>4. CASE GwBind
    BY <1>0, <2>4 DEF GwBind, SetTurn, GoGw, OneExecution
  <2>5. CASE GwMeta
    BY <1>0, <2>5 DEF GwMeta, SetTurn, GoGw, OneExecution, storeVars
  <2>6. ASSUME NEW p \in todo, GwConfirm(p[1], p[2])
        PROVE  OneExecution'
    BY <1>0, <2>0, <2>6 DEF GwConfirm, GwBind, GwMeta, GoGw, OneExecution
  <2>7. CASE GwNothingToConfirm \/ GwProgress \/ GwLoad \/ GwInstall \/ GwTurnEnds \/ GwTimeout \/ GwConnectionLost \/ GwHistory
    BY <1>0, <2>0, <2>7 DEF GwNothingToConfirm, GwProgress, SavesProgress, GwLoad, GwInstall, GwTurnEnds, GwTimeout, GwConnectionLost, GwHistory,
       GwBind, GwMeta, GoGw, OneExecution, gwVars
  <2>8. CASE GwCleanup \/ GwEnqueue
    BY <1>0, <2>0, <2>8 DEF GwCleanup, GwEnqueue, GwBind, GwMeta, GoGw, OneExecution
  <2>9. \A p \in todo : ~GwConfirmRefused(p[1], p[2])
    BY NeverRefused DEF GwConfirmRefused
  <2> QED
    BY <1>2, <2>1, <2>2, <2>3, <2>4, <2>5, <2>6, <2>7, <2>8, <2>9 DEF GwStep, GwAct
<1>3. CASE AgentStep
  BY <1>0, <1>3, AgentStepFrame DEF OneExecution
<1>4. CASE RecStep
  BY <1>0, <1>4, RecStepFrame DEF OneExecution
<1>5. CASE Crash
  BY <1>5 DEF Crash, CoordCrash, DropVolatile, OneExecution
<1>6. CASE Boot \/ \E b \in Batches : BootNormalize(b)
  <2>1. UNCHANGED <<turn, spawned, active, starts, gw, gwTurn, todo>>
    BY <1>6, NormalizeFrame DEF Boot, BootNormalize, CoordBoot, storeVars, agentVars, gwVars, RunsInv
  <2> QED
    BY <1>0, <2>1 DEF OneExecution
<1>7. CASE BootRecover
  <2>1. UNCHANGED <<turn, spawned, gw, gwTurn, todo>> /\ gw = "idle" /\ spawned = 0
    BY <1>7 DEF BootRecover, CoordRecover, storeVars, RunsInv, DownIsQuiet
  <2>2. (active' = TRUE /\ starts' = TRUE) \/ UNCHANGED <<active, starts>>
    BY <1>7 DEF BootRecover
  <2> QED
    BY <1>0, <2>1, <2>2 DEF OneExecution
<1>8. CASE UNCHANGED runsVars
  BY <1>0, <1>8 DEF runsVars, allCoordVars, storeVars, agentVars, gwVars, OneExecution
<1> QED
  BY <1>1, <1>2, <1>3, <1>4, <1>5, <1>6, <1>7, <1>8 DEF AgentNext, AgentCoordStep

\* Only the gateway writes to its refresh.
LEMMA SnapKept ==
    ASSUME \/ AgentCoordStep \/ AgentStep \/ RecStep \/ Boot \/ BootRecover
           \/ (\E b \in Batches : BootNormalize(b)) \/ UNCHANGED runsVars
    PROVE  snap' = snap
BY DEF AgentCoordStep, SavesRun, AgentStep, AgentApply, AgentFinalize, AgentEnds, ExternalAlone,
   RecStep, Boot, BootNormalize, BootRecover, rowVars, runsVars

\* The status of the run is the one that is written.
LEMMA SetRunStatus ==
    ASSUME run \in RunRecord, NEW s, NEW l, SetRun(s, l)
    PROVE  run'.status = s
BY DEF SetRun, RunRecord

\* Nothing puts a run back in the queue, and its first task precedes its first turn.
LEMMA QueuedIsNewStep ==
    ASSUME RunsInv, [AgentNext]_runsVars
    PROVE  QueuedIsNew'
<1>0. /\ QueuedIsNew /\ OneExecution /\ DownIsQuiet /\ run \in RunRecord
      /\ \A t \in Turns : ext'[t] = "none" => ext[t] = "none"
  BY TurnsMove DEF RunsInv, CoordInv, CoordTypeOK
<1>r. row'.status = "queued" => row.status = "queued" \/ run'.status = "queued"
  BY RowFollows
<1>1. CASE AgentCoordStep
  <2>1. PICK b \in Batches : CheckExec(b) \/ TaskStep(b) \/ EffStep(b)
    BY <1>1 DEF AgentCoordStep, CoordStep
  <2>2. run' = run \/ EffFail(b) \/ EffComplete(b) \/ EffPrepare(b)
    BY <2>1, CoordStepFrame DEF RunsInv
  <2>3. run'.status = "queued" => run.status = "queued"
    <3>1. EffFail(b) \/ EffComplete(b) => run'.status # "queued"
      BY <1>0, <1>r, SetRunStatus DEF EffFail, EffComplete
    <3>2. EffPrepare(b) => run' = run \/ run'.status = "running"
      BY DEF EffPrepare
    <3> QED
      BY <2>2, <3>1, <3>2
  <2>4. UNCHANGED <<starts, gw, ext>>
    BY <1>1 DEF AgentCoordStep, agentVars, gwVars, extVars
  <2> QED
    BY <1>0, <1>r, <1>1, <2>3, <2>4, SnapKept DEF QueuedIsNew
<1>2. CASE GwStep
  <2>1. CASE GwRun \/ GwQueue \/ GwComplete \/ GwFailRun
    <3>1. run'.status # "queued"
      BY <1>0, <1>r, <2>1, SetRunStatus DEF GwRun, GwQueue, GwComplete, GwFailRun
    <3>2. /\ starts' = starts /\ gw \in {"run", "queue", "complete", "failrun"}
          /\ gw' \notin {"install", "run", "queue", "complete", "failrun"}
      BY <2>1 DEF GwRun, GwQueue, GwComplete, GwFailRun, GoGw
    <3>3. row' = run'
      BY <1>2, <3>2 DEF GwStep, SavesRun, Writing, GwAct, GwProgress, SavesProgress, GwLoad, GwInstall
    <3> QED
      BY <1>0, <3>1, <3>2, <3>3 DEF QueuedIsNew, OneExecution
  <2>2. CASE GwLaunch \/ GwTimeout \/ GwTurnEnds \/ GwErr \/ GwBegin \/ GwLaunchFails \/ GwMeta \/ GwOk \/ GwFinish
             \/ GwCleanup \/ GwEnqueue \/ GwNothingToConfirm
             \/ \E p \in todo : GwConfirm(p[1], p[2]) \/ GwConfirmRefused(p[1], p[2])
    <3>1. run' = run /\ starts' = starts /\ gw \notin {"idle", "check", "run"} /\ gw' # "install"
      BY <2>2 DEF GwLaunch, GwTimeout, GwTurnEnds, GwErr, GwBegin, GwLaunchFails, GwMeta, GwOk, GwFinish,
         GwCleanup, GwEnqueue, GwNothingToConfirm, GwConfirm, GwConfirmRefused, GoGw
    <3> QED
      BY <1>0, <1>r, <3>1 DEF QueuedIsNew, OneExecution
  <2>3. CASE GwBind \/ GwConnectionLost \/ GwHistory
    <3>1. starts' = starts /\ gw \notin {"idle", "check", "run"} /\ gw' # "install"
      BY <2>3 DEF GwBind, GwConnectionLost, GwHistory, GoGw
    <3>2. run.status # "queued"
      BY <1>0, <1>r, <3>1 DEF QueuedIsNew
    <3>3. \/ run' = run \/ MarkReconciling \/ MarkUnknown \/ run'.status = run.status
          \/ \E o \in {"completed", "failed", "interrupted"} : ApplyHistory(o)
      <4>1. GwBind => run' = run \/ run'.status = run.status
        BY <1>0 DEF GwBind, RunRecord
      <4>2. gw = "lost" /\ ext[turn] \notin {"hung", "running"} /\ turn # None
              => ext[turn] \in {"completed", "failed", "interrupted"}
        BY HistoryStatus DEF RunsInv, NamesAreMade, CoordInv, CoordTypeOK, StoreTypeOK, AgentTypeOK
      <4> QED
        BY <2>3, <4>1, <4>2 DEF GwConnectionLost, GwHistory
    <3>4. run'.status # "queued"
      BY <1>0, <1>r, <3>2, <3>3, RunEnds
    <3> QED
      BY <1>0, <1>r, <3>1, <3>4 DEF QueuedIsNew, OneExecution
  <2>4. CASE GwStart \/ GwRefine \/ GwCheck
    BY <1>0, <1>r, <2>4 DEF GwStart, GwRefine, GwCheck, GoGw, QueuedIsNew, extVars
  <2>5. CASE GwProgress \/ GwLoad
    <3>1. /\ starts' = starts /\ gw = "turn"
          /\ gw' = "turn" \/ (gw' = "install" /\ snap'.run = run')
      BY <2>5 DEF GwProgress, GwLoad, SavesProgress, GoGw, gwVars
    <3>2. run'.status = run.status
      BY <1>0, <2>5 DEF GwProgress, GwLoad, SavesProgress, RunRecord
    <3> QED
      BY <1>0, <1>r, <3>1, <3>2 DEF QueuedIsNew, OneExecution
  <2>6. CASE GwInstall
    <3>1. starts' = starts /\ gw = "install" /\ gw' = "turn" /\ run' = snap.run
      BY <2>6 DEF GwInstall, GoGw
    <3> QED
      BY <1>0, <1>r, <3>1 DEF QueuedIsNew, OneExecution
  <2> QED
    BY <1>2, <2>1, <2>2, <2>3, <2>4, <2>5, <2>6 DEF GwStep, GwAct
<1>3. CASE AgentStep
  BY <1>0, <1>r, <1>3, AgentStepFrame, SnapKept DEF QueuedIsNew
<1>4. CASE RecStep
  BY <1>0, <1>r, <1>4, RecStepFrame, SnapKept DEF QueuedIsNew
<1>5. CASE Crash
  BY <1>0, <1>r, <1>5 DEF Crash, CoordCrash, QueuedIsNew
<1>6. CASE Boot \/ \E b \in Batches : BootNormalize(b)
  <2>1. UNCHANGED <<starts, gw, ext, row, snap>>
    BY <1>6 DEF Boot, BootNormalize, agentVars, gwVars, extVars, rowVars
  <2>2. run' = run \/ run' = row
    BY <1>6, NormalizeFrame DEF Boot, BootNormalize, RunsInv
  <2> QED
    BY <1>0, <1>r, <2>1, <2>2 DEF QueuedIsNew
<1>7. CASE BootRecover
  <2>1. UNCHANGED <<gw, ext>> /\ gw = "idle" /\ (starts' => starts \/ run.status = "queued")
    BY <1>0, <1>r, <1>7 DEF BootRecover, CoordRecover, extVars, DownIsQuiet
  <2>2. run' = run \/ MarkReconciling \/ MarkUnknown
    BY <1>7 DEF BootRecover
  <2>3. run'.status = "queued" => run.status = "queued"
    BY <1>0, <1>r, <2>2, RunEnds
  <2> QED
    BY <1>0, <1>r, <2>1, <2>3 DEF QueuedIsNew
<1>8. CASE UNCHANGED runsVars
  BY <1>0, <1>r, <1>8 DEF runsVars, allCoordVars, agentVars, gwVars, extVars, rowVars, QueuedIsNew
<1> QED
  BY <1>1, <1>2, <1>3, <1>4, <1>5, <1>6, <1>7, <1>8 DEF AgentNext, AgentCoordStep

\* A turn runs while the gateway sees to it; what leaves it to itself does so on
\* a run that has ended, and nothing takes that run up while the turn runs.
LEMMA RunningTurnStep ==
    ASSUME RunsInv, [AgentNext]_runsVars
    PROVE  RunningTurn'
<1>0. RunningTurn /\ OneExecution /\ DownIsQuiet /\ run \in RunRecord
  BY DEF RunsInv, CoordInv, CoordTypeOK
<1>1. CASE CoordStep /\ UNCHANGED agentVars
  <2>1. PICK b \in Batches : CheckExec(b) \/ TaskStep(b) \/ EffStep(b)
    BY <1>1 DEF CoordStep
  <2>2. /\ run' = run \/ EffFail(b) \/ EffComplete(b) \/ EffPrepare(b)
        /\ spawned' = spawned \/ EffEnqueue(b)
    BY <2>1, CoordStepFrame DEF RunsInv
  <2>3. UNCHANGED <<starts, gw, gwTurn, ext>>
    BY <1>1 DEF agentVars, gwVars, extVars
  <2>4. CASE EffFail(b) \/ EffComplete(b) \/ EffPrepare(b) \/ EffEnqueue(b)
    <3>1. ~Working
      BY <2>4, ActingSteps, ActingAlone
    <3> QED
      BY <2>3, <3>1 DEF Working, RunningTurn
  <2>5. CASE UNCHANGED <<run, spawned>>
    BY <1>0, <2>3, <2>5 DEF RunningTurn, RunTerminal
  <2> QED
    BY <2>2, <2>4, <2>5
<1>2. CASE GwStep
  <2>0. /\ \A t \in Turns : ext'[t] = "running" => ext[t] = "running" \/ GwLaunch
        /\ ext \in [Turns -> ExtStatus] /\ gwTurn \in Turns \cup {None}
    BY TurnsMove DEF RunsInv, AgentTypeOK
  <2>1. CASE gw \in {"check", "run", "begin", "lost", "ok", "queue", "finish", "complete", "failrun",
                     "cleanup", "enqueue"}
    <3>1. ~GwLaunch
      BY <2>1 DEF GwLaunch
    <3>2. \A t \in Turns : ext'[t] # "running"
      BY <1>0, <2>0, <2>1, <3>1 DEF RunningTurn
    <3> QED
      BY <3>2 DEF RunningTurn
  <2>2. CASE GwLaunch
    BY <1>0, <2>0, <2>2 DEF GwLaunch, GoGw, RunningTurn
  <2>3. CASE GwLaunchFails
    BY <1>0, <2>0, <2>3 DEF GwLaunchFails, GwLaunch, GoGw, RunningTurn, extVars
  <2>4. CASE GwBind
    BY <1>0, <2>0, <2>4 DEF GwBind, GoGw, RunningTurn, OneExecution, RunTerminal, extVars
  <2>5. CASE GwMeta \/ GwNothingToConfirm \/ GwProgress \/ GwLoad \/ GwInstall \/ \E p \in todo : GwConfirm(p[1], p[2])
    <3>1. /\ gw \in {"meta", "confirm", "turn", "install"} /\ gw' \in {"meta", "confirm", "turn", "install"}
          /\ UNCHANGED <<gwTurn, ext>>
      BY <2>5 DEF GwMeta, GwNothingToConfirm, GwProgress, SavesProgress, GwLoad, GwInstall, GwConfirm, GoGw, gwVars, extVars
    <3> QED
      BY <1>0, <3>1 DEF RunningTurn
  <2>6. CASE GwTurnEnds
    BY <1>0, <2>6 DEF GwTurnEnds, GoGw, RunningTurn, extVars
  <2>7. CASE GwTimeout
    BY <1>0, <2>0, <2>7 DEF GwTimeout, GoGw, RunningTurn
  <2>8. CASE GwConnectionLost
    BY <1>0, <2>0, <2>8 DEF GwConnectionLost, GoGw, RunningTurn, Ended
  <2>9. CASE GwErr
    BY <1>0, <2>9 DEF GwErr, GoGw, RunningTurn, RunTerminal, extVars
  <2>10. CASE GwStart \/ GwRefine
    BY <1>0, <2>10 DEF GwStart, GwRefine, RunningTurn, extVars
  <2>11. \A p \in todo : ~GwConfirmRefused(p[1], p[2])
    BY NeverRefused DEF GwConfirmRefused
  <2>12. CASE GwCheck \/ GwRun \/ GwBegin \/ GwHistory \/ GwOk \/ GwQueue \/ GwFinish \/ GwComplete \/ GwFailRun
              \/ GwCleanup \/ GwEnqueue
    BY <2>1, <2>12 DEF GwCheck, GwRun, GwBegin, GwHistory, GwOk, GwQueue, GwFinish, GwComplete, GwFailRun,
       GwCleanup, GwEnqueue
  <2> QED
    BY <1>2, <2>2, <2>3, <2>4, <2>5, <2>6, <2>7, <2>8, <2>9, <2>10, <2>11, <2>12 DEF GwStep, GwAct
<1>3. CASE AgentStep
  BY <1>0, <1>3, AgentStepFrame DEF RunningTurn, RunTerminal
<1>4. CASE RecStep
  BY <1>0, <1>4, RecStepFrame DEF RunningTurn
<1>5. CASE Crash
  BY <1>5 DEF Crash, Ended, RunningTurn
<1>6. CASE Boot \/ BootRecover \/ \E b \in Batches : BootNormalize(b)
  <2>1. phase # "up" /\ ext' = ext
    BY <1>6, NormalizeFrame DEF Boot, BootNormalize, BootRecover, CoordBoot, CoordRecover, agentVars, extVars, RunsInv
  <2> QED
    BY <1>0, <2>1 DEF DownIsQuiet, RunningTurn
<1>7. CASE UNCHANGED runsVars
  BY <1>0, <1>7 DEF runsVars, allCoordVars, agentVars, gwVars, extVars, RunningTurn, RunTerminal
<1> QED
  BY <1>1, <1>2, <1>3, <1>4, <1>5, <1>6, <1>7 DEF AgentNext, AgentCoordStep

\* A run that is still in the queue, or that the process has just found there,
\* has no batch.
LEMMA QueuedHasNoBatch ==
    ASSUME RunsInv, run.status = "queued" \/ starts, NEW b \in Batches
    PROVE  ~Exists(b)
BY DEF RunsInv, QueuedIsNew, NamesAreMade

\* The startup starts the tasks of open batches, the executors of settled ones,
\* and the run if it was still in the queue.
LEMMA RecoverFrame ==
    ASSUME RunsInv, BootRecover
    PROVE  /\ phase = "boot" /\ phase' = "up" /\ KeepsRows
           /\ UNCHANGED <<batch, outRev, turn, known, cachedRev, iteration, number, spawned,
                          gw, gwTurn, todo, recTurn, ext, made, madeBy>>
           /\ gw = "idle" /\ spawned = 0 /\ todo = {} /\ gwTurn = None
           /\ \A t \in Turns : ext[t] # "running"
           /\ starts' => \A b \in Batches : ~Exists(b)
           /\ \A b \in Batches : /\ task'[b] # "idle" => Unsettled(b)
                                 /\ eff'[b] \in {"idle", "claim"}
                                 /\ eff'[b] # "idle" => Settled(b)
                                 /\ LiveExec(b)' => Exists(b)
           /\ \A w \in Tasks : rec'[w] = "apply" => rec[w] = "apply"
           /\ run' = run \/ MarkReconciling \/ MarkUnknown
           /\ RunTerminal => RunTerminal'
<1>1. /\ phase = "boot" /\ phase' = "up"
      /\ UNCHANGED <<batch, outRev, turn, known, cachedRev, iteration, number, spawned,
                     gw, gwTurn, todo, recTurn, ext, made, madeBy>>
  BY DEF BootRecover, CoordRecover, storeVars, cacheVars, extVars
<1>2. /\ gw = "idle" /\ spawned = 0 /\ todo = {} /\ gwTurn = None /\ ~starts
      /\ \A t \in Turns : ext[t] # "running"
  BY <1>1 DEF RunsInv, DownIsQuiet, OneExecution
<1>3. starts' => \A b \in Batches : ~Exists(b)
  BY <1>2, QueuedHasNoBatch DEF BootRecover
<1>4. ASSUME NEW b \in Batches
      PROVE  /\ task'[b] # "idle" => Unsettled(b)
             /\ eff'[b] \in {"idle", "claim"}
             /\ eff'[b] # "idle" => Settled(b)
             /\ LiveExec(b)' => Exists(b)
  <2>1. task'[b] # "idle" => Unsettled(b)
    BY DEF BootRecover, CoordRecover, RecoverBatches
  <2>2. eff[b] = "idle"
    BY <1>1 DEF RunsInv, CoordInv, QuietUnlessUp
  <2>3. StartEffects({o \in Batches : Unapplied(o)})
    BY DEF BootRecover, CoordRecover, RecoverBatches
  <2>4. eff'[b] \in {"idle", "claim"} /\ (eff'[b] # "idle" => Settled(b))
    BY <2>2, <2>3 DEF StartEffects, Unapplied
  <2> QED
    BY <2>1, <2>4 DEF LiveExec, Unsettled, Settled, Exists
<1>5. /\ run' = run \/ MarkReconciling \/ MarkUnknown
      /\ RunTerminal => RunTerminal'
  <2>1. run' = run \/ MarkReconciling \/ MarkUnknown
    BY DEF BootRecover
  <2> QED
    BY <2>1, RunEnds DEF RunsInv, CoordInv, CoordTypeOK
<1>6. \A w \in Tasks : rec'[w] = "apply" => rec[w] = "apply"
  BY DEF BootRecover, GoRec, RunsInv, AgentTypeOK
<1> QED
  BY <1>1, <1>2, <1>3, <1>4, <1>5, <1>6, SameBatchKeeps

\* A model, a turn or a batch is named after it was made.
LEMMA NamesAreMadeStep ==
    ASSUME RunsInv, [AgentNext]_runsVars
    PROVE  NamesAreMade'
<1>0. /\ NamesAreMade /\ OneExecution /\ AgentTypeOK
      /\ outRev \in Revs \cup {None} /\ turn \in Turns \cup {None}
      /\ \A t \in Turns : ext'[t] = "none" => ext[t] = "none"
  BY TurnsMove DEF RunsInv, CoordInv, CoordTypeOK, StoreTypeOK
<1>1. ASSUME KeepsNames, UNCHANGED <<made, madeBy, recTurn, rec, turn, gwTurn>>
      PROVE  NamesAreMade'
  BY <1>0, <1>1 DEF NamesAreMade, KeepsNames, AgentTypeOK
<1>2. CASE CoordStep /\ UNCHANGED agentVars
  <2>1. PICK b \in Batches : CheckExec(b) \/ TaskStep(b) \/ EffStep(b)
    BY <1>2 DEF CoordStep
  <2>2. UNCHANGED <<made, madeBy, recTurn, rec, gwTurn>>
    BY <1>2 DEF agentVars, gwVars, extVars, recVars
  <2>3. KeepsNames /\ (turn' = turn \/ turn' = None)
    BY <2>1, CoordStepFrame DEF RunsInv, EffPrepare, SetTurn, storeVars
  <2> QED
    BY <1>0, <2>2, <2>3 DEF NamesAreMade, KeepsNames, AgentTypeOK
<1>3. CASE GwStep
  <2>1. KeepsNames /\ UNCHANGED <<made, madeBy, recTurn, rec>> /\ (turn' = turn \/ GwBind \/ GwMeta)
    BY <1>3, GwStepFrame
  <2>2. turn' = turn \/ turn' = gwTurn
    BY <2>1 DEF GwBind, GwMeta, SetTurn, storeVars
  <2>3. gwTurn' = gwTurn \/ gwTurn' = None \/ ext'[gwTurn'] # "none"
    BY <1>0, <1>3 DEF GwStep, GwAct, GwStart, GwCheck, GwBegin, GwLaunch, GwLaunchFails, GwNothingToConfirm, GwTimeout, GwOk,
     GwFinish, GwErr, GwCleanup, GwConfirmRefused, GwRun, GwQueue, GwComplete, GwFailRun, GwHistory,
     GwConnectionLost, GwBind, GwMeta, GwProgress, SavesProgress, GwLoad, GwInstall, GwTurnEnds, GwRefine, GwConfirm, GwEnqueue, gwVars, AgentTypeOK
  <2> QED
    BY <1>0, <2>1, <2>2, <2>3 DEF NamesAreMade, KeepsNames, AgentTypeOK
<1>4. CASE AgentStep
  <2>1. /\ UNCHANGED <<turn, gwTurn, rec, recTurn>> /\ made \subseteq made'
        /\ outRev' = outRev \/ outRev' \in made'
    BY <1>4, AgentStepFrame
  <2>2. ASSUME NEW b \in Batches, Exists(b)'
        PROVE  batch'[b].rev \in made' /\ madeBy'[b] \in Turns /\ ext'[madeBy'[b]] # "none"
    <3>1. CASE Exists(b)
      BY <1>0, <1>4, <2>1, <2>2, <3>1, AgentStepFrame DEF NamesAreMade, KeepsRow
    <3>2. CASE ~Exists(b)
      BY <1>0, <1>4, <2>1, <2>2, <3>2, AgentStepFrame DEF NamesAreMade
    <3> QED
      BY <3>1, <3>2
  <2> QED
    BY <1>0, <2>1, <2>2 DEF NamesAreMade, AgentTypeOK
<1>5. CASE RecStep
  <2>1. /\ UNCHANGED <<batch, outRev, made, madeBy, turn, gwTurn>>
    BY <1>5, RecStepFrame
  <2>2. \A w \in Tasks : recTurn'[w] = recTurn[w] \/ recTurn'[w] = None \/ recTurn'[w] = turn
    BY <1>0, <1>5 DEF RecStep, CancelRequest, CancelDrop, CancelWrite, CancelMark, CancelInterrupt, CancelClean,
     RecRead, RecApply, RecUnknown, AgentTypeOK
  <2>3. \A w \in Tasks : rec'[w] = "apply" => recTurn'[w] # None
    BY <1>0, <1>5 DEF RecStep, CancelRequest, CancelDrop, CancelWrite, CancelMark, CancelInterrupt, CancelClean,
     RecRead, RecApply, RecUnknown, RecDone, GoRec, AgentTypeOK, NamesAreMade
  <2> QED
    BY <1>0, <2>1, <2>2, <2>3 DEF NamesAreMade, AgentTypeOK, Exists
<1>6. CASE Crash
  <2>1. UNCHANGED <<batch, outRev, made, madeBy, turn>> /\ gwTurn' = None
        /\ \A w \in Tasks : rec'[w] = "idle" /\ recTurn'[w] = None
    BY <1>6 DEF Crash, CoordCrash, storeVars
  <2> QED
    BY <1>0, <2>1 DEF NamesAreMade, Exists, AgentTypeOK
<1>7. CASE Boot \/ \E b \in Batches : BootNormalize(b)
  BY <1>1, <1>7, NormalizeFrame, SameBatchKeeps, RowsKeepNames DEF Boot, BootNormalize, CoordBoot, storeVars, agentVars,
     gwVars, extVars, recVars, RunsInv
<1>8. CASE BootRecover
  <2>1. UNCHANGED <<batch, outRev, made, madeBy, turn, gwTurn, recTurn, ext>>
        /\ \A w \in Tasks : rec'[w] = "apply" => rec[w] = "apply"
    BY <1>8, RecoverFrame
  <2> QED
    BY <1>0, <2>1 DEF NamesAreMade, Exists
<1>9. CASE UNCHANGED runsVars
  BY <1>1, <1>9, SameBatchKeeps, RowsKeepNames DEF runsVars, allCoordVars, storeVars, agentVars, gwVars, extVars, recVars
<1> QED
  BY <1>2, <1>3, <1>4, <1>5, <1>6, <1>7, <1>8, <1>9 DEF AgentNext, AgentCoordStep

\* The steps that can change the row or the executor of the batch they are about.
LEMMA CoordStepCases ==
    ASSUME CoordInv, NEW b \in Batches, CheckExec(b) \/ TaskStep(b) \/ EffStep(b)
    PROVE  \/ KeepsRow(b) /\ eff'[b] = eff[b]
           \/ TaskSettle(b)
           \/ EffClaim(b)   \/ EffLatest(b)   \/ EffStatus(b)  \/ EffFail(b)
           \/ EffIterate(b) \/ EffSave(b)     \/ EffComplete(b)
           \/ EffRefine(b)  \/ EffBind(b)     \/ EffPrepare(b)
           \/ EffRequest(b) \/ EffEnqueue(b)  \/ EffMark(b)
BY CoordStepFrame DEF EffStep

\* A settlement ends the task of an open batch, which no executor was past its
\* claim of, and starts one.
LEMMA SettleFrame ==
    ASSUME RunsInv, NEW b \in Batches, TaskSettle(b)
    PROVE  /\ eff[b] \in {"idle", "claim"} /\ eff'[b] = "claim" /\ task'[b] = "idle"
           /\ task[b] # "idle" /\ Unsettled(b)
           /\ batch'[b].requested = batch[b].requested /\ ~batch[b].requested
<1>0. /\ StoreInv /\ CoordTypeOK /\ ExecutorOwns
      /\ batch \in [Batches -> BatchRecord] /\ batch[b] \in BatchRecord
  BY DEF RunsInv, CoordInv, StoreInv, StoreTypeOK
<1>1. task[b] # "idle" /\ task'[b] = "idle"
  BY <1>0 DEF TaskSettle, GoTask, CoordTypeOK
<1>2. Unsettled(b)
  BY DEF TaskSettle, Settle
<1>3. eff[b] \in {"idle", "claim"} /\ ~batch[b].requested
  BY <1>0, <1>2 DEF ExecutorOwns, StoreInv, EffectsFollowVerdict, Unsettled, Settled
<1>4. eff'[b] = "claim"
  BY <1>0, <1>3 DEF TaskSettle, StartEffects, CoordTypeOK
<1>5. batch'[b].requested = batch[b].requested
  BY <1>0 DEF TaskSettle, Settle, WriteBatch, BatchRecord
<1> QED
  BY <1>1, <1>2, <1>3, <1>4, <1>5

\* The call at the end of a turn starts tasks of open batches and executors of
\* settled ones, when no turn is due or running any more.
LEMMA EnqueueFrame ==
    ASSUME RunsInv, GwStep, GwEnqueue
    PROVE  /\ KeepsRows /\ ~Working' /\ gwTurn = None /\ gwTurn' = None /\ UNCHANGED <<turn, madeBy, known>>
           /\ \A b \in Batches : /\ task'[b] = task[b] \/ (b \in known /\ Unsettled(b))
                                 /\ eff'[b] = eff[b] \/ (eff'[b] = "claim" /\ b \in known /\ Settled(b))
<1>1. KeepsRows /\ UNCHANGED <<batch, turn, madeBy, starts, spawned, ext, known>>
  BY SameBatchKeeps DEF GwEnqueue, storeVars, extVars, cacheVars
<1>2. gw = "enqueue" /\ gw' = "idle" /\ gwTurn = None /\ gwTurn' = gwTurn
  BY DEF GwEnqueue, GoGw, RunsInv, OneExecution
<1>3. ~starts /\ spawned = 0 /\ \A t \in Turns : ext[t] # "running"
  BY <1>2 DEF RunsInv, OneExecution, RunningTurn
<1>4. ~Working'
  BY <1>1, <1>2, <1>3 DEF Working, InFlight
<1>5. ASSUME NEW b \in Batches
      PROVE  /\ task'[b] = task[b] \/ (b \in known /\ Unsettled(b))
             /\ eff'[b] = eff[b] \/ (eff'[b] = "claim" /\ b \in known /\ Settled(b))
  BY DEF GwEnqueue, EnqueueRun, StartTasks, StartEffects, Unapplied
<1> QED
  BY <1>1, <1>2, <1>4, <1>5

\* Batches get executors from the cache, and the cache is read with its revision.
LEMMA CacheIsSoundStep ==
    ASSUME RunsInv, [AgentNext]_runsVars
    PROVE  CacheIsSound'
<1>0. CacheIsSound /\ known \in SUBSET Batches
  BY DEF RunsInv, CoordInv, CoordTypeOK
<1>1. ASSUME KeepsNames, UNCHANGED <<known, cachedRev>>, phase' = "boot" => phase = "boot",
             \A b \in Batches : LiveExec(b)' \/ batch'[b].requested => LiveExec(b) \/ batch[b].requested \/ b \in known,
             gw' = "install" => SnapIsSound'
      PROVE  CacheIsSound'
  BY <1>0, <1>1 DEF CacheIsSound, KeepsNames
<1>s. ASSUME KeepsNames, snap' = snap, gw = "install",
             \A b \in Batches : LiveExec(b)' \/ batch'[b].requested => LiveExec(b) \/ batch[b].requested
      PROVE  SnapIsSound'
  BY <1>0, <1>s DEF CacheIsSound, SnapIsSound, KeepsNames
<1>2. ASSUME KeepsNames, LoadCache, gw' # "install",
             \A b \in Batches : LiveExec(b)' \/ batch'[b].requested => Exists(b)
      PROVE  CacheIsSound'
  BY <1>0, <1>2 DEF CacheIsSound, KeepsNames, LoadCache
<1>3. CASE AgentCoordStep
  <2>1. PICK o \in Batches : CheckExec(o) \/ TaskStep(o) \/ EffStep(o)
    BY <1>3 DEF AgentCoordStep, CoordStep
  <2>2. /\ KeepsNames /\ UNCHANGED <<known, cachedRev, phase, gw>>
    BY <1>3, <2>1, CoordStepFrame DEF RunsInv, AgentCoordStep, CoordStep, agentVars, gwVars
  <2>3. snap' = snap
    BY <1>3, SnapKept
  <2>4. ASSUME NEW b \in Batches, LiveExec(b)' \/ batch'[b].requested PROVE LiveExec(b) \/ batch[b].requested
    <3>1. CASE b = o /\ (TaskSettle(o) \/ EffClaim(o) \/ EffBind(o) \/ EffRequest(o) \/ EffMark(o))
      BY <3>1 DEF TaskSettle, EffClaim, EffBind, EffRequest, EffMark, LiveExec
    <3>2. CASE KeepsRow(b)
      BY <2>1, <2>4, <3>2, CoordStepFrame DEF RunsInv, KeepsRow, LiveExec
    <3> QED
      BY <2>1, <3>1, <3>2, CoordStepFrame DEF RunsInv
  <2> QED
    BY <1>1, <1>s, <2>2, <2>3, <2>4
<1>4. CASE GwStep
  <2>1. ASSUME NEW b \in Batches, LiveExec(b)' \/ batch'[b].requested, ~GwEnqueue
        PROVE  LiveExec(b) \/ batch[b].requested
    <3>1. eff' = eff /\ task' = task
      BY <1>4, <2>1, GwStepFrame
    <3>2. KeepsRow(b) \/ batch[b].requested
      BY <1>4, GwStepFrame, ConfirmBinds, TodoIsNewest DEF KeepsRows, Open
    <3> QED
      BY <2>1, <3>1, <3>2 DEF KeepsRow, LiveExec
  <2>2. KeepsNames /\ phase' = phase /\ (UNCHANGED <<known, cachedRev>> \/ GwInstall)
    BY <1>4, GwStepFrame
  <2>3. CASE GwEnqueue
    <3>1. /\ gw' # "install" /\ UNCHANGED <<known, cachedRev>>
      BY <2>3 DEF GwEnqueue, GoGw, cacheVars
    <3>2. \A b \in Batches : LiveExec(b)' \/ batch'[b].requested => LiveExec(b) \/ batch[b].requested \/ b \in known
      BY <1>4, <2>3, EnqueueFrame DEF KeepsRows, KeepsRow, LiveExec
    <3> QED
      BY <1>1, <2>2, <3>1, <3>2
  <2>4. CASE GwInstall
    <3>1. gw = "install" /\ gw' # "install" /\ known' = snap.known /\ cachedRev' = snap.rev
      BY <2>4 DEF GwInstall, GoGw
    <3>2. ~GwEnqueue /\ phase = "up"
      BY <1>4, <3>1 DEF GwEnqueue, GwStep
    <3> QED
      BY <1>0, <2>1, <2>2, <3>1, <3>2 DEF CacheIsSound, SnapIsSound, KeepsNames
  <2>5. CASE GwLoad
    <3>1. /\ ~GwEnqueue /\ ~GwInstall
          /\ snap'.known = {b \in Batches : Exists(b)} /\ snap'.rev = outRev
      BY <2>5 DEF GwLoad, SavesProgress, GwEnqueue, GwInstall
    <3>2. \A b \in Batches : LiveExec(b)' \/ batch'[b].requested => LiveExec(b) \/ batch[b].requested
      BY <2>1, <3>1
    <3>3. SnapIsSound'
      BY <2>2, <3>1, <3>2, LiveIsKnown DEF SnapIsSound, KeepsNames
    <3> QED
      BY <1>1, <2>2, <3>1, <3>2, <3>3
  <2>6. CASE ~GwEnqueue /\ ~GwInstall /\ ~GwLoad
    <3>1. gw' # "install"
      BY <1>4, <2>6 DEF GwStep, GwAct, GwStart, GwCheck, GwBegin, GwLaunch, GwLaunchFails, GwNothingToConfirm,
         GwTimeout, GwOk, GwFinish, GwErr, GwCleanup, GwConfirmRefused, GwRun, GwQueue, GwComplete, GwFailRun,
         GwHistory, GwConnectionLost, GwBind, GwMeta, GwProgress, SavesProgress, GwTurnEnds, GwRefine,
         GwConfirm, gwVars, GoGw
    <3> QED
      BY <1>1, <2>1, <2>2, <2>6, <3>1
  <2> QED
    BY <2>3, <2>4, <2>5, <2>6
<1>5. CASE AgentStep
  <2>1. ASSUME NEW b \in Batches, LiveExec(b)' \/ batch'[b].requested PROVE LiveExec(b) \/ batch[b].requested
    <3>1. LiveExec(b)' = LiveExec(b)
      BY <1>5, AgentStepFrame DEF LiveExec
    <3>2. batch'[b].requested => batch[b].requested
      BY <1>5, AgentStepFrame DEF KeepsRow
    <3> QED
      BY <2>1, <3>1, <3>2
  <2>2. ASSUME NEW b \in known
        PROVE  Exists(b)' /\ (batch'[b].rev = outRev' => cachedRev' = outRev')
    BY <1>0, <1>5, <2>2, AgentStepFrame DEF CacheIsSound, KeepsRow
  <2>3. snap' = snap /\ gw' = gw
    BY <1>5, AgentStepFrame DEF AgentStep, AgentApply, AgentFinalize, AgentEnds, ExternalAlone, rowVars
  <2>4. ASSUME gw = "install", NEW b \in snap.known
        PROVE  b \in Batches /\ Exists(b)' /\ (batch'[b].rev = outRev' => snap.rev = outRev')
    BY <1>0, <1>5, <2>4, AgentStepFrame DEF CacheIsSound, SnapIsSound, KeepsRow
  <2>5. gw = "install" => SnapIsSound'
    BY <1>0, <2>1, <2>3, <2>4 DEF CacheIsSound, SnapIsSound
  <2> QED
    BY <1>0, <1>5, <2>1, <2>2, <2>3, <2>5, AgentStepFrame DEF CacheIsSound
<1>6. CASE RecStep
  <2>1. snap' = snap
    BY <1>6 DEF RecStep, SavesRun
  <2> QED
    BY <1>1, <1>s, <1>6, <2>1, RecStepFrame, SameBatchKeeps, RowsKeepNames DEF LiveExec
<1>7. CASE Crash
  <2>1. /\ UNCHANGED <<batch, outRev, known, cachedRev>> /\ phase' = "down" /\ gw' = "idle"
        /\ \A b \in Batches : ~LiveExec(b)'
    BY <1>7 DEF Crash, CoordCrash, DropVolatile, storeVars, cacheVars, LiveExec
  <2> QED
    BY <1>1, <2>1, SameBatchKeeps, RowsKeepNames
<1>8. CASE Boot
  <2>1. /\ UNCHANGED <<batch, outRev, task, eff, gw>> /\ LoadCache /\ phase = "down"
    BY <1>8 DEF Boot, CoordBoot, storeVars, coordVars, agentVars, gwVars
  <2>2. gw = "idle"
    BY <2>1 DEF RunsInv, DownIsQuiet
  <2> QED
    BY <1>2, <2>1, <2>2, SameBatchKeeps, RowsKeepNames, LiveIsKnown DEF LiveExec
<1>9. ASSUME NEW o \in Batches, BootNormalize(o)
      PROVE  CacheIsSound'
  <2>1. /\ KeepsNames /\ UNCHANGED <<known, cachedRev, task, eff, gw>> /\ phase = "boot"
        /\ \A b \in Batches : batch'[b].requested = batch[b].requested
    BY <1>9, NormalizeFrame DEF BootNormalize, RunsInv, agentVars, gwVars
  <2>2. gw = "idle"
    BY <2>1 DEF RunsInv, DownIsQuiet
  <2> QED
    BY <1>1, <2>1, <2>2 DEF LiveExec
<1>10. CASE BootRecover
  <2>1. \A b \in Batches : Exists(b) => b \in known
    BY <1>0, <1>10, RecoverFrame DEF CacheIsSound
  <2> QED
    BY <1>1, <1>10, <2>1, RecoverFrame, RowsKeepNames
<1>11. CASE UNCHANGED runsVars
  <2>1. UNCHANGED <<batch, outRev, known, cachedRev, phase, task, eff, gw, snap>>
    BY <1>11 DEF runsVars, allCoordVars, storeVars, cacheVars, coordVars, agentVars, gwVars, rowVars
  <2> QED
    BY <1>1, <1>s, <2>1, SameBatchKeeps, RowsKeepNames DEF LiveExec
<1> QED
  BY <1>3, <1>4, <1>5, <1>6, <1>7, <1>8, <1>9, <1>10, <1>11 DEF AgentNext, AgentCoordStep

\* What the executor does to the row of its batch: it claims it, asks for a
\* refinement, closes it as answered, closes it, or finds nothing to do.
LEMMA EffRows ==
    ASSUME RunsInv, NEW b \in Batches, EffClaim(b) \/ EffBind(b) \/ EffRequest(b) \/ EffMark(b)
    PROVE  /\ \A o \in Batches \ {b} : KeepsRow(o)
           /\ batch'[b].status = batch[b].status /\ batch'[b].passed = batch[b].passed
           /\ batch[b].requested => batch'[b].requested
           /\ batch[b].bound => batch'[b].bound
           /\ \/ KeepsRow(b) /\ eff'[b] = "idle"
              \/ /\ EffClaim(b) /\ Settled(b) /\ eff'[b] = "latest" /\ batch'[b].effects # None
                 /\ batch'[b].requested = batch[b].requested /\ batch'[b].applied = batch[b].applied
              \/ /\ EffRequest(b) /\ Rejected(b) /\ eff'[b] = "enqueue" /\ batch'[b].requested
                 /\ batch'[b].effects = batch[b].effects /\ batch'[b].applied = batch[b].applied
              \/ /\ EffBind(b) /\ Rejected(b) /\ eff'[b] = "idle" /\ batch[b].requested
                 /\ batch'[b].bound /\ batch'[b].applied
              \/ /\ EffMark(b) /\ Settled(b) /\ eff'[b] = "idle"
                 /\ batch'[b].requested = batch[b].requested /\ batch'[b].applied
<1>0. /\ eff \in [Batches -> EffPC]
      /\ batch \in [Batches -> BatchRecord] /\ batch[b] \in BatchRecord
  BY DEF RunsInv, CoordInv, CoordTypeOK, StoreTypeOK
<1>1. \A o \in Batches : batch'[o] = batch[o] => KeepsRow(o)
  BY DEF KeepsRow, Exists, Unsettled, Settled
<1>2. ASSUME NEW new, WriteBatch(b, new)
      PROVE  batch'[b] = new /\ \A o \in Batches \ {b} : KeepsRow(o)
  BY <1>0, <1>1, <1>2 DEF WriteBatch
<1>3. ASSUME NEW pc, GoEff(b, pc) PROVE eff'[b] = pc
  BY <1>0, <1>3 DEF GoEff
<1>4. CASE UNCHANGED storeVars /\ GoEff(b, "idle")
  BY <1>1, <1>3, <1>4 DEF storeVars, KeepsRow
<1>5. CASE EffClaim(b) /\ CanClaimEffects(b)
  <2>1. PICK t \in Tokens : ClaimEffects(b, t)
    BY <1>5 DEF EffClaim
  <2>2. t # None /\ Settled(b) /\ GoEff(b, "latest")
    BY <1>5, StoreAssumption DEF EffClaim, CanClaimEffects
  <2>3. batch'[b] = [batch[b] EXCEPT !.effects = t] /\ \A o \in Batches \ {b} : KeepsRow(o)
    BY <1>2, <2>1 DEF ClaimEffects
  <2> QED
    BY <1>0, <1>3, <1>5, <2>2, <2>3 DEF BatchRecord
<1>6. CASE EffRequest(b)
  <2>1. /\ Rejected(b) /\ GoEff(b, "enqueue")
        /\ batch'[b] = [batch[b] EXCEPT !.requested = TRUE] /\ \A o \in Batches \ {b} : KeepsRow(o)
    BY <1>2, <1>6 DEF EffRequest, RequestRefinement
  <2> QED
    BY <1>0, <1>3, <1>6, <2>1 DEF BatchRecord
<1>7. CASE EffBind(b) /\ turn # None /\ ~batch[b].applied
  <2>1. /\ Rejected(b) /\ batch[b].requested /\ GoEff(b, "idle")
        /\ batch'[b] = [batch[b] EXCEPT !.bound = TRUE, !.effects = None, !.applied = TRUE]
        /\ \A o \in Batches \ {b} : KeepsRow(o)
    BY <1>2, <1>7 DEF EffBind, BindRefinement
  <2> QED
    BY <1>0, <1>3, <1>7, <2>1 DEF BatchRecord
<1>8. CASE EffMark(b) /\ ~batch[b].applied
  <2>1. /\ Settled(b) /\ GoEff(b, "idle")
        /\ batch'[b] = [batch[b] EXCEPT !.effects = None, !.applied = TRUE]
        /\ \A o \in Batches \ {b} : KeepsRow(o)
    BY <1>2, <1>8 DEF EffMark, MarkApplied
  <2> QED
    BY <1>0, <1>3, <1>8, <2>1 DEF BatchRecord
<1> QED
  BY <1>4, <1>5, <1>6, <1>7, <1>8 DEF EffClaim, EffBind, EffMark

\* Cancelling, crashing and starting again decide nothing about a batch: they
\* leave what is in memory as it is, or leave nothing there.
LEMMA EnvStepFrame ==
    ASSUME RunsInv, [AgentNext]_runsVars,
           RecStep \/ Crash \/ Boot \/ (\E b \in Batches : BootNormalize(b)) \/ UNCHANGED runsVars
    PROVE  /\ KeepsNames /\ UNCHANGED <<turn, madeBy, iteration>>
           /\ \A b \in Batches : /\ batch'[b].requested = batch[b].requested
                                 /\ batch'[b].applied = batch[b].applied
                                 /\ batch'[b].bound = batch[b].bound
                                 /\ Unsettled(b)' = Unsettled(b)
           /\ active' => active
           /\ \/ /\ RunTerminal => RunTerminal'
                 /\ KeepsRows /\ UNCHANGED <<task, eff, number, known, cachedRev, spawned, starts, gw, gwTurn, todo>>
                 /\ \A t \in Turns : ext'[t] = "running" => ext[t] = "running"
              \/ /\ \A b \in Batches : task'[b] = "idle" /\ eff'[b] = "idle"
                 /\ gw' = "idle" /\ ~active' /\ ~starts' /\ spawned' = 0 /\ todo' = {} /\ gwTurn' = None
                 /\ ~Working'
<1>1. CASE RecStep
  BY <1>1, RecStepFrame, SameBatchKeeps, RowsKeepNames DEF KeepsRows, KeepsRow
<1>2. CASE UNCHANGED runsVars
  <2>1. UNCHANGED <<batch, outRev, turn, madeBy, iteration, number, run, active, task, eff, known, cachedRev,
                    spawned, starts, gw, gwTurn, todo, ext>>
    BY <1>2 DEF runsVars, allCoordVars, storeVars, coordVars, cacheVars, agentVars, gwVars, extVars
  <2> QED
    BY <2>1, SameBatchKeeps, RowsKeepNames DEF KeepsRows, KeepsRow, RunTerminal
<1>3. CASE Crash \/ Boot \/ \E b \in Batches : BootNormalize(b)
  <2>1. phase' # "up"
    BY <1>3, NormalizeFrame DEF Crash, Boot, BootNormalize, CoordCrash, CoordBoot, RunsInv
  <2>2. /\ \A b \in Batches : task'[b] = "idle" /\ eff'[b] = "idle"
        /\ gw' = "idle" /\ ~starts' /\ spawned' = 0 /\ \A t \in Turns : ext'[t] # "running"
    BY <2>1, CoordPart, DownIsQuietStep DEF CoordInv, QuietUnlessUp, DownIsQuiet
  <2>3. ~active' /\ todo' = {} /\ gwTurn' = None /\ ~Working'
    BY <2>2, OneExecutionStep DEF OneExecution, Working, InFlight
  <2>4. CASE Crash \/ Boot
    <3>1. UNCHANGED <<batch, outRev, turn, madeBy, iteration>>
      BY <2>4 DEF Crash, Boot, CoordCrash, CoordBoot, storeVars, coordVars, agentVars, extVars
    <3> QED
      BY <2>2, <2>3, <3>1, SameBatchKeeps, RowsKeepNames DEF KeepsRows, KeepsRow
  <2>5. ASSUME NEW b \in Batches, BootNormalize(b)
        PROVE  /\ KeepsNames /\ UNCHANGED <<turn, madeBy, iteration>>
               /\ \A o \in Batches : /\ batch'[o].requested = batch[o].requested
                                     /\ batch'[o].applied = batch[o].applied
                                     /\ batch'[o].bound = batch[o].bound
                                     /\ Unsettled(o)' = Unsettled(o)
    BY <2>5, NormalizeFrame DEF BootNormalize, agentVars, extVars, RunsInv
  <2> QED
    BY <1>3, <2>2, <2>3, <2>4, <2>5
<1> QED
  BY <1>1, <1>2, <1>3

\* The gateway steps only while a modelling turn is due or under way.
LEMMA GwWorks ==
    ASSUME RunsInv, GwStep
    PROVE  InFlight /\ Working /\ \A b \in Batches : eff[b] \notin Acting
<1>1. gw # "idle" \/ starts \/ spawned > 0
  BY DEF GwStep, GwAct, GwStart, GwCheck, GwBegin, GwLaunch, GwLaunchFails, GwNothingToConfirm, GwTimeout, GwOk,
     GwFinish, GwErr, GwCleanup, GwConfirmRefused, GwRun, GwQueue, GwComplete, GwFailRun, GwHistory,
     GwConnectionLost, GwBind, GwMeta, GwProgress, SavesProgress, GwLoad, GwInstall, GwTurnEnds, GwRefine, GwConfirm, GwEnqueue
<1>2. InFlight /\ Working
  BY <1>1 DEF Working, InFlight
<1> QED
  BY <1>2, ActingAlone

\* What was asked for stays asked for.
LEMMA RequestedStays ==
    ASSUME RunsInv, [AgentNext]_runsVars, NEW b \in Batches, batch[b].requested
    PROVE  batch'[b].requested
<1>0. Exists(b)
  BY LiveIsKnown
<1>1. CASE CoordStep /\ UNCHANGED agentVars
  <2>1. PICK o \in Batches : CheckExec(o) \/ TaskStep(o) \/ EffStep(o)
    BY <1>1 DEF CoordStep
  <2>2. KeepsRow(b) \/ (b = o /\ (TaskSettle(b) \/ EffClaim(b) \/ EffBind(b) \/ EffRequest(b) \/ EffMark(b)))
    BY <2>1, CoordStepFrame DEF RunsInv
  <2> QED
    BY <2>2, EffRows, SettleFrame DEF KeepsRow
<1>2. CASE GwStep
  <2>1. KeepsRows \/ \E p \in todo : GwConfirm(p[1], p[2])
    BY <1>2, GwStepFrame
  <2>2. ASSUME NEW p \in todo, GwConfirm(p[1], p[2]) PROVE batch'[b].requested
    BY <2>2, ConfirmBinds DEF KeepsRow
  <2> QED
    BY <2>1, <2>2 DEF KeepsRows, KeepsRow
<1>3. CASE AgentStep
  BY <1>0, <1>3, AgentStepFrame DEF KeepsRow
<1>4. CASE BootRecover
  BY <1>4, RecoverFrame
<1>5. CASE RecStep \/ Crash \/ Boot \/ (\E o \in Batches : BootNormalize(o)) \/ UNCHANGED runsVars
  BY <1>5, EnvStepFrame
<1> QED
  BY <1>1, <1>2, <1>3, <1>4, <1>5 DEF AgentNext, AgentCoordStep

\* An executor finds its batch to be the newest when it looks, and remains right:
\* nothing makes a newer one until a turn works, and then nobody acts any more.
LEMMA ExecutorsOnLatestStep ==
    ASSUME RunsInv, [AgentNext]_runsVars
    PROVE  ExecutorsOnLatest'
<1> SUFFICES ASSUME NEW b \in Batches
             PROVE  /\ task'[b] # "idle" => Unsettled(b)'
                    /\ eff'[b] \in Acting => IsLatest(b)' /\ batch'[b].effects # None
                    /\ eff'[b] = "latest" /\ LatestBatch(b)' => batch'[b].effects # None
  BY DEF ExecutorsOnLatest
<1> DEFINE Goal == /\ task'[b] # "idle" => Unsettled(b)'
                   /\ eff'[b] \in Acting => IsLatest(b)' /\ batch'[b].effects # None
                   /\ eff'[b] = "latest" /\ LatestBatch(b)' => batch'[b].effects # None
<1>0. /\ task[b] # "idle" => Unsettled(b)
      /\ eff[b] \in Acting => IsLatest(b) /\ batch[b].effects # None
      /\ eff[b] = "latest" /\ LatestBatch(b) => batch[b].effects # None
  BY DEF RunsInv, ExecutorsOnLatest
<1>1. ASSUME KeepsNames, cachedRev' = cachedRev PROVE IsLatest(b)' <=> IsLatest(b)
  BY <1>1, NamesKeepLatest DEF IsLatest, KeepsNames
<1>2. ASSUME KeepsRow(b), task'[b] # "idle" => task[b] # "idle" \/ Unsettled(b),
             eff'[b] = eff[b] \/ eff'[b] \in {"idle", "claim"},
             LatestBatch(b)' => LatestBatch(b), eff[b] \in Acting => IsLatest(b)'
      PROVE  Goal
  BY <1>0, <1>2 DEF KeepsRow, Acting
<1>3. CASE CoordStep /\ UNCHANGED agentVars
  <2>1. PICK o \in Batches : CheckExec(o) \/ TaskStep(o) \/ EffStep(o)
    BY <1>3 DEF CoordStep
  <2>2. /\ KeepsNames /\ cachedRev' = cachedRev
        /\ task'[b] # "idle" => task[b] # "idle"
        /\ LatestBatch(b)' => LatestBatch(b)
        /\ IsLatest(b)' <=> IsLatest(b)
    BY <1>1, <2>1, CoordStepFrame, NamesKeepLatest DEF RunsInv
  <2>3. CASE KeepsRow(b) /\ eff'[b] = eff[b]
    BY <1>0, <1>2, <2>2, <2>3
  <2>4. CASE TaskSettle(b)
    BY <2>4, SettleFrame DEF Acting
  <2>5. CASE EffClaim(b) \/ EffBind(b) \/ EffRequest(b) \/ EffMark(b)
    <3>1. Settled(b) => task'[b] = "idle"
      BY <1>0, <2>2 DEF Settled, Unsettled
    <3>2. CASE KeepsRow(b) /\ eff'[b] = "idle"
      BY <1>0, <1>2, <2>2, <3>2
    <3>3. CASE EffRequest(b) /\ eff'[b] = "enqueue" /\ batch'[b].effects = batch[b].effects
      BY <2>2, <3>1, <3>3, ActingSteps, ActingAlone
    <3>4. CASE Settled(b) /\ eff'[b] \in {"idle", "latest"} /\ (eff'[b] = "latest" => batch'[b].effects # None)
      BY <3>1, <3>4 DEF Acting
    <3> QED
      BY <2>5, <3>2, <3>3, <3>4, EffRows DEF Rejected, Settled
  <2>6. CASE EffLatest(b)
    <3>1. KeepsRow(b)
      BY <2>6, SameBatchKeeps DEF EffLatest, storeVars, KeepsRows
    <3>2. eff[b] = "latest" /\ eff'[b] = IF IsLatest(b) THEN "status" ELSE "mark"
      BY <2>6 DEF EffLatest, GoEff, RunsInv, CoordInv, CoordTypeOK
    <3> QED
      BY <1>0, <2>2, <3>1, <3>2 DEF KeepsRow, Acting, IsLatest
  <2>7. CASE \/ EffStatus(b) \/ EffFail(b) \/ EffIterate(b) \/ EffSave(b) \/ EffComplete(b)
             \/ EffRefine(b) \/ EffPrepare(b) \/ EffEnqueue(b)
    <3>1. UNCHANGED <<batch, outRev>>
      BY <2>7 DEF EffStatus, EffFail, EffIterate, EffSave, EffComplete, EffRefine,
         EffPrepare, EffEnqueue, storeVars, SetTurn
    <3>2. task[b] = "idle" /\ IsLatest(b) /\ batch[b].effects # None
      BY <2>7, ActingSteps, ActingAlone
    <3> QED
      BY <2>2, <3>1, <3>2
  <2> QED
    BY <1>2, <2>1, <2>2, <2>3, <2>4, <2>5, <2>6, <2>7, CoordStepFrame, CoordStepCases, <1>0 DEF RunsInv
<1>4. CASE GwStep
  <2>1. eff[b] \notin Acting
    BY <1>4, GwWorks
  <2>2. LatestBatch(b)' => LatestBatch(b)
    BY <1>4, GwStepFrame, NamesKeepLatest
  <2>3. CASE GwEnqueue
    BY <1>2, <1>4, <2>1, <2>2, <2>3, EnqueueFrame DEF KeepsRows
  <2>4. CASE ~GwEnqueue
    <3>1. eff' = eff /\ task' = task
      BY <1>4, <2>4, GwStepFrame
    <3>2. CASE KeepsRow(b)
      BY <1>2, <2>1, <2>2, <3>1, <3>2
    <3>3. CASE ~KeepsRow(b)
      <4>1. ~LiveExec(b)
        BY <1>4, <3>3, GwStepFrame, ConfirmBinds, TodoIsNewest DEF KeepsRows
      <4> QED
        BY <3>1, <4>1 DEF LiveExec, Acting
    <3> QED
      BY <3>2, <3>3
  <2> QED
    BY <2>3, <2>4
<1>5. CASE AgentStep
  <2>1. eff'[b] = eff[b] /\ task'[b] = task[b] /\ Working
    BY <1>5, AgentStepFrame
  <2>2. CASE LiveExec(b)
    <3>1. eff[b] \notin Acting /\ Exists(b)
      BY <2>1, <2>2, ActingAlone, LiveIsKnown
    <3> QED
      BY <1>2, <1>5, <2>1, <3>1, AgentStepFrame
  <2> QED
    BY <2>1, <2>2 DEF LiveExec, Acting
<1>6. CASE BootRecover
  <2>1. KeepsRow(b) /\ eff'[b] \in {"idle", "claim"} /\ (task'[b] # "idle" => Unsettled(b))
    BY <1>6, RecoverFrame DEF KeepsRows
  <2> QED
    BY <2>1 DEF KeepsRow, Acting
<1>7. CASE RecStep \/ Crash \/ Boot \/ (\E o \in Batches : BootNormalize(o)) \/ UNCHANGED runsVars
  <2>1. CASE KeepsRow(b) /\ UNCHANGED <<task, eff, cachedRev>>
    BY <1>0, <1>1, <1>2, <1>7, <2>1, EnvStepFrame, NamesKeepLatest
  <2>2. CASE task'[b] = "idle" /\ eff'[b] = "idle"
    BY <2>2 DEF Acting
  <2> QED
    BY <1>7, <2>1, <2>2, EnvStepFrame DEF KeepsRows
<1> QED
  BY <1>3, <1>4, <1>5, <1>6, <1>7 DEF AgentNext, AgentCoordStep

\* A turn becomes due when the executor of the newest batch has asked for it and
\* is gone; tasks and executors are started when no turn is due or under way.
LEMMA OutdatedWhileWorkingStep ==
    ASSUME RunsInv, [AgentNext]_runsVars
    PROVE  OutdatedWhileWorking'
<1> SUFFICES ASSUME NEW b \in Batches, Working', LiveExec(b)'
             PROVE  ~LatestBatch(b)'
  BY DEF OutdatedWhileWorking
<1>1. CASE Working /\ LiveExec(b)
  <2>1. ~LatestBatch(b) /\ Exists(b)
    BY <1>1, LiveIsKnown DEF RunsInv, OutdatedWhileWorking
  <2> QED
    BY <2>1, BatchesStay
<1>2. CASE CoordStep /\ UNCHANGED agentVars
  <2>1. PICK o \in Batches : CheckExec(o) \/ TaskStep(o) \/ EffStep(o)
    BY <1>2 DEF CoordStep
  <2>2. LiveExec(b)
    BY <2>1, CoordStepFrame DEF RunsInv, LiveExec
  <2>3. CASE EffEnqueue(o)
    <3>1. b # o
      <4>1. task[o] = "idle" /\ eff'[o] = "idle"
        BY <2>3, ActingSteps, ActingAlone DEF EffEnqueue, GoEff, RunsInv, CoordInv, CoordTypeOK
      <4> QED
        BY <2>1, <4>1, CoordStepFrame DEF RunsInv, LiveExec
    <3>2. ~LatestBatch(b)
      BY <2>2, <2>3, <3>1, ActingSteps, ActingAlone, LiveIsKnown
    <3> QED
      BY <2>2, <3>2, BatchesStay, LiveIsKnown
  <2>4. CASE ~EffEnqueue(o)
    <3>1. UNCHANGED <<starts, spawned, gw, ext>>
      BY <1>2, <2>1, <2>4, CoordStepFrame DEF agentVars, gwVars, extVars, RunsInv
    <3> QED
      BY <1>1, <2>2, <3>1 DEF Working, InFlight
  <2> QED
    BY <2>3, <2>4
<1>3. CASE GwStep
  <2>1. ~GwEnqueue
    BY <1>3, EnqueueFrame
  <2>2. LiveExec(b)
    BY <1>3, <2>1, GwStepFrame DEF LiveExec
  <2> QED
    BY <1>1, <1>3, <2>2, GwWorks
<1>4. CASE AgentStep
  BY <1>1, <1>4, AgentStepFrame DEF LiveExec
<1>5. CASE BootRecover
  <2>1. starts'
    BY <1>5, RecoverFrame DEF Working, InFlight
  <2> QED
    BY <1>5, <2>1, RecoverFrame
<1>6. CASE RecStep \/ Crash \/ Boot \/ (\E o \in Batches : BootNormalize(o)) \/ UNCHANGED runsVars
  BY <1>1, <1>6, EnvStepFrame DEF LiveExec, Working, InFlight
<1> QED
  BY <1>2, <1>3, <1>4, <1>5, <1>6 DEF AgentNext, AgentCoordStep

\* The path an executor has taken was chosen by the verdict, which stays; and
\* what has ended the run under its eyes stays until a turn works.
LEMMA ExecutorsFollowVerdictStep ==
    ASSUME RunsInv, [AgentNext]_runsVars
    PROVE  ExecutorsFollowVerdict'
<1> SUFFICES ASSUME NEW b \in Batches
             PROVE  /\ eff'[b] = "fail" => batch'[b].status = "failed"
                    /\ eff'[b] = "complete" => batch'[b].passed /\ Settled(b)'
                    /\ eff'[b] \in {"enqueue", "bind"} => batch'[b].requested
                    /\ eff'[b] = "mark" /\ Rejected(b)' /\ LatestBatch(b)' /\ ~batch'[b].applied => RunTerminal'
  BY DEF ExecutorsFollowVerdict
<1> DEFINE Goal == /\ eff'[b] = "fail" => batch'[b].status = "failed"
                   /\ eff'[b] = "complete" => batch'[b].passed /\ Settled(b)'
                   /\ eff'[b] \in {"enqueue", "bind"} => batch'[b].requested
                   /\ eff'[b] = "mark" /\ Rejected(b)' /\ LatestBatch(b)' /\ ~batch'[b].applied => RunTerminal'
<1>0. /\ eff[b] = "fail" => batch[b].status = "failed"
      /\ eff[b] = "complete" => batch[b].passed /\ Settled(b)
      /\ eff[b] \in {"enqueue", "bind"} => batch[b].requested
      /\ eff[b] = "mark" /\ Rejected(b) /\ LatestBatch(b) /\ ~batch[b].applied => RunTerminal
      /\ eff \in [Batches -> EffPC] /\ run \in RunRecord
  BY DEF RunsInv, CoordInv, CoordTypeOK, ExecutorsFollowVerdict
<1>1. ASSUME eff[b] \notin {"idle", "claim"}
      PROVE  /\ Settled(b) /\ Exists(b) /\ LiveExec(b)
             /\ batch'[b].status = batch[b].status /\ batch'[b].passed = batch[b].passed
             /\ LatestBatch(b)' => LatestBatch(b)
             /\ LatestBatch(b) => IsLatest(b)
             /\ ~batch'[b].applied => ~batch[b].applied
             /\ Rejected(b)' => Rejected(b)
  <2>1. Settled(b) /\ Exists(b) /\ LiveExec(b)
    BY <1>1 DEF RunsInv, CoordInv, StoreInv, ExecutorOwns, EffectsFollowVerdict, LiveExec, Settled, Exists
  <2> QED
    BY <2>1, BatchesStay, LiveIsKnown DEF Rejected
<1>2. ASSUME eff'[b] = eff[b] \/ eff'[b] \in {"idle", "claim"},
             eff[b] = "mark" /\ LatestBatch(b) /\ RunTerminal => RunTerminal'
      PROVE  Goal
  <2>1. CASE eff'[b] \in {"idle", "claim"}
    BY <2>1
  <2>2. CASE eff'[b] = eff[b] /\ eff[b] \notin {"idle", "claim"}
    BY <1>0, <1>1, <1>2, <2>2, RequestedStays DEF Settled
  <2> QED
    BY <1>2, <2>1, <2>2
<1>3. CASE CoordStep /\ UNCHANGED agentVars
  <2>1. PICK o \in Batches : CheckExec(o) \/ TaskStep(o) \/ EffStep(o)
    BY <1>3 DEF CoordStep
  <2>2. ASSUME eff[b] = "mark", LatestBatch(b), RunTerminal PROVE RunTerminal'
    <3>1. ~EffPrepare(o)
      <4>1. EffPrepare(o) => o = b /\ eff[o] = "prepare"
        BY <1>1, <2>2, ActingSteps, ActingAlone DEF EffPrepare
      <4> QED
        BY <2>2, <4>1
    <3>2. run' = run \/ EffFail(o) \/ EffComplete(o)
      BY <2>1, <3>1, CoordStepFrame DEF RunsInv
    <3> QED
      BY <1>0, <2>2, <3>2, RunEnds DEF EffFail, EffComplete
  <2>3. CASE eff'[b] = eff[b] \/ TaskSettle(b)
    BY <1>2, <2>2, <2>3, SettleFrame
  <2>4. CASE EffClaim(b) \/ EffBind(b) \/ EffRequest(b) \/ EffMark(b)
    BY <2>4, EffRows
  <2>5. CASE EffLatest(b)
    <3>1. eff[b] = "latest" /\ eff'[b] = IF IsLatest(b) THEN "status" ELSE "mark"
      BY <1>0, <2>5 DEF EffLatest, GoEff
    <3> QED
      BY <1>1, <3>1
  <2>6. CASE EffStatus(b)
    <3>1. /\ eff[b] = "status" /\ run' = run
          /\ eff'[b] = IF RunTerminal THEN "mark"
                       ELSE IF batch[b].status = "failed" THEN "fail" ELSE "iterate"
      BY <1>0, <2>6 DEF EffStatus, GoEff
    <3> QED
      BY <1>1, <3>1 DEF RunTerminal
  <2>7. CASE EffFail(b) \/ EffComplete(b)
    <3>1. eff'[b] = "mark" /\ RunTerminal'
      BY <1>0, <2>7, SetRunStatus DEF EffFail, EffComplete, GoEff, RunTerminal
    <3> QED
      BY <3>1
  <2>8. CASE EffIterate(b) \/ EffSave(b)
    <3>1. /\ eff[b] \in {"iterate", "save"}
          /\ eff'[b] \in {"idle", "save"} \/ eff'[b] = AfterIteration(b)
      BY <1>0, <2>8 DEF EffIterate, EffSave, GoEff
    <3> QED
      BY <1>1, <3>1 DEF AfterIteration, Settled
  <2>9. CASE EffRefine(b)
    <3>1. /\ eff[b] = "refine" /\ eff'[b] \in {"prepare", "bind", "mark", "enqueue"}
          /\ eff'[b] \in {"bind", "enqueue"} => batch[b].requested
          /\ eff'[b] # "mark"
      BY <1>0, <2>9 DEF EffRefine, GoEff
    <3> QED
      BY <3>1, RequestedStays
  <2>10. CASE EffPrepare(b) \/ EffEnqueue(b)
    <3>1. eff'[b] \in {"idle", "request"}
      BY <1>0, <2>10 DEF EffPrepare, EffEnqueue, GoEff
    <3> QED
      BY <3>1
  <2> QED
    BY <2>1, <2>3, <2>4, <2>5, <2>6, <2>7, <2>8, <2>9, <2>10, CoordStepFrame, CoordStepCases DEF RunsInv
<1>4. CASE GwStep
  <2>1. eff[b] = "mark" => ~LatestBatch(b)
    BY <1>1, <1>4, GwWorks DEF RunsInv, OutdatedWhileWorking
  <2>2. eff'[b] = eff[b] \/ eff'[b] \in {"idle", "claim"}
    BY <1>4, GwStepFrame, EnqueueFrame
  <2> QED
    BY <1>2, <2>1, <2>2
<1>5. CASE AgentStep
  BY <1>2, <1>5, AgentStepFrame DEF RunTerminal
<1>6. CASE BootRecover
  BY <1>2, <1>6, RecoverFrame
<1>7. CASE RecStep \/ Crash \/ Boot \/ (\E o \in Batches : BootNormalize(o)) \/ UNCHANGED runsVars
  <2>1. CASE eff'[b] = "idle"
    BY <2>1
  <2>2. CASE eff'[b] # "idle"
    <3>1. eff'[b] = eff[b] /\ (RunTerminal => RunTerminal')
      BY <1>7, <2>2, EnvStepFrame
    <3> QED
      BY <1>2, <3>1
  <2> QED
    BY <2>1, <2>2
<1> QED
  BY <1>3, <1>4, <1>5, <1>6, <1>7 DEF AgentNext, AgentCoordStep

\* The number an executor has computed is used by nobody else: who could use it
\* would act on the same batch.
LEMMA NumberIsNextStep ==
    ASSUME RunsInv, [AgentNext]_runsVars
    PROVE  NumberIsNext'
<1> SUFFICES ASSUME NEW b \in Batches, NEW o \in Batches, eff'[b] = "save"
             PROVE  iteration'[o] < number'[b]
  BY DEF NumberIsNext
<1>0. /\ eff[b] = "save" => iteration[o] < number[b]
      /\ iteration \in [Batches -> Nat] /\ number \in [Batches -> Nat] /\ eff \in [Batches -> EffPC]
  BY DEF RunsInv, CoordInv, CoordTypeOK, NumberIsNext
<1>1. CASE eff[b] = "save" /\ UNCHANGED <<iteration, number>>
  BY <1>0, <1>1
<1>2. CASE CoordStep /\ UNCHANGED agentVars
  <2>1. PICK a \in Batches : CheckExec(a) \/ TaskStep(a) \/ EffStep(a)
    BY <1>2 DEF CoordStep
  <2>2. CASE CheckExec(a) \/ TaskStep(a)
    <3>1. UNCHANGED <<iteration, number>>
      BY <2>2 DEF CheckExec, TaskStep
    <3>2. eff'[b] = eff[b]
      <4>1. CASE b # a
        BY <2>1, <4>1, CoordStepFrame DEF RunsInv
      <4>2. CASE b = a
        BY <2>2, <4>2, SettleFrame DEF CheckExec, TaskStep, TaskJoin, TaskClaim
      <4> QED
        BY <4>1, <4>2
    <3> QED
      BY <1>1, <3>1, <3>2
  <2>3. CASE EffStep(a) /\ b # a
    <3>1. eff[b] = "save"
      BY <2>1, <2>3, CoordStepFrame DEF RunsInv
    <3>2. eff[a] \notin Acting
      BY <2>3, <3>1, ActingAlone DEF Acting
    <3>3. EffClaim(a) \/ EffLatest(a) \/ EffMark(a)
      BY <2>3, <3>2, ActingSteps DEF EffStep
    <3> QED
      BY <1>1, <3>1, <3>3 DEF EffClaim, EffLatest, EffMark
  <2>4. CASE EffStep(a) /\ b = a
    <3>1. EffIterate(b)
      BY <1>0, <2>4 DEF EffStep, EffClaim, EffLatest, EffStatus, EffFail, EffIterate, EffSave,
         EffComplete, EffRefine, EffBind, EffPrepare, EffRequest, EffEnqueue, EffMark, GoEff, AfterIteration
    <3>2. iteration' = iteration /\ \E n \in Iterations : LastIteration(n) /\ number' = [number EXCEPT ![b] = n + 1]
      BY <1>0, <3>1 DEF EffIterate, GoEff, AfterIteration
    <3>3. PICK n \in Iterations : LastIteration(n) /\ number' = [number EXCEPT ![b] = n + 1]
      BY <3>2
    <3>4. n \in Nat /\ iteration[o] \in Nat /\ iteration[o] <= n
      BY <1>0, <3>3 DEF LastIteration, Iterations
    <3>5. number'[b] = n + 1
      BY <1>0, <3>3
    <3> QED
      BY <3>2, <3>4, <3>5
  <2> QED
    BY <2>1, <2>2, <2>3, <2>4
<1>3. CASE GwStep
  BY <1>1, <1>3, GwStepFrame, EnqueueFrame
<1>4. CASE AgentStep
  BY <1>1, <1>4, AgentStepFrame
<1>5. CASE BootRecover
  BY <1>5, RecoverFrame
<1>6. CASE RecStep \/ Crash \/ Boot \/ (\E a \in Batches : BootNormalize(a)) \/ UNCHANGED runsVars
  BY <1>1, <1>6, EnvStepFrame
<1> QED
  BY <1>2, <1>3, <1>4, <1>5, <1>6 DEF AgentNext, AgentCoordStep

\* A batch without a task and an executor is left as it is by the coordinator.
LEMMA IdleKeeps ==
    ASSUME CoordInv, NEW b \in Batches, NEW o \in Batches,
           CheckExec(o) \/ TaskStep(o) \/ EffStep(o), ~LiveExec(b)
    PROVE  KeepsRow(b)
<1>1. CASE b = o /\ (TaskSettle(o) \/ EffClaim(o) \/ EffBind(o) \/ EffRequest(o) \/ EffMark(o))
  BY <1>1 DEF TaskSettle, EffClaim, EffBind, EffRequest, EffMark, LiveExec
<1> QED
  BY <1>1, CoordStepFrame

\* Only the executor of a batch asks for its refinement,
LEMMA AskedBy ==
    ASSUME RunsInv, NEW b \in Batches, NEW o \in Batches,
           CheckExec(o) \/ TaskStep(o) \/ EffStep(o), batch'[b].requested
    PROVE  batch[b].requested \/ EffRequest(b)
<1>1. CASE KeepsRow(b)
  BY <1>1 DEF KeepsRow
<1>2. CASE TaskSettle(b)
  BY <1>2, SettleFrame
<1>3. CASE EffClaim(b) \/ EffBind(b) \/ EffRequest(b) \/ EffMark(b)
  BY <1>3, EffRows DEF KeepsRow
<1> QED
  BY <1>1, <1>2, <1>3, CoordStepFrame DEF RunsInv

\* and opens it by that.
LEMMA OpenedBy ==
    ASSUME RunsInv, NEW b \in Batches, NEW o \in Batches,
           CheckExec(o) \/ TaskStep(o) \/ EffStep(o), Open(b)'
    PROVE  Open(b) \/ EffRequest(b)
<1>1. CASE KeepsRow(b)
  BY <1>1 DEF KeepsRow, Open
<1>2. CASE TaskSettle(b)
  BY <1>2, SettleFrame DEF Open
<1>3. CASE EffClaim(b) \/ EffBind(b) \/ EffRequest(b) \/ EffMark(b)
  BY <1>3, EffRows DEF KeepsRow, Open
<1> QED
  BY <1>1, <1>2, <1>3, CoordStepFrame DEF RunsInv

\* Nothing replaces a model whose refinement is open: the executor that asked
\* for it, or the turn that confirms it, owns it until the turn is bound.
LEMMA OpenIsLatestStep ==
    ASSUME RunsInv, [AgentNext]_runsVars
    PROVE  OpenIsLatest'
<1> SUFFICES ASSUME NEW b \in Batches, Open(b)'
             PROVE  LatestBatch(b)' /\ (batch'[b].effects # None \/ ~Working')
  BY DEF OpenIsLatest
<1>0. Open(b) => LatestBatch(b) /\ Exists(b) /\ (batch[b].effects # None \/ ~Working)
  BY LiveIsKnown DEF RunsInv, OpenIsLatest, Open
<1>1. ASSUME KeepsRow(b), KeepsNames, Working' => Working
      PROVE  LatestBatch(b)' /\ (batch'[b].effects # None \/ ~Working')
  BY <1>0, <1>1, NamesKeepLatest DEF KeepsRow, Open
<1>2. CASE CoordStep /\ UNCHANGED agentVars
  <2>1. PICK o \in Batches : CheckExec(o) \/ TaskStep(o) \/ EffStep(o)
    BY <1>2 DEF CoordStep
  <2>2. KeepsNames /\ (LatestBatch(b)' <=> LatestBatch(b))
    BY <2>1, CoordStepFrame, NamesKeepLatest DEF RunsInv
  <2>3. CASE KeepsRow(b) /\ EffEnqueue(o)
    <3>1. Open(b) /\ b = o /\ batch[b].effects # None
      BY <1>0, <2>3, ActingSteps, ActingAlone DEF KeepsRow, Open
    <3> QED
      BY <1>0, <2>2, <2>3, <3>1 DEF KeepsRow
  <2>4. CASE KeepsRow(b) /\ ~EffEnqueue(o)
    <3>1. UNCHANGED <<starts, spawned, gw, ext>>
      BY <1>2, <2>1, <2>4, CoordStepFrame DEF agentVars, gwVars, extVars, RunsInv
    <3> QED
      BY <1>1, <2>2, <2>4, <3>1 DEF Working, InFlight
  <2>5. CASE EffClaim(b) \/ EffBind(b) \/ EffRequest(b) \/ EffMark(b)
    <3>1. CASE EffRequest(b) /\ batch'[b].effects = batch[b].effects
      BY <2>2, <3>1, ActingSteps, ActingAlone
    <3>2. CASE /\ batch'[b].requested = batch[b].requested /\ batch'[b].applied = batch[b].applied
               /\ batch'[b].effects # None
      BY <1>0, <2>2, <3>2 DEF Open
    <3> QED
      BY <2>3, <2>4, <2>5, <3>1, <3>2, EffRows DEF Open
  <2>6. CASE TaskSettle(b)
    BY <2>6, SettleFrame DEF Open
  <2> QED
    BY <2>1, <2>3, <2>4, <2>5, <2>6, CoordStepFrame DEF RunsInv
<1>3. CASE GwStep
  <2>1. KeepsRow(b)
    BY <1>3, GwStepFrame, ConfirmBinds DEF KeepsRows, Open
  <2> QED
    BY <1>1, <1>3, <2>1, GwStepFrame, GwWorks
<1>4. CASE AgentStep
  <2>1. Exists(b) /\ KeepsRow(b)
    BY <1>4, AgentStepFrame, LiveIsKnown DEF Open
  <2>2. Open(b) /\ UNCHANGED <<batch, outRev>>
    BY <1>4, <2>1, AgentStepFrame DEF KeepsRow, Open
  <2> QED
    BY <1>1, <1>4, <2>2, AgentStepFrame, SameBatchKeeps, RowsKeepNames DEF KeepsRows
<1>5. CASE BootRecover
  <2>1. KeepsRow(b) /\ KeepsNames
    BY <1>5, RecoverFrame, RowsKeepNames DEF KeepsRows
  <2>2. Exists(b)
    BY <1>0, <2>1 DEF KeepsRow, Open
  <2>3. ~Working'
    BY <1>5, <2>2, RecoverFrame DEF Working, InFlight
  <2> QED
    BY <1>1, <2>1, <2>3
<1>6. CASE RecStep \/ Crash \/ Boot \/ (\E o \in Batches : BootNormalize(o)) \/ UNCHANGED runsVars
  <2>1. Open(b) /\ KeepsNames
    BY <1>6, EnvStepFrame DEF Open
  <2>2. ~Working' \/ (KeepsRow(b) /\ (Working' => Working))
    BY <1>6, EnvStepFrame DEF KeepsRows, Working, InFlight
  <2> QED
    BY <1>0, <1>1, <2>1, <2>2, NamesKeepLatest
<1> QED
  BY <1>2, <1>3, <1>4, <1>5, <1>6 DEF AgentNext, AgentCoordStep

\* What the gateway has listed for confirmation stays as it was listed until it
\* is confirmed, and nothing that should be on the list is missing.
LEMMA TodoIsOpenStep ==
    ASSUME RunsInv, [AgentNext]_runsVars
    PROVE  TodoIsOpen'
<1> SUFFICES ASSUME gw' = "confirm"
             PROVE  /\ \A p \in todo' : p[2] # None /\ batch'[p[1]].effects = p[2] /\ batch'[p[1]].requested
                    /\ \A b \in Batches : Open(b)' => <<b, batch'[b].effects>> \in todo'
  BY OneExecutionStep DEF OneExecution, TodoIsOpen
<1>0. /\ \A p \in todo : p[2] # None /\ batch[p[1]].effects = p[2] /\ batch[p[1]].requested
      /\ gw = "confirm" => \A b \in Batches : Open(b) => <<b, batch[b].effects>> \in todo
      /\ todo \in SUBSET (Batches \X (Tokens \cup {None}))
  BY DEF RunsInv, TodoIsOpen, AgentTypeOK
<1>1. ASSUME gw = "confirm", todo' = todo, \A p \in todo : KeepsRow(p[1]),
             \A b \in Batches : Open(b)' => KeepsRow(b)
      PROVE  /\ \A p \in todo' : p[2] # None /\ batch'[p[1]].effects = p[2] /\ batch'[p[1]].requested
             /\ \A b \in Batches : Open(b)' => <<b, batch'[b].effects>> \in todo'
  BY <1>0, <1>1 DEF KeepsRow, Open
<1>2. CASE CoordStep /\ UNCHANGED agentVars
  <2>1. PICK o \in Batches : CheckExec(o) \/ TaskStep(o) \/ EffStep(o)
    BY <1>2 DEF CoordStep
  <2>2. gw = "confirm" /\ todo' = todo
    BY <1>2 DEF agentVars, gwVars
  <2>3. \A p \in todo : KeepsRow(p[1])
    BY <2>1, TodoIsNewest, IdleKeeps DEF RunsInv
  <2>4. ASSUME NEW b \in Batches, Open(b)' PROVE KeepsRow(b)
    <3>1. ~EffRequest(b)
      BY <2>2, ActingSteps, ActingAlone
    <3>2. <<b, batch[b].effects>> \in todo
      BY <1>0, <2>1, <2>2, <2>4, <3>1, OpenedBy
    <3>3. ~LiveExec(b)
      BY <3>2, TodoIsNewest
    <3> QED
      BY <2>1, <3>3, IdleKeeps DEF RunsInv
  <2> QED
    BY <1>1, <2>2, <2>3, <2>4
<1>3. CASE GwStep
  <2>1. GwMeta \/ \E p \in todo : GwConfirm(p[1], p[2])
    BY <1>3 DEF GwStep, GwAct, GwStart, GwRefine, GwCheck, GwRun, GwBegin, GwLaunch, GwLaunchFails, GwBind,
       GwConfirmRefused, GwNothingToConfirm, GwProgress, SavesProgress, GwLoad, GwInstall, GwTurnEnds, GwTimeout, GwConnectionLost,
       GwHistory, GwOk, GwQueue, GwFinish, GwComplete, GwErr, GwFailRun, GwCleanup, GwEnqueue, gwVars, GoGw
  <2>2. CASE GwMeta
    <3>1. /\ batch' = batch
          /\ todo' = {<<b, batch[b].effects>> : b \in {o \in known : Awaiting(o)}}
      BY <2>2 DEF GwMeta, SetTurn, GoGw
    <3>2. ASSUME NEW b \in Batches, Open(b)
          PROVE  batch[b].effects # None /\ b \in known /\ Awaiting(b)
      BY <1>3, <3>2, GwWorks, LiveIsKnown
         DEF RunsInv, OpenIsLatest, Open, Awaiting, CoordInv, StoreInv, RefinementAnswersRejection
    <3>3. \A b \in known : b \in Batches /\ (Awaiting(b) => Open(b) /\ batch[b].requested)
      BY DEF RunsInv, CoordInv, CoordTypeOK, Awaiting, Open
    <3>4. \A b \in Batches : Open(b)' <=> Open(b)
      BY <3>1 DEF Open
    <3> QED
      BY <3>1, <3>2, <3>3, <3>4
  <2>3. ASSUME NEW p \in todo, GwConfirm(p[1], p[2])
        PROVE  /\ \A q \in todo' : q[2] # None /\ batch'[q[1]].effects = q[2] /\ batch'[q[1]].requested
               /\ \A b \in Batches : Open(b)' => <<b, batch'[b].effects>> \in todo'
    <3>1. todo' = todo \ {<<p[1], p[2]>>} /\ gw = "confirm"
      BY <2>3 DEF GwConfirm
    <3>2. /\ \A b \in Batches \ {p[1]} : KeepsRow(b)
          /\ batch'[p[1]].applied
      BY <2>3, ConfirmBinds
    <3>3. ASSUME NEW q \in todo'
          PROVE  q[2] # None /\ batch'[q[1]].effects = q[2] /\ batch'[q[1]].requested
      <4>1. q = <<q[1], q[2]>> /\ q[1] \in Batches /\ q \in todo
        BY <1>0, <3>1
      <4>2. q[1] # p[1]
        BY <1>0, <3>1, <4>1
      <4> QED
        BY <1>0, <3>2, <4>1, <4>2 DEF KeepsRow
    <3>4. ASSUME NEW b \in Batches, Open(b)'
          PROVE  <<b, batch'[b].effects>> \in todo'
      <4>1. b # p[1]
        BY <3>2, <3>4 DEF Open
      <4>2. KeepsRow(b) /\ <<b, batch[b].effects>> \in todo
        BY <1>0, <3>1, <3>2, <3>4, <4>1 DEF Open, KeepsRow
      <4> QED
        BY <3>1, <4>1, <4>2 DEF KeepsRow
    <3> QED
      BY <3>3, <3>4
  <2> QED
    BY <2>1, <2>2, <2>3
<1>4. CASE AgentStep
  <2>1. gw = "confirm" /\ todo' = todo
    BY <1>4, AgentStepFrame
  <2>2. \A p \in todo : KeepsRow(p[1])
    BY <1>4, AgentStepFrame, TodoIsNewest
  <2>3. \A b \in Batches : Open(b)' => KeepsRow(b)
    BY <1>4, AgentStepFrame, LiveIsKnown DEF Open
  <2> QED
    BY <1>1, <2>1, <2>2, <2>3
<1>5. CASE BootRecover
  BY <1>5, RecoverFrame
<1>6. CASE RecStep \/ Crash \/ Boot \/ (\E o \in Batches : BootNormalize(o)) \/ UNCHANGED runsVars
  BY <1>0, <1>1, <1>6, EnvStepFrame DEF KeepsRows
<1> QED
  BY <1>2, <1>3, <1>4, <1>5, <1>6 DEF AgentNext, AgentCoordStep

\* While a turn is due or under way, the coordinator does nothing to the run and
\* asks for nothing.
LEMMA WorkingCoordStep ==
    ASSUME RunsInv, Working, NEW o \in Batches, CheckExec(o) \/ TaskStep(o) \/ EffStep(o)
    PROVE  /\ UNCHANGED <<run, turn, spawned>>
           /\ \A b \in Batches : /\ Open(b)' => Open(b)
                                 /\ Unsettled(b)' => Unsettled(b)
                                 /\ Exists(b) /\ LatestBatch(b) => KeepsRow(b)
<1>1. \A b \in Batches : eff[b] \notin Acting
  BY ActingAlone
<1>2. UNCHANGED <<run, turn, spawned>>
  BY <1>1, CoordStepFrame, ActingSteps DEF RunsInv
<1>3. ASSUME NEW b \in Batches, Open(b)' PROVE Open(b)
  BY <1>1, <1>3, OpenedBy, ActingSteps
<1>4. ASSUME NEW b \in Batches, Unsettled(b)' PROVE Unsettled(b)
  BY <1>4, CoordStepFrame, SettleFrame, EffRows DEF KeepsRow, Unsettled, RunsInv
<1>5. ASSUME NEW b \in Batches, Exists(b), LatestBatch(b) PROVE KeepsRow(b)
  BY <1>5, IdleKeeps DEF RunsInv, OutdatedWhileWorking
<1> QED
  BY <1>2, <1>3, <1>4, <1>5

\* The turn that made a model is over when its verdict is acted upon; the turn
\* that answers a refusal is a new one.
LEMMA MakerIsPastStep ==
    ASSUME RunsInv, [AgentNext]_runsVars
    PROVE  MakerIsPast'
<1> SUFFICES ASSUME NEW b \in Batches
             PROVE  /\ LiveExec(b)' \/ batch'[b].requested => gwTurn' # madeBy'[b]
                    /\ batch'[b].requested \/ eff'[b] = "request" => turn' # madeBy'[b]
  BY DEF MakerIsPast
<1>0. /\ LiveExec(b) \/ batch[b].requested => gwTurn # madeBy[b]
      /\ batch[b].requested \/ eff[b] = "request" => turn # madeBy[b]
      /\ Exists(b) => madeBy[b] \in Turns /\ madeBy[b] # None /\ ext[madeBy[b]] # "none"
      /\ LiveExec(b) \/ batch[b].requested => Exists(b)
      /\ eff[b] = "request" => LiveExec(b)
      /\ eff \in [Batches -> EffPC]
  BY LiveIsKnown, StoreAssumption DEF RunsInv, CoordInv, CoordTypeOK, MakerIsPast, NamesAreMade, LiveExec
<1>1. CASE CoordStep /\ UNCHANGED agentVars
  <2>1. PICK o \in Batches : CheckExec(o) \/ TaskStep(o) \/ EffStep(o)
    BY <1>1 DEF CoordStep
  <2>2. UNCHANGED <<gwTurn, madeBy>>
    BY <1>1 DEF agentVars, gwVars, extVars
  <2>3. LiveExec(b)' => LiveExec(b)
    BY <2>1, CoordStepFrame DEF RunsInv, LiveExec
  <2>4. batch'[b].requested => batch[b].requested \/ (LiveExec(b) /\ eff[b] = "request")
    BY <2>1, AskedBy DEF EffRequest, LiveExec
  <2>5. eff'[b] = "request" => LiveExec(b) /\ (eff[b] = "request" \/ EffPrepare(b))
    <3>1. eff'[b] = "request" => eff'[b] = eff[b] \/ EffPrepare(b)
      BY <1>0, <2>1, CoordStepFrame, CoordStepCases, SettleFrame, EffRows DEF RunsInv, EffLatest, EffStatus,
         EffFail, EffIterate, EffSave, EffComplete, EffRefine, EffEnqueue, GoEff, AfterIteration
    <3> QED
      BY <2>3, <3>1 DEF LiveExec
  <2>6. turn' = turn \/ turn' = None
    BY <2>1, CoordStepFrame DEF RunsInv, EffPrepare, SetTurn, storeVars
  <2>7. EffPrepare(b) => turn' = None \/ eff'[b] = "idle"
    BY <1>0 DEF EffPrepare, SetTurn, GoEff
  <2> QED
    BY <1>0, <2>2, <2>3, <2>4, <2>5, <2>6, <2>7
<1>2. CASE GwStep
  <2>1. /\ madeBy' = madeBy /\ (turn' = turn \/ turn' = gwTurn)
        /\ batch'[b].requested => batch[b].requested
    <3>1. batch'[b].requested => batch[b].requested
      BY <1>2, GwStepFrame, ConfirmBinds, TodoIsNewest DEF KeepsRows, KeepsRow, Open
    <3> QED
      BY <1>2, <3>1, GwStepFrame DEF GwBind, GwMeta, SetTurn, storeVars
  <2>2. eff[b] \notin Acting /\ eff'[b] # "request"
    BY <1>2, GwWorks, GwStepFrame, EnqueueFrame DEF Acting
  <2>3. \/ gwTurn' = gwTurn \/ gwTurn' = None
        \/ ext[gwTurn'] = "none"
    BY <1>2 DEF GwStep, GwAct, GwStart, GwCheck, GwBegin, GwLaunch, GwLaunchFails, GwNothingToConfirm, GwTimeout, GwOk,
     GwFinish, GwErr, GwCleanup, GwConfirmRefused, GwRun, GwQueue, GwComplete, GwFailRun, GwHistory,
     GwConnectionLost, GwBind, GwMeta, GwProgress, SavesProgress, GwLoad, GwInstall, GwTurnEnds, GwRefine, GwConfirm, GwEnqueue, gwVars
  <2>4. LiveExec(b)' => LiveExec(b) \/ (gwTurn' = None /\ Exists(b))
    <3>1. CASE GwEnqueue
      BY <1>2, <3>1, EnqueueFrame DEF LiveExec, Unsettled, Settled, Exists
    <3>2. CASE ~GwEnqueue
      BY <1>2, <3>2, GwStepFrame DEF LiveExec
    <3> QED
      BY <3>1, <3>2
  <2> QED
    BY <1>0, <2>1, <2>2, <2>3, <2>4
<1>3. CASE AgentStep
  <2>1. UNCHANGED <<turn, gwTurn, task, eff>>
    BY <1>3, AgentStepFrame
  <2>2. CASE Exists(b)
    BY <1>0, <1>3, <2>1, <2>2, AgentStepFrame DEF KeepsRow, LiveExec
  <2>3. CASE ~Exists(b)
    <3>1. ~LiveExec(b)' /\ eff'[b] # "request" /\ ~batch'[b].requested
      BY <1>0, <1>3, <2>1, <2>3, AgentStepFrame DEF LiveExec
    <3> QED
      BY <3>1
  <2> QED
    BY <2>2, <2>3
<1>4. CASE BootRecover
  <2>1. /\ UNCHANGED <<turn, gwTurn, madeBy, batch>> /\ gwTurn = None /\ eff'[b] # "request"
        /\ LiveExec(b)' => Exists(b)
    BY <1>4, RecoverFrame
  <2> QED
    BY <1>0, <2>1
<1>5. CASE RecStep \/ Crash \/ Boot \/ (\E o \in Batches : BootNormalize(o)) \/ UNCHANGED runsVars
  <2>1. UNCHANGED <<turn, madeBy>> /\ batch'[b].requested = batch[b].requested
    BY <1>5, EnvStepFrame
  <2>2. \/ UNCHANGED <<gwTurn, task, eff>>
        \/ gwTurn' = None /\ task'[b] = "idle" /\ eff'[b] = "idle"
    BY <1>5, EnvStepFrame
  <2> QED
    BY <1>0, <2>1, <2>2 DEF LiveExec
<1> QED
  BY <1>1, <1>2, <1>3, <1>4, <1>5 DEF AgentNext, AgentCoordStep

\* When a turn becomes due, it is the newest batch that waits for it; what the
\* turn makes is open until it has been judged.
LEMMA InFlightIsAnswered ==
    ASSUME RunsInv, [AgentNext]_runsVars, InFlight', NEW b \in Batches, Exists(b)', LatestBatch(b)'
    PROVE  Unsettled(b)' \/ batch'[b].bound \/ Open(b)'
<1>0. InFlight /\ Exists(b) /\ LatestBatch(b) => Unsettled(b) \/ batch[b].bound \/ Open(b)
  BY DEF RunsInv, LatestIsAnswered
<1>1. ASSUME InFlight, KeepsRow(b), LatestBatch(b)
      PROVE  Unsettled(b)' \/ batch'[b].bound \/ Open(b)'
  BY <1>0, <1>1 DEF KeepsRow, Open
<1>2. CASE CoordStep /\ UNCHANGED agentVars
  <2>1. PICK o \in Batches : CheckExec(o) \/ TaskStep(o) \/ EffStep(o)
    BY <1>2 DEF CoordStep
  <2>2. LatestBatch(b) /\ Exists(b)
    BY <2>1, CoordStepFrame, NamesKeepLatest DEF RunsInv, KeepsNames
  <2>3. CASE EffEnqueue(o)
    <3>1. b = o /\ ~batch[b].applied /\ batch' = batch
      BY <2>2, <2>3, ActingSteps, ActingAlone DEF EffEnqueue, storeVars
    <3>2. batch[b].requested
      BY <2>3, <3>1 DEF EffEnqueue, RunsInv, ExecutorsFollowVerdict
    <3> QED
      BY <3>1, <3>2 DEF Open
  <2>4. CASE ~EffEnqueue(o)
    <3>1. InFlight
      BY <1>2, <2>1, <2>4, CoordStepFrame DEF InFlight, agentVars, gwVars, RunsInv
    <3>2. KeepsRow(b)
      BY <2>1, <2>2, <3>1, WorkingCoordStep DEF Working
    <3> QED
      BY <1>1, <2>2, <3>1, <3>2
  <2> QED
    BY <2>3, <2>4
<1>3. CASE GwStep
  <2>1. InFlight /\ LatestBatch(b)
    BY <1>3, GwWorks, GwStepFrame, NamesKeepLatest
  <2>2. CASE KeepsRow(b)
    BY <1>1, <2>1, <2>2
  <2>3. CASE ~KeepsRow(b)
    BY <1>3, <2>3, GwStepFrame, ConfirmBinds DEF KeepsRows
  <2> QED
    BY <2>2, <2>3
<1>4. CASE AgentStep
  <2>1. CASE Exists(b)
    <3>1. InFlight /\ KeepsRow(b) /\ LatestBatch(b)
      BY <1>4, <2>1, AgentStepFrame DEF InFlight
    <3> QED
      BY <1>1, <3>1
  <2>2. CASE ~Exists(b)
    BY <1>4, <2>2, AgentStepFrame
  <2> QED
    BY <2>1, <2>2
<1>5. CASE BootRecover
  <2>1. starts'
    BY <1>5, RecoverFrame DEF InFlight
  <2> QED
    BY <1>5, <2>1, RecoverFrame DEF KeepsRows, KeepsRow
<1>6. CASE RecStep \/ Crash \/ Boot \/ (\E o \in Batches : BootNormalize(o)) \/ UNCHANGED runsVars
  <2>1. LatestBatch(b)
    BY <1>6, EnvStepFrame, NamesKeepLatest
  <2>2. KeepsRow(b) /\ InFlight
    BY <1>6, EnvStepFrame DEF KeepsRows, Working, InFlight
  <2> QED
    BY <1>1, <2>1, <2>2
<1> QED
  BY <1>2, <1>3, <1>4, <1>5, <1>6 DEF AgentNext, AgentCoordStep

\* From the confirmation on no refinement is open; a run that is about to be
\* completed has no batch whose checks are under way.
LEMMA TurnIsConcluded ==
    ASSUME RunsInv, [AgentNext]_runsVars, NEW b \in Batches
    PROVE  /\ active' /\ gw' \in {"turn", "install", "lost", "ok", "finish"} => ~Open(b)'
           /\ active' /\ gw' = "ok" /\ ~RunTerminal' => (Exists(b)' => b \in known')
           /\ active' /\ gw' = "finish" /\ ~RunTerminal' => ~Unsettled(b)'
           /\ gw' = "complete" => ~Unsettled(b)' /\ ~Open(b)'
<1> DEFINE Goal == /\ active' /\ gw' \in {"turn", "install", "lost", "ok", "finish"} => ~Open(b)'
                   /\ active' /\ gw' = "ok" /\ ~RunTerminal' => (Exists(b)' => b \in known')
                   /\ active' /\ gw' = "finish" /\ ~RunTerminal' => ~Unsettled(b)'
                   /\ gw' = "complete" => ~Unsettled(b)' /\ ~Open(b)'
<1>0. /\ active /\ gw \in {"turn", "install", "lost", "ok", "finish"} => ~Open(b)
      /\ active /\ gw = "ok" /\ ~RunTerminal => (Exists(b) => b \in known)
      /\ active /\ gw = "finish" /\ ~RunTerminal => ~Unsettled(b)
      /\ gw = "complete" => ~Unsettled(b) /\ ~Open(b)
  BY DEF RunsInv, LatestIsAnswered
<1>1. ASSUME gw' = gw, active' => active, RunTerminal => RunTerminal', Open(b)' => Open(b),
             Unsettled(b)' => Unsettled(b), Exists(b)' => Exists(b), b \in known => b \in known'
      PROVE  Goal
  BY <1>0, <1>1
<1>2. CASE CoordStep /\ UNCHANGED agentVars
  <2>1. PICK o \in Batches : CheckExec(o) \/ TaskStep(o) \/ EffStep(o)
    BY <1>2 DEF CoordStep
  <2>2. gw' = gw /\ active' = active /\ known' = known /\ (Exists(b)' => Exists(b))
    BY <1>2, <2>1, CoordStepFrame DEF agentVars, gwVars, RunsInv, KeepsNames
  <2>3. CASE Working
    <3>1. run' = run /\ (Open(b)' => Open(b)) /\ (Unsettled(b)' => Unsettled(b))
      BY <2>1, <2>3, WorkingCoordStep
    <3> QED
      BY <1>1, <2>2, <3>1 DEF RunTerminal
  <2>4. CASE ~Working
    BY <2>2, <2>4 DEF Working, InFlight
  <2> QED
    BY <2>3, <2>4
<1>3. CASE GwStep
  <2>0. /\ KeepsNames /\ (KeepsRows => (Open(b)' <=> Open(b)) /\ (Unsettled(b)' <=> Unsettled(b)))
        /\ Exists(b)' <=> Exists(b)
    BY <1>3, GwStepFrame DEF KeepsRows, KeepsRow, KeepsNames, Open
  <2>1. CASE GwMeta
    BY <2>1 DEF GwMeta, GoGw
  <2>2. CASE GwNothingToConfirm
    <3>1. gw = "confirm" /\ todo = {} /\ gw' = "turn" /\ batch' = batch
      BY <2>2 DEF GwNothingToConfirm, GoGw, CoordAlone, storeVars
    <3>2. ~Open(b)
      BY <3>1 DEF RunsInv, TodoIsOpen
    <3> QED
      BY <3>1, <3>2 DEF Open
  <2>3. ASSUME NEW p \in todo, GwConfirm(p[1], p[2])
        PROVE  Goal
    <3>1. /\ gw = "confirm" /\ gw' \in {"confirm", "turn"} /\ todo' = todo \ {<<p[1], p[2]>>}
          /\ gw' = "turn" => todo' = {}
      BY <2>3 DEF GwConfirm, GoGw
    <3>2. ASSUME gw' = "turn" PROVE ~Open(b)'
      <4>1. CASE b = p[1]
        BY <2>3, <4>1, ConfirmBinds DEF Open
      <4>2. CASE b # p[1]
        <5>1. Open(b)' => Open(b)
          BY <2>3, <4>2, ConfirmBinds DEF KeepsRow, Open
        <5>2. Open(b) => <<b, batch[b].effects>> \in todo'
          BY <3>1, <4>2 DEF RunsInv, TodoIsOpen
        <5> QED
          BY <3>1, <3>2, <5>1, <5>2
      <4> QED
        BY <4>1, <4>2
    <3> QED
      BY <3>1, <3>2
  <2>4. CASE GwProgress \/ GwLoad \/ GwInstall \/ GwTurnEnds \/ GwTimeout \/ GwConnectionLost
    <3>1. /\ gw \in {"turn", "install"} /\ gw' \in {"turn", "install", "ok", "lost", "err"} /\ active' = active
          /\ UNCHANGED <<batch, outRev>>
          /\ gw' = "ok" /\ active => Refreshed /\ known' = known
      BY <2>4 DEF GwProgress, SavesProgress, GwLoad, GwInstall, GwTurnEnds, GwTimeout, GwConnectionLost, GoGw, CoordAlone, storeVars, gwVars, cacheVars
    <3>2. KeepsRows
      BY <3>1, SameBatchKeeps
    <3>3. gw' = "ok" /\ active' => (Exists(b)' => b \in known')
      BY <2>0, <3>1 DEF Refreshed
    <3> QED
      BY <1>0, <2>0, <3>1, <3>2, <3>3
  <2>5. CASE GwHistory
    <3>1. /\ gw = "lost" /\ gw' \in {"ok", "err"} /\ active' = active /\ UNCHANGED <<batch, outRev>>
          /\ gw' = "ok" => ApplyHistory("completed") /\ AcceptsHistory("completed")
      BY <2>5 DEF GwHistory, GoGw, CoordAlone, storeVars
    <3>2. KeepsRows
      BY <3>1, SameBatchKeeps
    <3>3. gw' = "ok" => RunTerminal'
      BY <3>1 DEF ApplyHistory, StatusOf, RunTerminal
    <3> QED
      BY <1>0, <2>0, <3>1, <3>2, <3>3
  <2>6. CASE GwOk
    <3>1. /\ gw = "ok" /\ active' = active /\ UNCHANGED <<batch, outRev, run>>
          /\ gw' = IF Pending THEN "queue" ELSE "finish"
      BY <2>6 DEF GwOk, GoGw, CoordAlone, storeVars
    <3>2. KeepsRows /\ (RunTerminal' <=> RunTerminal)
      BY <3>1, SameBatchKeeps DEF RunTerminal
    <3>3. gw' = "finish" /\ Unsettled(b) => b \notin known /\ Exists(b)
      BY <3>1 DEF Pending, Unsettled, Exists
    <3> QED
      BY <1>0, <2>0, <3>1, <3>2, <3>3
  <2>7. CASE GwFinish
    <3>1. /\ gw = "finish" /\ UNCHANGED <<batch, outRev>>
          /\ gw' = IF active /\ ~RunTerminal THEN "complete" ELSE "cleanup"
      BY <2>7 DEF GwFinish, GoGw, CoordAlone, storeVars
    <3>2. KeepsRows
      BY <3>1, SameBatchKeeps
    <3> QED
      BY <1>0, <2>0, <3>1, <3>2
  <2>8. CASE \/ GwStart \/ GwRefine \/ GwCheck \/ GwRun \/ GwBegin \/ GwLaunch \/ GwLaunchFails \/ GwBind
             \/ GwQueue \/ GwComplete \/ GwErr \/ GwFailRun \/ GwCleanup \/ GwEnqueue
    <3>1. gw' \notin {"turn", "install", "lost", "ok", "finish", "complete"}
      BY <2>8 DEF GwStart, GwRefine, GwCheck, GwRun, GwBegin, GwLaunch, GwLaunchFails, GwBind,
         GwQueue, GwComplete, GwErr, GwFailRun, GwCleanup, GwEnqueue, GoGw
    <3> QED
      BY <3>1
  <2>9. \A p \in todo : ~GwConfirmRefused(p[1], p[2])
    BY NeverRefused DEF GwConfirmRefused
  <2> QED
    BY <1>3, <2>1, <2>2, <2>3, <2>4, <2>5, <2>6, <2>7, <2>8, <2>9 DEF GwStep, GwAct
<1>4. CASE AgentStep
  <2>1. gw \notin {"ok", "finish", "complete"} /\ gw' = gw /\ active' = active
    BY <1>4, AgentStepFrame DEF RunsInv, RunningTurn
  <2>2. Open(b)' => Open(b)
    BY <1>4, AgentStepFrame, LiveIsKnown DEF Open, KeepsRow
  <2> QED
    BY <1>0, <2>1, <2>2
<1>5. CASE BootRecover
  BY <1>5, RecoverFrame
<1>6. CASE RecStep \/ Crash \/ Boot \/ (\E o \in Batches : BootNormalize(o)) \/ UNCHANGED runsVars
  <2>1. CASE gw' = "idle"
    BY <2>1
  <2>2. CASE gw' # "idle"
    <3>1. /\ gw' = gw /\ known' = known /\ (active' => active) /\ (RunTerminal => RunTerminal')
          /\ KeepsRow(b)
      BY <1>6, <2>2, EnvStepFrame DEF KeepsRows
    <3> QED
      BY <1>1, <3>1 DEF KeepsRow, Open
  <2> QED
    BY <2>1, <2>2
<1> QED
  BY <1>2, <1>3, <1>4, <1>5, <1>6 DEF AgentNext, AgentCoordStep

\* The two together.
LEMMA LatestIsAnsweredStep ==
    ASSUME RunsInv, [AgentNext]_runsVars
    PROVE  LatestIsAnswered'
BY InFlightIsAnswered, TurnIsConcluded DEF LatestIsAnswered

\* Every step keeps the invariant.
LEMMA RunsInvStep ==
    ASSUME RunsInv, [AgentNext]_runsVars
    PROVE  RunsInv'
<1>1. CoordInv'
  BY CoordPart
<1>2. AgentTypeOK'
  BY <1>1, AgentTypedStep DEF RunsInv, CoordInv
<1>3. NamesAreMade' /\ CacheIsSound' /\ QueuedIsNew' /\ OneExecution' /\ DownIsQuiet' /\ RunningTurn'
  BY NamesAreMadeStep, CacheIsSoundStep, QueuedIsNewStep, OneExecutionStep, DownIsQuietStep, RunningTurnStep
<1>4. OutdatedWhileWorking' /\ ExecutorsOnLatest' /\ ExecutorsFollowVerdict' /\ NumberIsNext'
  BY OutdatedWhileWorkingStep, ExecutorsOnLatestStep, ExecutorsFollowVerdictStep, NumberIsNextStep
<1>5. OpenIsLatest' /\ TodoIsOpen' /\ MakerIsPast' /\ LatestIsAnswered'
  BY OpenIsLatestStep, TodoIsOpenStep, MakerIsPastStep, LatestIsAnsweredStep
<1> QED
  BY <1>1, <1>2, <1>3, <1>4, <1>5 DEF RunsInv

-----------------------------------------------------------------------------
(* The theorems. *)

\* The agent's run has the invariant in every reachable state.
THEOREM RunsInvariant == AgentSpec => []RunsInv
BY RunsInitInv, RunsInvStep, PTL DEF AgentSpec

\* The state of a run, its turns, its batches and its tasks is of its type.
THEOREM RunsTyped == AgentSpec => []AgentTypeOK
<1>1. RunsInv => AgentTypeOK
  BY DEF RunsInv
<1> QED
  BY <1>1, RunsInvariant, PTL

\* An executor that is about to change the run speaks for the newest attempt on
\* its output revision, several steps and other tasks after it looked.
THEOREM RunsActOnLatest == AgentSpec => []ActsOnLatest
<1>1. RunsInv => ActsOnLatest
  BY DEF RunsInv, ExecutorsOnLatest, ActsOnLatest, Acting
<1> QED
  BY <1>1, RunsInvariant, PTL

\* A rejection is answered by a turn that starts after it: never by the turn
\* that made the rejected model.
THEOREM RunsAnsweredByLaterTurn == AgentSpec => []AnsweredByLaterTurn
<1>1. RunsInv => AnsweredByLaterTurn
  BY DEF RunsInv, MakerIsPast, AnsweredByLaterTurn, CoordInv, StoreInv, RefinementAnswersRejection
<1> QED
  BY <1>1, RunsInvariant, PTL

\* A run never waits for two refinement turns, and the one it waits for is not
\* dropped as a duplicate.
THEOREM RunsOneRefinement == AgentSpec => []OneRefinementTask
<1>1. RunsInv => OneRefinementTask
  BY DEF RunsInv, OneExecution, OneRefinementTask
<1> QED
  BY <1>1, RunsInvariant, PTL

\* No two executors compute the same iteration number: UNIQUE(run_id, iteration)
\* never refuses a save.
THEOREM RunsSavesNeverConflict == AgentSpec => []SaveNeverConflicts
<1>1. RunsInv => SaveNeverConflicts
  <2> SUFFICES ASSUME RunsInv, NEW b \in Batches, eff[b] = "save", NEW o \in Batches
               PROVE  iteration[o] # number[b]
    BY DEF SaveNeverConflicts, NumberTaken
  <2>1. iteration[o] < number[b] /\ iteration[o] \in Nat /\ number[b] \in Nat
    BY DEF RunsInv, NumberIsNext, CoordInv, CoordTypeOK
  <2> QED
    BY <2>1
<1> QED
  BY <1>1, RunsInvariant, PTL

\* Gateway, agent, user, crash and startup are one of the environments that the
\* coordinator was verified in: its theorems hold in the whole program.
THEOREM RunsImplementCoordinator == AgentSpec => ImplementsCoordinator
<1>1. AgentInit => CoordInit
  BY DEF AgentInit
<1>2. RunsInv /\ [AgentNext]_runsVars => [CoordNext]_allCoordVars
  BY RunsIsCoordStep
<1> QED
  BY <1>1, <1>2, RunsInvariant, PTL DEF AgentSpec, ImplementsCoordinator, CoordSpec

-----------------------------------------------------------------------------
(* Action properties. *)

\* A rejection of the newest model is closed by the turn that answers it, or on a
\* run that has ended.
LEMMA RejectionStep ==
    ASSUME RunsInv, [AgentNext]_runsVars, NEW b \in Batches,
           Rejected(b), ~batch[b].applied, batch'[b].applied, LatestBatch(b)
    PROVE  batch'[b].bound \/ RunTerminal
<1>0. Exists(b) /\ ~KeepsRow(b) /\ ~Unsettled(b)
  BY DEF Rejected, Exists, Unsettled, KeepsRow
<1>1. CASE CoordStep /\ UNCHANGED agentVars
  <2>1. PICK o \in Batches : CheckExec(o) \/ TaskStep(o) \/ EffStep(o)
    BY <1>1 DEF CoordStep
  <2>2. EffClaim(b) \/ EffBind(b) \/ EffRequest(b) \/ EffMark(b)
    BY <1>0, <2>1, CoordStepFrame, SettleFrame DEF RunsInv
  <2>3. EffMark(b) => RunTerminal
    BY DEF EffMark, RunsInv, ExecutorsFollowVerdict
  <2> QED
    BY <1>0, <2>2, <2>3, EffRows
<1>2. CASE GwStep
  BY <1>0, <1>2, GwStepFrame, ConfirmBinds DEF KeepsRows
<1>3. CASE AgentStep
  BY <1>0, <1>3, AgentStepFrame
<1>4. CASE BootRecover
  BY <1>4, RecoverFrame
<1>5. CASE RecStep \/ Crash \/ Boot \/ (\E o \in Batches : BootNormalize(o)) \/ UNCHANGED runsVars
  BY <1>5, EnvStepFrame
<1> QED
  BY <1>1, <1>2, <1>3, <1>4, <1>5 DEF AgentNext, AgentCoordStep

\* The rejection of the newest model is never closed in silence: a turn bound to
\* the run answers it, or the run has ended.
THEOREM RunsAnswerRejections == AgentSpec => RejectionIsAnswered
<1>1. RunsInv /\ [AgentNext]_runsVars
        => [\A b \in Batches :
              (Rejected(b) /\ ~batch[b].applied /\ batch'[b].applied /\ LatestBatch(b))
                => batch'[b].bound \/ RunTerminal]_runsVars
  BY RejectionStep
<1> QED
  BY <1>1, RunsInvariant, PTL DEF AgentSpec, RejectionIsAnswered

\* A run is completed over an open verdict only by a reading of its history, or it
\* was completed before.
LEMMA CompletionStep ==
    ASSUME RunsInv, [AgentNext]_runsVars, ~RecordedCompletion, run'.status = "completed",
           gw # "lost", \A w \in Tasks : rec[w] # "apply",
           NEW b \in Batches, Exists(b), LatestBatch(b)
    PROVE  Settled(b) /\ (batch[b].passed \/ batch[b].bound)
<1>0. run \in RunRecord /\ run.status # "completed" /\ row.status # "completed" /\ snap.run.status # "completed"
  BY DEF RunsInv, CoordInv, CoordTypeOK, RecordedCompletion
<1>1. CASE CoordStep /\ UNCHANGED agentVars
  <2>1. PICK o \in Batches : CheckExec(o) \/ TaskStep(o) \/ EffStep(o)
    BY <1>1 DEF CoordStep
  <2>2. EffComplete(o)
    BY <1>0, <2>1, CoordStepFrame, SetRunStatus DEF RunsInv, EffFail, EffPrepare
  <2>3. b = o /\ eff[b] = "complete"
    BY <2>2, ActingSteps, ActingAlone DEF EffComplete
  <2> QED
    BY <2>3 DEF RunsInv, ExecutorsFollowVerdict
<1>2. CASE GwStep
  <2>1. GwComplete
    <3>1. GwBind => run'.status = run.status
      BY <1>0 DEF GwBind, RunRecord
    <3>2. GwConnectionLost => run'.status = run.status
      BY <1>0 DEF GwConnectionLost, MarkReconciling, RunRecord
    <3>3. GwRun \/ GwQueue \/ GwFailRun => run'.status # "completed"
      BY <1>0, SetRunStatus DEF GwRun, GwQueue, GwFailRun
    <3>4. ~GwHistory
      BY DEF GwHistory
    <3>5. SavesProgress => run'.status = run.status
      BY <1>0 DEF SavesProgress, RunRecord
    <3>6. ~GwInstall
      BY <1>0 DEF GwInstall
    <3> QED
      BY <1>0, <1>2, <3>1, <3>2, <3>3, <3>4, <3>5, <3>6, GwStepFrame
  <2>2. ~Unsettled(b) /\ ~Open(b) /\ InFlight
    BY <2>1 DEF GwComplete, RunsInv, LatestIsAnswered, InFlight
  <2>3. batch[b].bound
    BY <2>2 DEF RunsInv, LatestIsAnswered
  <2> QED
    BY <2>3 DEF RunsInv, CoordInv, StoreInv, RefinementAnswersRejection, Rejected, Settled
<1>3. CASE RecStep
  <2>1. run' = run \/ SetRun("cancelled", "none") \/ MarkReconciling \/ MarkUnknown
    BY <1>3 DEF RecStep, CancelRequest, CancelDrop, CancelWrite, CancelMark, CancelInterrupt, CancelClean,
       RecRead, RecApply, RecUnknown
  <2> QED
    BY <1>0, <2>1, SetRunStatus DEF MarkReconciling, MarkUnknown, RunRecord
<1>4. CASE BootRecover
  <2>1. run' = run \/ MarkReconciling \/ MarkUnknown
    BY <1>4, RecoverFrame
  <2> QED
    BY <1>0, <2>1 DEF MarkReconciling, MarkUnknown, RunRecord
<1>5. CASE AgentStep \/ Crash \/ Boot \/ (\E o \in Batches : BootNormalize(o)) \/ UNCHANGED runsVars
  BY <1>0, <1>5, AgentStepFrame, NormalizeFrame DEF Crash, Boot, BootNormalize, CoordCrash, CoordBoot, RunsInv,
     runsVars, allCoordVars
<1> QED
  BY <1>1, <1>2, <1>3, <1>4, <1>5 DEF AgentNext, AgentCoordStep

\* Neither the gateway nor an executor completes a run whose newest model is open
\* or rejected without an answer; only a reading of the turn's history can, and a
\* refresh or a restart finds no completion but a recorded one.
THEOREM RunsEarnCompletion == AgentSpec => CompletionIsEarned
<1>1. RunsInv /\ [AgentNext]_runsVars
        => [(~RecordedCompletion /\ run'.status = "completed") =>
              \/ gw = "lost" \/ \E w \in Tasks : rec[w] = "apply"
              \/ \A b \in Batches : Exists(b) /\ LatestBatch(b) =>
                    Settled(b) /\ (batch[b].passed \/ batch[b].bound)]_runsVars
  BY CompletionStep
<1> QED
  BY <1>1, RunsInvariant, PTL DEF AgentSpec, CompletionIsEarned

\* A cancellation that is recorded stays, in the cache and in the row, but for
\* somebody who looked at the run before it.
LEMMA CancelledStep ==
    ASSUME RunsInv, [AgentNext]_runsVars, run.status = "cancelled", row.status = "cancelled",
           gw \in {"run", "queue", "complete", "failrun"} => gw' = gw,
           gw = "install" /\ gw' = "turn" => snap.run.status = "cancelled",
           \A b \in Batches : eff[b] \in {"fail", "complete"} => eff'[b] = eff[b]
    PROVE  run'.status = "cancelled" /\ row'.status = "cancelled"
<1>0. run \in RunRecord /\ RunTerminal
  BY DEF RunsInv, CoordInv, CoordTypeOK, RunTerminal
<1>1. CASE CoordStep /\ UNCHANGED agentVars
  <2>1. PICK o \in Batches : CheckExec(o) \/ TaskStep(o) \/ EffStep(o)
    BY <1>1 DEF CoordStep
  <2>2. ~EffFail(o) /\ ~EffComplete(o)
    BY DEF EffFail, EffComplete, GoEff, RunsInv, CoordInv, CoordTypeOK
  <2>3. run' = run
    BY <2>1, <2>2, CoordStepFrame DEF RunsInv, EffPrepare
  <2> QED
    BY <2>3, RowFollows
<1>2. CASE GwStep
  <2>1. ~GwRun /\ ~GwQueue /\ ~GwComplete /\ ~GwFailRun
    BY DEF GwRun, GwQueue, GwComplete, GwFailRun, GoGw
  <2>2. GwBind \/ GwConnectionLost \/ GwHistory => run' = run
    BY <1>0 DEF GwBind, GwConnectionLost, GwHistory, CanReconcile, MarkUnknown, ApplyHistory
  <2>3. SavesProgress => run'.status = "cancelled"
    BY <1>0 DEF SavesProgress, RunRecord
  <2>4. GwInstall => run'.status = "cancelled"
    BY DEF GwInstall, GoGw
  <2> QED
    BY <1>2, <2>1, <2>2, <2>3, <2>4, GwStepFrame, RowFollows
<1>3. CASE RecStep
  <2>1. run' = run \/ SetRun("cancelled", "none")
    BY <1>0, <1>3 DEF RecStep, CancelRequest, CancelDrop, CancelWrite, CancelMark, CancelInterrupt, CancelClean,
       RecRead, RecApply, RecUnknown, CanReconcile, MarkUnknown, ApplyHistory
  <2> QED
    BY <1>0, <2>1, SetRunStatus, RowFollows
<1>4. CASE BootRecover
  <2>1. run' = run
    BY <1>0, <1>4 DEF BootRecover, IsCandidate
  <2> QED
    BY <2>1, RowFollows
<1>5. CASE Boot
  BY <1>5, RowFollows DEF Boot
<1>6. CASE AgentStep \/ Crash \/ (\E o \in Batches : BootNormalize(o)) \/ UNCHANGED runsVars
  <2>1. run' = run
    BY <1>6, AgentStepFrame, NormalizeFrame DEF Crash, BootNormalize, CoordCrash, RunsInv,
       runsVars, allCoordVars
  <2> QED
    BY <2>1, RowFollows
<1> QED
  BY <1>1, <1>2, <1>3, <1>4, <1>5, <1>6 DEF AgentNext, AgentCoordStep

\* A recorded cancellation stays unless somebody's look at the run and his update,
\* or the load of a refresh and what it installs, are on either side of it.
THEOREM RunsStayCancelled == AgentSpec => CancelledAtRestStays
<1>1. RunsInv /\ [AgentNext]_runsVars
        => [(run.status = "cancelled" /\ row.status = "cancelled") =>
              \/ run'.status = "cancelled" /\ row'.status = "cancelled"
              \/ gw \in {"run", "queue", "complete", "failrun"} /\ gw' # gw
              \/ gw = "install" /\ gw' = "turn" /\ snap.run.status # "cancelled"
              \/ \E b \in Batches : eff[b] \in {"fail", "complete"} /\ eff'[b] # eff[b]]_runsVars
  BY CancelledStep
<1> QED
  BY <1>1, RunsInvariant, PTL DEF AgentSpec, CancelledAtRestStays

-----------------------------------------------------------------------------
(* What the chain of refinements gives for the whole program. *)

\* However prompts, commands, cancellations, crashes and startups interleave, a
\* batch is opened, judged once, acted upon by one actor at a time and concluded
\* once.
THEOREM ProgramImplementsLifecycle == AgentSpec => ImplementsLifecycle
BY RunsImplementCoordinator, CoordImplementsStore, LifecycleImplemented
   DEF ImplementsCoordinator, ImplementsStore

\* A verdict that the program has stored is the one its checks give, and whoever
\* applies it owns it.
THEOREM ProgramVerdicts == AgentSpec => [](VerdictMatchesChecks /\ ExecutorOwns)
<1>1. AgentSpec => []VerdictMatchesChecks /\ []ExecutorOwns
  BY RunsImplementCoordinator, CoordVerdicts, CoordExecutorOwns DEF ImplementsCoordinator
<1> QED
  BY <1>1, PTL

\* No step of the program changes a verdict, touches a batch whose verdict was
\* applied, overtakes the owner of the newest verdict, or revives a claim.
THEOREM ProgramKeepsVerdicts ==
    AgentSpec => VerdictIsFinal /\ AppliedIsFinal /\ OwnerStaysLatest /\ LostClaimIsDead
BY RunsImplementCoordinator, CoordImplementsStore, VerdictFinal, AppliedFinal, OwnerLatest,
   LostClaimDead
   DEF ImplementsCoordinator, ImplementsStore

=============================================================================
