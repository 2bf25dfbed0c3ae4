----------------------------- MODULE Transcript -----------------------------
(***************************************************************************)
(* codex_agent_adapter.rs, events.rs, agent_thread_manager.rs and          *)
(* recovery.rs: how the agent messages of one Codex turn get into the      *)
(* conversation, and how its run ends.  The collector saves the messages   *)
(* it is notified of; the task of a cancellation, the startup task and the *)
(* collector itself read the history of the turn and save what it has.     *)
(* They take the service lock once per message and once for the outcome,   *)
(* so their steps mix; the connection and the process may go in between.   *)
(* The run is kept twice, in the cache that everybody reads and in its     *)
(* row; a command of the turn makes the collector's task refresh the cache *)
(* with rows it has loaded before.                                         *)
(***************************************************************************)
EXTENDS Naturals, Sequences

CONSTANTS
    N,              \* messages the turn will have, numbered in order
    Phases,         \* the values of phased: whether Codex names the phase of its messages
    MaxCrashes,     \* bound: restarts of the process
    MaxCancels,     \* bound: clicks on cancel
    MaxRefreshes    \* bound: commands of the turn that refresh the cache

ASSUME TranscriptAssumption ==
    /\ N \in Nat \ {0} /\ Phases \subseteq BOOLEAN
    /\ MaxCrashes \in Nat /\ MaxCancels \in Nat /\ MaxRefreshes \in Nat

VARIABLES
    codex,      \* the turn as Codex has it: its status and its completed messages
    queue,      \* notifications in the route of the collector
    open,       \* whether the route is open
    coll,       \* the collector and the adapter around it
    read,       \* read[w]: the history read of a reader
    rows,       \* rows[i]: the phase of message i in conversation_messages
    run,        \* the cached run: its status, and recovery_status = reconciling
    active,     \* whether the run is in active_runs
    row,        \* its row in agent_runs
    snap,       \* what a refresh has loaded and not yet installed
    crashes, cancels, refreshes

refreshVars == <<snap, refreshes>>
vars == <<codex, queue, open, coll, read, rows, run, active, row, refreshVars, crashes, cancels>>

Msgs == 1..N
Terminal == {"completed", "failed", "interrupted"}
Readers == {"collector", "cancel", "startup"}

\* item/completed and turn/completed
Item(i) == [item |-> i, st |-> "none"]
End(st) == [item |-> 0, st |-> st]

Absent == "none"

RunStates == [st: {"running", "completed", "failed", "cancelled"}, reconciling: BOOLEAN]
NewRun == [st |-> "running", reconciling |-> FALSE]

\* legacy: messages without a phase, held until the turn is over; observed: what came in
\* while an interrupt was under way; why: what the collector reads the history for.
Collector == [pc: {"collect", "lost", "interrupt", "drain", "reading", "ingest", "check",
                   "finalize", "ok", "complete", "fail", "failrun", "install", "end"},
              legacy: Seq(Msgs), observed: Seq(Msgs), count: 0..N,
              why: {"none", "lost", "drain", "nomsg"}, then: {"check", "fail"}]
NewCollector == [pc |-> "collect", legacy |-> <<>>, observed |-> <<>>, count |-> 0,
                 why |-> "none", then |-> "check"]
Read == [pc: {"idle", "mark", "interrupt", "read", "check", "apply", "conclude", "result"},
         st: Terminal \cup {"running", "notfound", "error", "none"}, upto: 0..N, next: 1..(N + 1)]
NoRead == [pc |-> "idle", st |-> "none", upto |-> 0, next |-> 1]

TranscriptInit ==
    /\ codex \in [st: {"running"}, made: {0}, phased: Phases]
    /\ queue = <<>>
    /\ open = TRUE
    /\ coll = NewCollector
    /\ read = [w \in Readers |-> NoRead]
    /\ rows = [i \in Msgs |-> Absent]
    /\ run = NewRun /\ row = NewRun /\ snap = NewRun
    /\ active = TRUE /\ refreshes = 0
    /\ crashes = 0 /\ cancels = 0

Over(r) == r.st \in {"completed", "failed", "cancelled"}
RunEnded == Over(run)

-----------------------------------------------------------------------------
(* Codex *)

Notify(n) == queue' = IF open THEN Append(queue, n) ELSE queue

CompleteItem ==
    /\ codex.st = "running" /\ codex.made < N
    /\ codex' = [codex EXCEPT !.made = @ + 1]
    /\ Notify(Item(codex.made + 1))
    /\ UNCHANGED <<open, coll, read, rows, run, active, crashes, cancels>>

\* turn/completed carries the status.  A turn may complete without a message.
CompleteTurn(st) ==
    /\ codex.st = "running"
    /\ codex' = [codex EXCEPT !.st = st]
    /\ Notify(End(st))
    /\ UNCHANGED <<open, coll, read, rows, run, active, crashes, cancels>>

\* The connection ends: what is in the route is still received, nothing follows.
Lose ==
    /\ open
    /\ open' = FALSE
    /\ UNCHANGED <<codex, queue, coll, read, rows, run, active, crashes, cancels>>

-----------------------------------------------------------------------------
(* The conversation *)

\* upsert_agent_conversation_message: one row per item, written over by the last writer.
Upsert(i, phase) == rows' = [rows EXCEPT ![i] = phase]

PhaseOf(i, last) == IF i = last THEN "final_answer" ELSE "commentary"

\* Events of the adapter reach the service only while the run is in active_runs.
Sink(i, phase) == IF active THEN Upsert(i, phase) ELSE UNCHANGED rows

\* map_item_completed: with its phase a message is saved, without it is held back.  The
\* notification was received now (rest: what had been observed) or observed before.
Ingest(i, rest) ==
    /\ coll' = [coll EXCEPT !.count = @ + 1, !.observed = rest,
                            !.legacy = IF codex.phased THEN @ ELSE Append(@, i)]
    /\ IF codex.phased THEN Sink(i, PhaseOf(i, N)) ELSE UNCHANGED rows

-----------------------------------------------------------------------------
(* The run *)

StatusOf(st) == CASE st = "completed" -> "completed"
                  [] st = "interrupted" -> "cancelled"
                  [] OTHER -> "failed"

CanReconcile == ~RunEnded
MarkReconciling == run' = [run EXCEPT !.reconciling = TRUE]

\* mark_agent_run_unknown_outcome; refused without effect
MarkUnknown ==
    run' = IF RunEnded \/ ~run.reconciling THEN run ELSE [st |-> "failed", reconciling |-> FALSE]

-----------------------------------------------------------------------------
(* Reading the history: recover_run_from_history *)

GoRead(w, pc) == read' = [read EXCEPT ![w].pc = pc]
Result(w, st) == read' = [read EXCEPT ![w].pc = "result", ![w].st = st]

MutReadHistoryAhead(w) ==
    /\ read[w].pc = "read"
    /\ \E st \in {codex.st, "notfound"}:
            read' = [read EXCEPT ![w] = [pc |-> "check", st |-> st, upto |-> codex.made + 1, next |-> 1]]
    /\ UNCHANGED <<codex, queue, open, coll, rows, run, active, crashes, cancels>>

\* thread/read: the turn as it is now, a thread or turn that is gone, or an error
ReadHistory(w) ==
    /\ read[w].pc = "read"
    /\ \/ Result(w, "error")
       \/ \E st \in {codex.st, "notfound"}:
            read' = [read EXCEPT ![w] = [pc |-> "check", st |-> st, upto |-> codex.made, next |-> 1]]
    /\ UNCHANGED <<codex, queue, open, coll, rows, run, active, crashes, cancels>>

\* persist_reconciliation of a turn in progress
FoundRunning(w) ==
    /\ read[w].pc = "check" /\ read[w].st = "running"
    /\ IF CanReconcile THEN MarkReconciling /\ Result(w, "running")
       ELSE UNCHANGED run /\ Result(w, "error")
    /\ UNCHANGED <<codex, queue, open, coll, rows, active, crashes, cancels>>

MutBeginApplyConcluding(w) ==
    /\ read[w].pc = "check" /\ read[w].st # "running"
    /\ IF RunEnded /\ run.st # StatusOf(read[w].st)
         THEN Result(w, "error") ELSE GoRead(w, "conclude")
    /\ UNCHANGED <<codex, queue, open, coll, rows, run, active, crashes, cancels>>

\* apply_agent_run_history_recovery looks at the run, saves the messages of a completed
\* turn one by one, and looks at the run again to conclude it.
BeginApply(w) ==
    /\ read[w].pc = "check" /\ read[w].st # "running"
    /\ IF RunEnded /\ run.st # StatusOf(read[w].st)
         THEN Result(w, "error")
         ELSE GoRead(w, IF read[w].st = "completed" THEN "apply" ELSE "conclude")
    /\ UNCHANGED <<codex, queue, open, coll, rows, run, active, crashes, cancels>>

ApplyMessage(w) ==
    /\ read[w].pc = "apply"
    /\ LET i == read[w].next
       IN  IF i > read[w].upto
             THEN GoRead(w, "conclude") /\ UNCHANGED rows
             ELSE /\ Upsert(i, PhaseOf(i, IF codex.phased THEN N ELSE read[w].upto))
                  /\ read' = [read EXCEPT ![w].next = i + 1]
    /\ UNCHANGED <<codex, queue, open, coll, run, active, crashes, cancels>>

MutConcludeAgain(w) ==
    /\ read[w].pc = "conclude"
    /\ run' = [st |-> StatusOf(read[w].st), reconciling |-> FALSE]
    /\ Result(w, read[w].st)
    /\ UNCHANGED <<codex, queue, open, coll, rows, active, crashes, cancels>>

Conclude(w) ==
    /\ read[w].pc = "conclude"
    /\ IF RunEnded
         THEN /\ UNCHANGED run
              /\ Result(w, IF run.st = StatusOf(read[w].st) THEN read[w].st ELSE "error")
         ELSE /\ run' = [st |-> StatusOf(read[w].st), reconciling |-> FALSE]
              /\ Result(w, read[w].st)
    /\ UNCHANGED <<codex, queue, open, coll, rows, active, crashes, cancels>>

-----------------------------------------------------------------------------
(* The collector: CodexAgentAdapter::run and the end of execute_run *)

GoColl(pc) == coll' = [coll EXCEPT !.pc = pc]

Receive ==
    /\ coll.pc = "collect" /\ queue # <<>>
    /\ queue' = Tail(queue)
    /\ IF Head(queue).item # 0
         THEN Ingest(Head(queue).item, <<>>)
         ELSE GoColl(IF Head(queue).st = "completed" THEN "check" ELSE "fail") /\ UNCHANGED rows
    /\ UNCHANGED <<codex, open, read, run, active, crashes, cancels>>

\* The channel is closed and empty: reconcile_after_connection_loss.
Closed ==
    /\ coll.pc = "collect" /\ queue = <<>> /\ ~open
    /\ GoColl("lost")
    /\ UNCHANGED <<codex, queue, open, read, rows, run, active, crashes, cancels>>

StartRead(why) ==
    /\ coll' = [coll EXCEPT !.pc = "reading", !.why = why]
    /\ read' = [read EXCEPT !["collector"] = [NoRead EXCEPT !.pc = "read"]]

ReconcileLoss ==
    /\ coll.pc = "lost"
    /\ IF CanReconcile THEN MarkReconciling /\ StartRead("lost")
       ELSE GoColl("fail") /\ UNCHANGED <<run, read>>
    /\ UNCHANGED <<codex, queue, open, rows, active, crashes, cancels>>

\* turn_timeout: interrupt_and_reconcile
TurnTimeout ==
    /\ coll.pc = "collect"
    /\ GoColl("interrupt")
    /\ UNCHANGED <<codex, queue, open, read, rows, run, active, crashes, cancels>>

\* turn/interrupt stops a turn in progress, or is refused.
Interrupt ==
    /\ coll.pc = "interrupt"
    /\ \/ GoColl("fail") /\ UNCHANGED <<codex, queue>>
       \/ /\ GoColl("drain")
          /\ \/ codex.st = "running" /\ codex' = [codex EXCEPT !.st = "interrupted"]
                                     /\ Notify(End("interrupted"))
             \/ UNCHANGED <<codex, queue>>
    /\ UNCHANGED <<open, read, rows, run, active, crashes, cancels>>

\* What comes in before the terminal notification is observed, not yet ingested.
Drain ==
    /\ coll.pc = "drain"
    /\ \/ /\ queue # <<>>
          /\ queue' = Tail(queue)
          /\ coll' = IF Head(queue).item # 0
                       THEN [coll EXCEPT !.observed = Append(@, Head(queue).item)]
                       ELSE [coll EXCEPT !.pc = "ingest",
                                         !.then = IF Head(queue).st = "completed" THEN "check" ELSE "fail"]
          /\ UNCHANGED read
       \/ StartRead("drain") /\ UNCHANGED queue      \* deadline, or the channel is closed
    /\ UNCHANGED <<codex, open, rows, run, active, crashes, cancels>>

IngestObserved ==
    /\ coll.pc = "ingest"
    /\ IF coll.observed = <<>>
         THEN GoColl(coll.then) /\ UNCHANGED rows
         ELSE Ingest(Head(coll.observed), Tail(coll.observed))
    /\ UNCHANGED <<codex, queue, open, read, run, active, crashes, cancels>>

\* What the collector makes of the history it has read.
ReadDone ==
    /\ coll.pc = "reading" /\ read["collector"].pc = "result"
    /\ LET st == read["collector"].st
           good == st = "completed" /\ (coll.why = "nomsg" => read["collector"].upto > 0)
       IN  /\ coll' = [coll EXCEPT
                !.pc = IF coll.why = "drain" /\ st # "error" THEN "ingest"
                       ELSE IF ~good THEN "fail"
                       ELSE IF coll.why = "nomsg" THEN "finalize" ELSE "check",
                !.then = IF good THEN "check" ELSE "fail"]
           /\ IF coll.why = "lost" /\ st = "running" THEN MarkUnknown ELSE UNCHANGED run
    /\ read' = [read EXCEPT !["collector"] = NoRead]
    /\ UNCHANGED <<codex, queue, open, rows, active, crashes, cancels>>

\* A turn without a message is looked up in the history.
CheckMessages ==
    /\ coll.pc = "check"
    /\ IF coll.count = 0 THEN StartRead("nomsg") ELSE GoColl("finalize") /\ UNCHANGED read
    /\ UNCHANGED <<codex, queue, open, rows, run, active, crashes, cancels>>

\* finalize_legacy_messages: the last one held back is the final answer.
FinalizeLegacy ==
    /\ coll.pc = "finalize"
    /\ IF coll.legacy = <<>>
         THEN GoColl("ok") /\ UNCHANGED rows
         ELSE /\ Sink(Head(coll.legacy), IF Len(coll.legacy) = 1 THEN "final_answer" ELSE "commentary")
              /\ coll' = [coll EXCEPT !.legacy = Tail(@)]
    /\ UNCHANGED <<codex, queue, open, read, run, active, crashes, cancels>>

\* The end of execute_run, for a run without a pending batch, looks at the run first ...
Finish ==
    /\ coll.pc \in {"ok", "fail"}
    /\ IF RunEnded \/ (coll.pc = "ok" /\ ~active)
         THEN active' = FALSE /\ GoColl("end")
         ELSE UNCHANGED active /\ GoColl(IF coll.pc = "ok" THEN "complete" ELSE "failrun")
    /\ UNCHANGED <<codex, queue, open, read, rows, run, crashes, cancels>>

\* ... and writes afterwards, whatever the run has become: update_agent_run takes any
\* status at any time.
Outcome ==
    /\ coll.pc \in {"complete", "failrun"}
    /\ run' = [run EXCEPT !.st = IF coll.pc = "complete" THEN "completed" ELSE "failed"]
    /\ active' = FALSE
    /\ GoColl("end")
    /\ UNCHANGED <<codex, queue, open, read, rows, crashes, cancels>>

-----------------------------------------------------------------------------
(* The cached run and its row *)

\* Who changes the cached run saves it under the same lock.
Saved == row' = IF run' = run THEN row ELSE run'
Alone == Saved /\ UNCHANGED refreshVars

\* Progress notifications save the run as it is cached.
Progressed ==
    /\ coll.pc = "collect" /\ active
    /\ row' = run
    /\ UNCHANGED <<codex, queue, open, coll, read, rows, run, active, refreshVars, crashes, cancels>>

\* The end of a cadgen-ax command is one of them; refresh_session_from_repository then
\* loads the rows without the service lock ...
Refresh ==
    /\ refreshes < MaxRefreshes
    /\ coll.pc = "collect" /\ active
    /\ row' = run /\ snap' = run
    /\ refreshes' = refreshes + 1
    /\ GoColl("install")
    /\ UNCHANGED <<codex, queue, open, read, rows, run, active, crashes, cancels>>

\* ... and takes it to put what it has loaded in place of what is cached.
InstallRun ==
    /\ coll.pc = "install"
    /\ run' = snap
    /\ snap' = NewRun
    /\ GoColl("collect")
    /\ UNCHANGED <<codex, queue, open, read, rows, active, row, refreshes, crashes, cancels>>

-----------------------------------------------------------------------------
(* Cancellation, crash and startup *)

\* cancel_run of a run with a turn; the rest is the task it spawns.
Cancel ==
    /\ cancels < MaxCancels /\ read["cancel"].pc = "idle" /\ CanReconcile
    /\ MarkReconciling
    /\ GoRead("cancel", "interrupt")
    /\ cancels' = cancels + 1
    /\ UNCHANGED <<codex, queue, open, coll, rows, active, crashes>>

CancelInterrupt ==
    /\ read["cancel"].pc = "interrupt"
    /\ \/ Result("cancel", "error") /\ UNCHANGED <<codex, queue>>
       \/ /\ GoRead("cancel", "read")
          /\ \/ codex.st = "running" /\ codex' = [codex EXCEPT !.st = "interrupted"]
                                     /\ Notify(End("interrupted"))
             \/ UNCHANGED <<codex, queue>>
    /\ UNCHANGED <<open, coll, rows, run, active, crashes, cancels>>

MutCancelDoneQuietly ==
    /\ read["cancel"].pc = "result"
    /\ \/ read["cancel"].st = "running" /\ GoRead("cancel", "read") /\ UNCHANGED active
       \/ active' = FALSE /\ read' = [read EXCEPT !["cancel"] = NoRead]
    /\ UNCHANGED <<codex, queue, open, coll, run, rows, crashes, cancels>>

\* A turn in progress is read again until the deadline, then the outcome is unknown.
CancelDone ==
    /\ read["cancel"].pc = "result"
    /\ \/ read["cancel"].st = "running" /\ GoRead("cancel", "read") /\ UNCHANGED <<run, active>>
       \/ /\ IF read["cancel"].st \in {"running", "error"} THEN MarkUnknown ELSE UNCHANGED run
          /\ active' = FALSE
          /\ read' = [read EXCEPT !["cancel"] = NoRead]
    /\ UNCHANGED <<codex, queue, open, coll, rows, crashes, cancels>>

\* The process dies and is started again, and loads the rows; recover_startup_runs reads
\* the history of the run when it had not ended.
Crash ==
    /\ crashes < MaxCrashes
    /\ crashes' = crashes + 1
    /\ queue' = <<>> /\ open' = FALSE /\ active' = FALSE
    /\ coll' = [NewCollector EXCEPT !.pc = "end"]
    /\ read' = [w \in Readers |-> IF w = "startup" /\ ~Over(row)
                                    THEN [NoRead EXCEPT !.pc = "read"] ELSE NoRead]
    /\ run' = IF Over(row) THEN row ELSE [row EXCEPT !.reconciling = TRUE]
    /\ row' = run' /\ snap' = NewRun
    /\ UNCHANGED <<codex, rows, cancels, refreshes>>

\* The startup task gives up on an error only.
StartupDone ==
    /\ read["startup"].pc = "result"
    /\ IF read["startup"].st = "error" THEN MarkUnknown ELSE UNCHANGED run
    /\ read' = [read EXCEPT !["startup"] = NoRead]
    /\ UNCHANGED <<codex, queue, open, coll, rows, active, crashes, cancels>>

-----------------------------------------------------------------------------
Collect ==
    \/ Receive \/ Closed \/ ReconcileLoss \/ Interrupt \/ Drain \/ IngestObserved
    \/ ReadDone \/ CheckMessages \/ FinalizeLegacy \/ Finish \/ Outcome

ReadStep(w) ==
    ReadHistory(w) \/ FoundRunning(w) \/ BeginApply(w) \/ ApplyMessage(w) \/ Conclude(w)

Turn == CompleteItem \/ (\E st \in Terminal: CompleteTurn(st)) \/ Lose

TranscriptStep ==
    \/ Turn \/ Collect \/ TurnTimeout
    \/ \E w \in Readers: ReadStep(w)
    \/ Cancel \/ CancelInterrupt \/ CancelDone \/ StartupDone

TranscriptNext ==
    \/ TranscriptStep /\ Alone
    \/ Progressed \/ Refresh \/ InstallRun \/ Crash

TranscriptSpec == TranscriptInit /\ [][TranscriptNext]_vars

\* The tasks of the process go on and its timers fire; Codex owes nothing.
TranscriptLive ==
    /\ TranscriptSpec
    /\ WF_vars((Collect /\ Alone) \/ InstallRun) /\ WF_vars(TurnTimeout /\ Alone)
    /\ WF_vars(CancelInterrupt /\ Alone) /\ WF_vars(CancelDone /\ Alone)
    /\ WF_vars(StartupDone /\ Alone)
    /\ \A w \in Readers: WF_vars(ReadStep(w) /\ Alone)

-----------------------------------------------------------------------------
(* Properties *)

\* Every variable has its type; a read ranges over messages Codex has completed.
TranscriptTypeOK ==
    /\ codex \in [st: Terminal \cup {"running"}, made: 0..N, phased: Phases]
    /\ \A k \in DOMAIN queue: queue[k] \in {Item(i): i \in Msgs} \cup {End(st): st \in Terminal}
    /\ open \in BOOLEAN /\ active \in BOOLEAN
    /\ coll \in Collector
    /\ read \in [Readers -> Read]
    /\ rows \in [Msgs -> {"commentary", "final_answer", Absent}]
    /\ run \in RunStates /\ row \in RunStates /\ snap \in RunStates
    /\ crashes \in 0..MaxCrashes /\ cancels \in 0..MaxCancels /\ refreshes \in 0..MaxRefreshes
    /\ \A w \in Readers: read[w].upto <= codex.made

\* A run that says completed has every message Codex completed in its turn: the messages
\* are saved before the outcome, whoever gets there first and wherever the process dies.
CompletedHasMessages ==
    run.st = "completed" => \A i \in 1..codex.made: rows[i] # Absent

\* A turn has one final answer ("phase_less_completed_messages_classify_only_the_last_as_
\* final_answer").
OneFinalAnswer ==
    \A i, j \in Msgs: rows[i] = "final_answer" /\ rows[j] = "final_answer" => i = j

\* An ended run keeps its outcome, although several tasks conclude it and a restart loads
\* it again: only the task of the gateway takes it back, when the run ends between its last
\* look and its update, or between the load and the installation of a refresh.
OutcomeStands ==
    [][RunEnded /\ run' # run =>
          \/ coll.pc \in {"complete", "failrun"} /\ coll'.pc = "end"
          \/ coll.pc = "install" /\ coll'.pc = "collect" /\ ~Over(snap)]_vars

\* Every run comes to an end, unless the startup task has found its turn still in
\* progress, or a refresh takes back the mark that somebody is reconciling the run:
\* interrupted, refused, timed out, cancelled or cut off, somebody who is still to look
\* at the run concludes it.
RunEnds ==
    <>\/ RunEnded
      \/ read["startup"].st = "running"
      \/ coll.pc = "install" /\ run.reconciling /\ ~snap.reconciling

\* "interrupted runs are restored or explicitly failed": without these exceptions.
EveryRunEnds == <>RunEnded

\* What the conversation satisfies in every state.
TranscriptInv == TranscriptTypeOK /\ CompletedHasMessages

=============================================================================
