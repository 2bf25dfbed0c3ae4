------------------------------- MODULE VlmTurn -------------------------------
(***************************************************************************)
(* codex_vlm_evaluator.rs: the turn that judges one VLM check.  Codex runs *)
(* items; the check accepts the report of exactly one successful           *)
(* cadgen-ax-vlm-submit in a turn that completes and does nothing it may   *)
(* not do.  The report is taken from the notifications as they arrive, or, *)
(* when the process died in between, from the history of the thread.  What *)
(* threads, leases and routes do for it is in AgentThreads and             *)
(* NotificationRouter.                                                     *)
(***************************************************************************)
EXTENDS Naturals, Sequences

CONSTANTS
    MaxItems,       \* bound: items of the turn
    MaxCrashes      \* bound: restarts of the process

ASSUME VlmAssumption == MaxItems \in Nat /\ MaxCrashes \in Nat

VARIABLES
    items,      \* the turn's items, as the history lists them
    turn,       \* its status
    open,       \* the route is registered and its connection alive
    queue,      \* notifications routed and not yet received
    events,     \* validation_check_events
    held,       \* StrictValidationCollector.submission: an item, 0 for none
    observed,   \* notifications received after the interrupt
    pc,         \* where the evaluation is
    result,     \* what it returns: the submitting item, 0 for an error
    status,     \* validation_checks.status
    report,     \* the submission the check's report was taken from
    crashes

client == <<held, observed, pc, result>>
codex == <<items, turn, open, queue>>
row == <<status, report>>
vars == <<items, turn, open, queue, events, held, observed, pc, result, status, report, crashes>>

\* plain: reasoning, messages, commands without the submission's envelope; submit and
\* broken: with it, successful or not; forbidden: any other type of item.
Kinds == {"plain", "submit", "broken", "forbidden"}
Ends == {"completed", "failed", "interrupted"}
Items == 1..Len(items)
Note(what, item, st) == [what |-> what, item |-> item, st |-> st]
Terminal(s) == s \in {"completed", "failed"}

VlmInit ==
    /\ items = <<>> /\ turn = "none" /\ open = FALSE /\ queue = <<>>
    /\ events = {}
    /\ held = 0 /\ observed = <<>> /\ pc = "idle" /\ result = 0
    /\ status = "queued" /\ report = 0
    /\ crashes = 0

-----------------------------------------------------------------------------
(* The app-server *)

Routed(n) == IF open THEN Append(queue, n) ELSE queue
AllDone == \A i \in Items: items[i].done

BeginItem(k) ==
    /\ turn = "inProgress" /\ AllDone /\ Len(items) < MaxItems
    /\ items' = Append(items, [kind |-> k, done |-> FALSE])
    /\ queue' = Routed(Note("started", Len(items) + 1, "none"))
    /\ UNCHANGED <<turn, open, events, client, row, crashes>>

EndItem ==
    /\ turn = "inProgress" /\ ~AllDone
    /\ items' = [items EXCEPT ![Len(items)].done = TRUE]
    /\ queue' = Routed(Note("completed", Len(items), "none"))
    /\ UNCHANGED <<turn, open, events, client, row, crashes>>

EndTurn(s) ==
    /\ turn = "inProgress" /\ (s = "completed" => AllDone)
    /\ turn' = s
    /\ queue' = Routed(Note("ended", 0, s))
    /\ UNCHANGED <<items, open, events, client, row, crashes>>

\* The app-server ends with its connection; a turn under way is found interrupted or
\* still in progress, and the last notifications may not have been routed.
Stopped == IF turn = "inProgress" THEN {turn, "interrupted"} ELSE {turn}

LoseConnection ==
    /\ open
    /\ open' = FALSE
    /\ turn' \in Stopped
    /\ \E n \in 0..Len(queue): queue' = SubSeq(queue, 1, n)
    /\ UNCHANGED <<items, events, client, row, crashes>>

-----------------------------------------------------------------------------
(* StrictValidationCollector *)

MutRefusedAllowingTwo(n, h) ==
    \/ n.what = "started" /\ items[n.item].kind = "forbidden"
    \/ n.what = "completed" /\ items[n.item].kind \in {"broken", "forbidden"}
    \/ n.what = "ended" /\ (n.st # "completed" \/ h = 0)

\* ingest returns an error
Refused(n, h) ==
    \/ n.what = "started" /\ items[n.item].kind = "forbidden"
    \/ n.what = "completed" /\ items[n.item].kind \in {"broken", "forbidden"}
    \/ n.what = "completed" /\ items[n.item].kind = "submit" /\ h # 0
    \/ n.what = "ended" /\ (n.st # "completed" \/ h = 0)

Kept(n, h) == IF n.what = "completed" /\ items[n.item].kind = "submit" THEN n.item ELSE h

-----------------------------------------------------------------------------
(* evaluate_check *)

\* The turn is started and bound to the check, or the check fails before that.
Start ==
    /\ pc = "idle"
    /\ \/ /\ pc' = "collect" /\ turn' = "inProgress" /\ open' = TRUE /\ status' = "running"
       \/ pc' = "done" /\ status' = "failed" /\ UNCHANGED <<turn, open>>
    /\ UNCHANGED <<items, queue, events, held, observed, result, report, crashes>>

\* An error leaves the loop; finish_turn follows.
GiveUp == pc' = "finish" /\ result' = 0

MutCollectUnsaved ==
    /\ pc = "collect" /\ queue # <<>>
    /\ queue' = Tail(queue)
    /\ LET n == Head(queue) IN
         /\ events' \in {events, events \cup {n}}
         /\ \/ Refused(n, held) /\ GiveUp /\ UNCHANGED held
            \/ /\ ~Refused(n, held)
               /\ held' = Kept(n, held)
               /\ IF n.what = "ended" THEN pc' = "finish" /\ result' = held
                                      ELSE UNCHANGED <<pc, result>>
    /\ UNCHANGED <<items, turn, open, observed, row, crashes>>

\* One turn of the loop: persist_check_notification, which may fail, then ingest.
Collect ==
    /\ pc = "collect" /\ queue # <<>>
    /\ queue' = Tail(queue)
    /\ LET n == Head(queue) IN
         \/ /\ events' = events \cup {n}
            /\ \/ Refused(n, held) /\ GiveUp /\ UNCHANGED held
               \/ /\ ~Refused(n, held)
                  /\ held' = Kept(n, held)
                  /\ IF n.what = "ended" THEN pc' = "finish" /\ result' = held
                                         ELSE UNCHANGED <<pc, result>>
         \/ GiveUp /\ UNCHANGED <<events, held>>
    /\ UNCHANGED <<items, turn, open, observed, row, crashes>>

RouteClosed ==
    /\ pc = "collect" /\ queue = <<>> /\ ~open
    /\ GiveUp
    /\ UNCHANGED <<codex, events, held, observed, row, crashes>>

TimeOut ==
    /\ pc = "collect"
    /\ pc' = "interrupt"
    /\ UNCHANGED <<codex, events, held, observed, result, row, crashes>>

\* interrupt_and_reconcile: turn/interrupt is refused, or the turn ends by it, or
\* had ended or is about to end otherwise
Interrupt ==
    /\ pc = "interrupt"
    /\ \/ GiveUp /\ UNCHANGED <<turn, queue>>
       \/ pc' = "drain" /\ UNCHANGED <<turn, queue, result>>
       \/ /\ turn = "inProgress" /\ open
          /\ turn' = "interrupted"
          /\ queue' = Routed(Note("ended", 0, "interrupted"))
          /\ pc' = "drain" /\ UNCHANGED result
    /\ UNCHANGED <<items, open, events, held, observed, row, crashes>>

Drain ==
    /\ pc = "drain" /\ queue # <<>>
    /\ observed' = Append(observed, Head(queue)) /\ queue' = Tail(queue)
    /\ pc' = IF Head(queue).what = "ended" THEN "replay" ELSE pc
    /\ UNCHANGED <<items, turn, open, events, held, result, row, crashes>>

\* The deadline passes or the route closes; the history is read, for its status only.
DrainOver ==
    /\ pc = "drain"
    /\ \/ pc' = "replay" /\ UNCHANGED result
       \/ GiveUp
    /\ UNCHANGED <<codex, events, held, observed, row, crashes>>

\* What was received meanwhile is persisted and ingested; the check fails all the same.
Replay ==
    /\ pc = "replay"
    /\ IF observed = <<>> THEN GiveUp /\ UNCHANGED <<events, held, observed>>
       ELSE LET n == Head(observed) IN
            /\ observed' = Tail(observed)
            /\ \/ /\ events' = events \cup {n}
                  /\ IF Refused(n, held) THEN GiveUp /\ UNCHANGED held
                     ELSE held' = Kept(n, held) /\ UNCHANGED <<pc, result>>
               \/ GiveUp /\ UNCHANGED <<events, held>>
    /\ UNCHANGED <<codex, row, crashes>>

\* finish_turn archives the thread and gives up the route, or fails the evaluation.
Finish ==
    /\ pc = "finish"
    /\ pc' = "record"
    /\ result' \in {result, 0}
    /\ open' = FALSE /\ queue' = <<>>
    /\ UNCHANGED <<items, turn, events, held, observed, row, crashes>>

MutRecordAnything ==
    /\ pc = "record"
    /\ pc' = "done"
    /\ \/ status' = "completed" /\ report' = result
       \/ status' = "failed" /\ UNCHANGED report
    /\ UNCHANGED <<codex, events, held, observed, result, crashes>>

\* execute_vlm_check: a report that meets its contract completes the check.
Record ==
    /\ pc = "record"
    /\ pc' = "done"
    /\ \/ result # 0 /\ status' = "completed" /\ report' = result
       \/ status' = "failed" /\ UNCHANGED report
    /\ UNCHANGED <<codex, events, held, observed, result, crashes>>

-----------------------------------------------------------------------------
(* The process dies and starts again *)

Crash ==
    /\ pc # "down" /\ crashes < MaxCrashes
    /\ crashes' = crashes + 1
    /\ pc' = "down" /\ held' = 0 /\ observed' = <<>> /\ result' = 0
    /\ open' = FALSE /\ queue' = <<>>
    /\ turn' \in Stopped
    /\ UNCHANGED <<items, events, row>>

Restart ==
    /\ pc = "down"
    /\ pc' = CASE status = "queued" -> "idle" [] status = "running" -> "recover"
               [] OTHER -> "done"
    /\ UNCHANGED <<codex, events, held, observed, result, row, crashes>>

\* parse_strict_validation_history
Submissions == {i \in Items: items[i].kind = "submit"}
Accepted(i) ==
    /\ turn = "completed"
    /\ \A j \in Items: items[j].kind \in {"plain", "submit"}
    /\ Submissions = {i}

MutRecoverWaiting ==
    /\ pc = "recover" /\ turn # "inProgress"
    /\ pc' = "record"
    /\ result' \in {0} \cup {i \in Items: Accepted(i)}
    /\ UNCHANGED <<codex, events, held, observed, row, crashes>>

\* recover_check: thread/read fails or finds no thread, or the history is parsed; the
\* outcome of a turn still in progress is unknown, an error.
Recover ==
    /\ pc = "recover"
    /\ pc' = "record"
    /\ result' \in {0} \cup {i \in Items: Accepted(i)}
    /\ UNCHANGED <<codex, events, held, observed, row, crashes>>

-----------------------------------------------------------------------------
Evaluate ==
    \/ Start \/ Collect \/ RouteClosed \/ Interrupt \/ Drain \/ DrainOver \/ Replay
    \/ Finish \/ Record \/ Restart \/ Recover

VlmNext ==
    \/ \E k \in Kinds: BeginItem(k)
    \/ EndItem
    \/ \E s \in Ends: EndTurn(s)
    \/ LoseConnection
    \/ Evaluate
    \/ TimeOut
    \/ Crash

\* The turn and the drain have timeouts, requests are answered or time out, and the
\* user starts the application again.
Fairness == WF_vars(Evaluate) /\ WF_vars(TimeOut)

VlmSpec == VlmInit /\ [][VlmNext]_vars
FairVlmSpec == VlmSpec /\ Fairness

-----------------------------------------------------------------------------
(* Properties *)

NoteType ==
    [what: {"started", "completed", "ended"}, item: 0..MaxItems, st: Ends \cup {"none"}]

\* Every variable has its type, and a check has a report exactly when it is completed.
VlmTypeOK ==
    /\ items \in Seq([kind: Kinds, done: BOOLEAN]) /\ Len(items) <= MaxItems
    /\ turn \in Ends \cup {"none", "inProgress"}
    /\ open \in BOOLEAN
    /\ queue \in Seq(NoteType) /\ observed \in Seq(NoteType)
    /\ events \subseteq NoteType
    /\ held \in 0..MaxItems /\ result \in 0..MaxItems
    /\ pc \in {"idle", "collect", "interrupt", "drain", "replay", "finish", "record",
               "done", "down", "recover"}
    /\ status \in {"queued", "running", "completed", "failed"}
    /\ report \in 0..MaxItems /\ (status = "completed" <=> report # 0)
    /\ crashes \in 0..MaxCrashes

\* A completed check was judged by the one submission of a turn that completed and had
\* no failed submission and no forbidden item, whether the notifications were followed
\* or the history was read, and whatever was interrupted, lost or timed out.
ReportIsTheSubmission == status = "completed" => Accepted(report)

Earlier(n) ==
    CASE n.what = "started" ->
            {Note(w, i, "none"): w \in {"started", "completed"}, i \in 1..(n.item - 1)}
      [] n.what = "completed" ->
            {Note(w, i, "none"): w \in {"started", "completed"}, i \in 1..(n.item - 1)}
                \cup {Note("started", n.item, "none")}
      [] OTHER -> {Note("completed", i, "none"): i \in {j \in Items: items[j].done}}

\* The evidence kept of a turn has no gap: a notification is saved only after all that
\* the turn emitted before it, so the submission a report was taken from is on record.
EvidenceHasNoGap == \A n \in events: Earlier(n) \subseteq events

\* A check that runs is concluded: the turn goes silent, the connection is lost, or the
\* process dies, and still the batch does not wait for it for ever.
CheckConcludes == (status = "running") ~> Terminal(status)

\* What the evaluation and its record satisfy in every state.
VlmInv == VlmTypeOK /\ ReportIsTheSubmission /\ EvidenceHasNoGap

=============================================================================
