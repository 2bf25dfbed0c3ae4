---------------------------- MODULE VlmTurnProofs ----------------------------
(***************************************************************************)
(* Proofs about the turn of one VLM check: a completed check was judged by *)
(* the one submission of a turn that completed, and the evidence kept of   *)
(* the turn has no gap.  The argument: while the route is open, what is    *)
(* stored, held back and still queued is all that the turn has emitted, in *)
(* the order it was emitted; so the notification that ends the turn comes  *)
(* when every item before it has been looked at.                           *)
(***************************************************************************)
EXTENDS VlmTurn, SequenceTheorems, TLAPS

Listening == {"collect", "interrupt", "drain"}

\* The check is bound to the turn while the evaluation is at work.
PhaseFollowsStatus ==
    /\ pc \in Listening \cup {"replay", "finish", "record", "recover"} => status = "running"
    /\ open => pc \in Listening \cup {"replay", "finish"}
    /\ status = "queued" =>
          pc \in {"idle", "down"} /\ turn = "none" /\ events = {} /\ queue = <<>>
    /\ pc = "idle" => status = "queued" /\ held = 0 /\ observed = <<>>
    /\ pc = "down" => held = 0 /\ observed = <<>>
    /\ pc \in {"collect", "interrupt"} => observed = <<>>

\* Items end in the order in which they begin, and a completed turn has ended all.
ItemsInOrder ==
    /\ turn = "none" => items = <<>>
    /\ turn = "completed" => AllDone
    /\ \A i \in Items : i < Len(items) => items[i].done

\* A notification tells of something the turn has done.
TrueNote(n) ==
    \/ /\ n.what \in {"started", "completed"} /\ n.st = "none" /\ n.item \in Items
       /\ n.what = "completed" => items[n.item].done
    \/ n.what = "ended" /\ n.item = 0 /\ n.st = turn /\ turn \in Ends

NotesAreTrue == \A n \in events \cup Range(queue) \cup Range(observed) : TrueNote(n)

\* What the turn has emitted before it ends.
Emitted ==
    {Note("started", i, "none") : i \in Items}
        \cup {Note("completed", i, "none") : i \in {j \in Items : items[j].done}}

\* A notification on its way has all that came before it stored or in front of it.
NothingOvertakes ==
    /\ pc \in Listening =>
          \A i \in DOMAIN queue, n \in NoteType : n = queue[i] =>
             Earlier(n) \subseteq events \cup Range(observed) \cup {queue[j] : j \in 1..(i - 1)}
    /\ pc \in {"drain", "replay"} =>
          \A i \in DOMAIN observed, n \in NoteType : n = observed[i] =>
             Earlier(n) \subseteq events \cup {observed[j] : j \in 1..(i - 1)}
    /\ open /\ pc \in Listening => Emitted \subseteq events \cup Range(observed) \cup Range(queue)

\* What the collector has accepted so far.
CollectorKnows ==
    pc = "collect" =>
        /\ \A i \in Items : Note("completed", i, "none") \in events =>
              items[i].kind \in {"plain", "submit"} /\ (items[i].kind = "submit" => held = i)
        /\ held # 0 => held \in Items /\ items[held].kind = "submit"

ResultIsAccepted == pc \in {"finish", "record"} /\ result # 0 => Accepted(result)

VlmIInv ==
    /\ VlmTypeOK
    /\ PhaseFollowsStatus
    /\ ItemsInOrder
    /\ NotesAreTrue
    /\ NothingOvertakes
    /\ CollectorKnows
    /\ ResultIsAccepted
    /\ ReportIsTheSubmission
    /\ EvidenceHasNoGap

-----------------------------------------------------------------------------
(* Sequences of notifications. *)

\* What an appended notification makes of a queue.
LEMMA AppendIs ==
    ASSUME NEW S, NEW s \in Seq(S), NEW e \in S
    PROVE  /\ Append(s, e) \in Seq(S) /\ Len(Append(s, e)) = Len(s) + 1
           /\ DOMAIN Append(s, e) = 1..(Len(s) + 1) /\ DOMAIN s = 1..Len(s) /\ Len(s) \in Nat
           /\ \A i \in 1..Len(s) : Append(s, e)[i] = s[i]
           /\ Append(s, e)[Len(s) + 1] = e
           /\ Range(Append(s, e)) = Range(s) \cup {e}
<1>1. /\ Append(s, e) \in Seq(S) /\ Len(Append(s, e)) = Len(s) + 1
      /\ DOMAIN Append(s, e) = 1..(Len(s) + 1) /\ DOMAIN s = 1..Len(s) /\ Len(s) \in Nat
      /\ \A i \in 1..Len(s) : Append(s, e)[i] = s[i]
      /\ Append(s, e)[Len(s) + 1] = e
  OBVIOUS
<1>2. Range(Append(s, e)) \subseteq Range(s) \cup {e}
  <2> SUFFICES ASSUME NEW i \in 1..(Len(s) + 1)
               PROVE  Append(s, e)[i] \in Range(s) \cup {e}
    BY <1>1 DEF Range
  <2>1. i \in 1..Len(s) \/ i = Len(s) + 1
    BY <1>1
  <2> QED
    BY <1>1, <2>1 DEF Range
<1>3. Range(s) \subseteq Range(Append(s, e))
  <2> SUFFICES ASSUME NEW i \in 1..Len(s)
               PROVE  s[i] \in Range(Append(s, e))
    BY <1>1 DEF Range
  <2>1. i \in 1..(Len(s) + 1)
    BY <1>1
  <2> QED
    BY <1>1, <2>1 DEF Range
<1>4. e \in Range(Append(s, e))
  <2>1. Len(s) + 1 \in 1..(Len(s) + 1)
    BY <1>1
  <2> QED
    BY <1>1, <2>1 DEF Range
<1> QED
  BY <1>1, <1>2, <1>3, <1>4

\* What is left of a queue whose first notification is taken.
LEMMA TailIs ==
    ASSUME NEW S, NEW s \in Seq(S), s # <<>>
    PROVE  /\ Head(s) \in S /\ Head(s) = s[1] /\ 1 \in DOMAIN s
           /\ Tail(s) \in Seq(S) /\ DOMAIN s = 1..Len(s) /\ Len(s) \in Nat
           /\ DOMAIN Tail(s) = 1..(Len(s) - 1)
           /\ \A i \in 1..(Len(s) - 1) : Tail(s)[i] = s[i + 1]
           /\ Range(s) = {Head(s)} \cup Range(Tail(s))
<1>1. /\ Head(s) \in S /\ Head(s) = s[1] /\ 1 \in DOMAIN s
      /\ Tail(s) \in Seq(S) /\ DOMAIN s = 1..Len(s) /\ Len(s) \in Nat
      /\ DOMAIN Tail(s) = 1..(Len(s) - 1)
      /\ \A i \in 1..(Len(s) - 1) : Tail(s)[i] = s[i + 1]
  BY HeadTailProperties, LenProperties, EmptySeq
<1>2. Range(s) \subseteq {Head(s)} \cup Range(Tail(s))
  <2> SUFFICES ASSUME NEW i \in 1..Len(s)
               PROVE  s[i] \in {Head(s)} \cup Range(Tail(s))
    BY <1>1 DEF Range
  <2>1. i = 1 \/ (i - 1 \in 1..(Len(s) - 1) /\ Tail(s)[i - 1] = s[i])
    BY <1>1
  <2> QED
    BY <1>1, <2>1 DEF Range
<1>3. Range(Tail(s)) \subseteq Range(s)
  <2> SUFFICES ASSUME NEW i \in 1..(Len(s) - 1)
               PROVE  Tail(s)[i] \in Range(s)
    BY <1>1 DEF Range
  <2>1. i + 1 \in 1..Len(s)
    BY <1>1
  <2> QED
    BY <1>1, <2>1 DEF Range
<1> QED
  BY <1>1, <1>2, <1>3 DEF Range

\* What is left of a queue that is cut.
LEMMA PrefixIs ==
    ASSUME NEW S, NEW s \in Seq(S), NEW n \in 0..Len(s)
    PROVE  /\ SubSeq(s, 1, n) \in Seq(S) /\ DOMAIN SubSeq(s, 1, n) = 1..n
           /\ DOMAIN s = 1..Len(s) /\ Len(s) \in Nat
           /\ \A i \in 1..n : SubSeq(s, 1, n)[i] = s[i]
           /\ Range(SubSeq(s, 1, n)) \subseteq Range(s)
<1>1. Len(s) \in Nat /\ DOMAIN s = 1..Len(s) /\ n \in Nat /\ \A i \in 1..n : s[i] \in S
  BY LenProperties, ElementOfSeq
<1>2. /\ SubSeq(s, 1, n) \in Seq(S)
      /\ Len(SubSeq(s, 1, n)) = n
      /\ \A i \in 1..n : SubSeq(s, 1, n)[i] = s[i]
  <2>1. /\ SubSeq(s, 1, n) \in Seq(S)
        /\ Len(SubSeq(s, 1, n)) = IF 1 <= n THEN n - 1 + 1 ELSE 0
        /\ \A i \in 1..(n - 1 + 1) : SubSeq(s, 1, n)[i] = s[1 + i - 1]
    BY <1>1, SubSeqProperties
  <2> QED
    BY <1>1, <2>1
<1>3. DOMAIN SubSeq(s, 1, n) = 1..n
  BY <1>2, LenProperties
<1> QED
  BY <1>1, <1>2, <1>3 DEF Range

-----------------------------------------------------------------------------
(* Every variable keeps its type. *)

\* What the type invariant says of the sequences, and of the numbers.
LEMMA Typed ==
    ASSUME VlmTypeOK
    PROVE  /\ items \in Seq([kind: Kinds, done: BOOLEAN]) /\ Len(items) \in Nat
           /\ DOMAIN items = Items /\ Len(items) <= MaxItems /\ MaxItems \in Nat
           /\ queue \in Seq(NoteType) /\ observed \in Seq(NoteType)
           /\ \A i \in Items : i \in Nat /\ 1 <= i /\ i <= Len(items) /\ i \in 0..MaxItems
           /\ 0 \in 0..MaxItems
           /\ \A n \in NoteType : n.item \in 0..MaxItems
BY VlmAssumption, LenProperties DEF VlmTypeOK, Items, NoteType

\* The app-server's steps change items, turn and queue only.
LEMMA ServerTyped ==
    ASSUME VlmTypeOK, (\E k \in Kinds : BeginItem(k)) \/ EndItem \/ (\E s \in Ends : EndTurn(s))
    PROVE  VlmTypeOK'
<1> DEFINE I == [kind: Kinds, done: BOOLEAN]
<1>0. /\ items \in Seq(I) /\ Len(items) \in Nat /\ Len(items) <= MaxItems /\ MaxItems \in Nat
      /\ queue \in Seq(NoteType) /\ observed \in Seq(NoteType)
  BY Typed
<1>1. ASSUME NEW n \in NoteType PROVE Routed(n) \in Seq(NoteType)
  BY <1>0, AppendIs DEF Routed
<1>2. ASSUME NEW k \in Kinds, BeginItem(k) PROVE VlmTypeOK'
  <2>1. Note("started", Len(items) + 1, "none") \in NoteType
    BY <1>0, <1>2 DEF BeginItem, Note, NoteType
  <2>2. queue' \in Seq(NoteType)
    BY <1>1, <1>2, <2>1 DEF BeginItem
  <2>3. [kind |-> k, done |-> FALSE] \in I
    OBVIOUS
  <2>4. items' \in Seq(I) /\ Len(items') = Len(items) + 1
    BY <1>0, <1>2, <2>3, AppendIs DEF BeginItem
  <2>5. Len(items') <= MaxItems
    BY <1>0, <1>2, <2>4 DEF BeginItem
  <2> QED
    BY <1>2, <2>2, <2>4, <2>5 DEF BeginItem, VlmTypeOK, client, row
<1>3. CASE EndItem
  <2>1. Len(items) \in 1..Len(items)
    BY <1>0, <1>3 DEF EndItem, AllDone, Items
  <2>2. Note("completed", Len(items), "none") \in NoteType
    BY <1>0, <2>1 DEF Note, NoteType
  <2>3. queue' \in Seq(NoteType)
    BY <1>1, <1>3, <2>2 DEF EndItem
  <2>4. [items[Len(items)] EXCEPT !.done = TRUE] \in I
    <3>1. items[Len(items)] \in I
      BY <1>0, <2>1, ElementOfSeq
    <3> QED
      BY <3>1
  <2>5. items' = [items EXCEPT ![Len(items)] = [items[Len(items)] EXCEPT !.done = TRUE]]
    BY <1>3 DEF EndItem
  <2>6. items' \in Seq(I) /\ Len(items') = Len(items)
    BY <1>0, <2>1, <2>4, <2>5, ExceptSeq
  <2> QED
    BY <1>0, <1>3, <2>3, <2>6 DEF EndItem, VlmTypeOK, client, row
<1>4. ASSUME NEW s \in Ends, EndTurn(s) PROVE VlmTypeOK'
  <2>1. Note("ended", 0, s) \in NoteType
    BY <1>0 DEF Note, NoteType
  <2>2. queue' \in Seq(NoteType)
    BY <1>1, <1>4, <2>1 DEF EndTurn
  <2> QED
    BY <1>4, <2>2 DEF EndTurn, VlmTypeOK, client, row
<1> QED
  BY <1>2, <1>3, <1>4

\* The evaluation's steps and those of the environment.
LEMMA VlmTypeStep ==
    ASSUME VlmIInv, VlmNext
    PROVE  VlmTypeOK'
<1>0. /\ VlmTypeOK
      /\ queue \in Seq(NoteType) /\ observed \in Seq(NoteType)
      /\ <<>> \in Seq(NoteType)
      /\ 0 \in 0..MaxItems
      /\ turn \in Ends \cup {"none", "inProgress"}
  BY Typed, EmptySeq DEF VlmIInv, VlmTypeOK
<1>1. ASSUME NEW n \in NoteType PROVE Routed(n) \in Seq(NoteType)
  BY <1>0, AppendIs DEF Routed
<1>2. queue # <<>> => /\ Tail(queue) \in Seq(NoteType) /\ Head(queue) \in NoteType
                      /\ Head(queue).item \in 0..MaxItems
  BY <1>0, TailIs, Typed
<1>3. observed # <<>> => /\ Tail(observed) \in Seq(NoteType) /\ Head(observed) \in NoteType
                         /\ Head(observed).item \in 0..MaxItems
  BY <1>0, TailIs, Typed
<1>4. CASE LoseConnection
  <2>1. queue' \in Seq(NoteType)
    BY <1>0, <1>4, PrefixIs DEF LoseConnection
  <2>2. turn' \in Ends \cup {"none", "inProgress"}
    BY <1>0, <1>4 DEF LoseConnection, Stopped, Ends
  <2> QED
    BY <1>0, <1>4, <2>1, <2>2 DEF LoseConnection, VlmTypeOK, client, row
<1>5. CASE Start
  <2>1. report = 0
    BY <1>0, <1>5 DEF Start, VlmIInv, PhaseFollowsStatus, VlmTypeOK
  <2> QED
    BY <1>0, <1>5, <2>1 DEF Start, VlmTypeOK
<1>6. CASE Collect
  <2> DEFINE n == Head(queue)
  <2>1. /\ queue' \in Seq(NoteType) /\ n \in NoteType /\ Kept(n, held) \in 0..MaxItems
        /\ events' \in {events, events \cup {n}} /\ held' \in {held, Kept(n, held)}
        /\ result' \in {0, result, held'} /\ pc' \in {"collect", "finish"}
    BY <1>0, <1>2, <1>6 DEF Collect, GiveUp, Kept, VlmTypeOK
  <2> QED
    BY <1>0, <1>6, <2>1 DEF Collect, VlmTypeOK, row
<1>7. CASE RouteClosed \/ TimeOut \/ DrainOver
  BY <1>0, <1>7 DEF RouteClosed, TimeOut, DrainOver, GiveUp, VlmTypeOK, codex, row
<1>8. CASE Interrupt
  <2>1. Note("ended", 0, "interrupted") \in NoteType
    BY <1>0 DEF Note, NoteType, Ends
  <2>2. queue' \in Seq(NoteType) /\ turn' \in Ends \cup {"none", "inProgress"}
    BY <1>0, <1>1, <1>8, <2>1 DEF Interrupt, Ends
  <2> QED
    BY <1>0, <1>8, <2>2 DEF Interrupt, GiveUp, VlmTypeOK, row
<1>9. CASE Drain
  <2>1. queue' \in Seq(NoteType) /\ observed' \in Seq(NoteType)
    BY <1>0, <1>2, <1>9, AppendIs DEF Drain
  <2> QED
    BY <1>0, <1>9, <2>1 DEF Drain, VlmTypeOK, row
<1>10. CASE Replay
  <2> DEFINE n == Head(observed)
  <2>1. CASE observed = <<>>
    BY <1>0, <1>10, <2>1 DEF Replay, GiveUp, VlmTypeOK, codex, row
  <2>2. CASE observed # <<>>
    <3>1. /\ observed' \in Seq(NoteType) /\ n \in NoteType /\ Kept(n, held) \in 0..MaxItems
          /\ events' \in {events, events \cup {n}} /\ held' \in {held, Kept(n, held)}
          /\ result' \in {0, result} /\ pc' \in {"replay", "finish"}
      BY <1>0, <1>3, <1>10, <2>2 DEF Replay, GiveUp, Kept, VlmTypeOK
    <3> QED
      BY <1>0, <1>10, <3>1 DEF Replay, VlmTypeOK, codex, row
  <2> QED
    BY <2>1, <2>2
<1>11. CASE Finish
  BY <1>0, <1>11 DEF Finish, VlmTypeOK, row
<1>12. CASE Record
  <2>1. report = 0
    BY <1>12 DEF Record, VlmIInv, PhaseFollowsStatus, VlmTypeOK
  <2> QED
    BY <1>0, <1>12, <2>1 DEF Record, VlmTypeOK, codex
<1>13. CASE Crash
  <2>1. turn' \in Ends \cup {"none", "inProgress"}
    BY <1>0, <1>13 DEF Crash, Stopped, Ends
  <2>2. crashes' \in 0..MaxCrashes
    <3>1. crashes \in 0..MaxCrashes /\ MaxCrashes \in Nat
      BY <1>0, VlmAssumption DEF VlmTypeOK
    <3>2. crashes < MaxCrashes /\ crashes' = crashes + 1
      BY <1>13 DEF Crash
    <3> QED
      BY <3>1, <3>2
  <2> QED
    BY <1>0, <1>13, <2>1, <2>2 DEF Crash, VlmTypeOK, row
<1>14. CASE Restart
  <2>1. pc' \in {"idle", "recover", "done"}
    BY <1>14 DEF Restart
  <2> QED
    BY <1>0, <1>14, <2>1 DEF Restart, VlmTypeOK, codex, row
<1>15. CASE Recover
  <2>1. result' \in 0..MaxItems
    BY <1>0, <1>15, Typed DEF Recover
  <2> QED
    BY <1>0, <1>15, <2>1 DEF Recover, VlmTypeOK, codex, row
<1> QED
  BY <1>0, <1>4, <1>5, <1>6, <1>7, <1>8, <1>9, <1>10, <1>11, <1>12, <1>13, <1>14, <1>15, ServerTyped
     DEF VlmNext, Evaluate

-----------------------------------------------------------------------------
(* The turn, and where the evaluation is. *)

\* The evaluation stays bound to its turn.
LEMMA PhaseStep ==
    ASSUME VlmIInv, VlmNext
    PROVE  PhaseFollowsStatus'
<1>0. PhaseFollowsStatus
  BY DEF VlmIInv
<1>1. CASE (\E k \in Kinds : BeginItem(k)) \/ EndItem \/ (\E s \in Ends : EndTurn(s)) \/ LoseConnection
  <2>1. turn # "none" \/ LoseConnection
    BY <1>1 DEF BeginItem, EndItem, EndTurn
  <2>2. CASE LoseConnection
    BY <1>0, <2>2 DEF LoseConnection, client, row, PhaseFollowsStatus, Listening
  <2>3. status # "queued" \/ LoseConnection
    BY <1>0, <2>1, <1>1 DEF BeginItem, EndItem, EndTurn, PhaseFollowsStatus
  <2>4. LoseConnection \/ UNCHANGED <<status, pc, open, held, observed>>
    BY <1>1 DEF BeginItem, EndItem, EndTurn, client, row
  <2> QED
    BY <1>0, <2>2, <2>3, <2>4 DEF PhaseFollowsStatus
<1>2. CASE Start
  BY <1>0, <1>2 DEF Start, PhaseFollowsStatus, Listening
<1>3. CASE Collect \/ RouteClosed \/ TimeOut \/ Interrupt
  BY <1>0, <1>3 DEF Collect, RouteClosed, TimeOut, Interrupt, GiveUp, codex, row, PhaseFollowsStatus,
     Listening
<1>4. CASE Drain \/ DrainOver \/ Replay \/ Finish \/ Record
  BY <1>0, <1>4 DEF Drain, DrainOver, Replay, Finish, Record, GiveUp, codex, row, PhaseFollowsStatus,
     Listening
<1>5. CASE Crash
  <2>1. status = "queued" => turn' = "none"
    BY <1>0, <1>5 DEF Crash, Stopped, PhaseFollowsStatus
  <2> QED
    BY <1>0, <1>5, <2>1 DEF Crash, row, PhaseFollowsStatus, Listening
<1>6. CASE Restart \/ Recover
  BY <1>0, <1>6 DEF Restart, Recover, codex, row, PhaseFollowsStatus, Listening
<1> QED
  BY <1>1, <1>2, <1>3, <1>4, <1>5, <1>6 DEF VlmNext, Evaluate

\* Only the app-server's steps, the start and the end of a turn touch its items and
\* its status; a turn that has ended stays as it is.
LEMMA TurnStep ==
    ASSUME VlmIInv, VlmNext
    PROVE  \/ UNCHANGED <<items, turn>>
           \/ turn = "none" /\ items = <<>> /\ turn' = "inProgress" /\ UNCHANGED items
           \/ turn = "inProgress" /\ UNCHANGED items /\ turn' \in {"failed", "interrupted"}
           \/ turn = "inProgress" /\ UNCHANGED items /\ turn' = "completed" /\ AllDone
           \/ turn = "inProgress" /\ UNCHANGED turn /\ \E k \in Kinds : BeginItem(k)
           \/ turn = "inProgress" /\ UNCHANGED turn /\ EndItem
<1>0. PhaseFollowsStatus /\ ItemsInOrder
  BY DEF VlmIInv
<1>1. CASE \E k \in Kinds : BeginItem(k)
  BY <1>1 DEF BeginItem
<1>2. CASE EndItem
  BY <1>2 DEF EndItem
<1>3. CASE \E s \in Ends : EndTurn(s)
  BY <1>3 DEF EndTurn, Ends
<1>4. CASE LoseConnection \/ Crash
  BY <1>4 DEF LoseConnection, Crash, Stopped
<1>5. CASE Start
  BY <1>0, <1>5 DEF Start, PhaseFollowsStatus, ItemsInOrder
<1>6. CASE Interrupt
  BY <1>6 DEF Interrupt
<1>7. CASE Collect \/ RouteClosed \/ Drain \/ DrainOver \/ Replay \/ Finish \/ Record \/ Restart
           \/ Recover \/ TimeOut
  BY <1>7 DEF Collect, RouteClosed, Drain, DrainOver, Replay, Finish, Record, Restart, Recover, TimeOut, codex
<1> QED
  BY <1>1, <1>2, <1>3, <1>4, <1>5, <1>6, <1>7 DEF VlmNext, Evaluate

\* A new item is appended, not done.
LEMMA BeginItemIs ==
    ASSUME VlmIInv, NEW k \in Kinds, BeginItem(k)
    PROVE  /\ Items' = Items \cup {Len(items) + 1} /\ Len(items) + 1 \notin Items
           /\ Len(items)' = Len(items) + 1
           /\ \A i \in Items : items'[i] = items[i]
           /\ items'[Len(items) + 1] = [kind |-> k, done |-> FALSE]
<1> DEFINE I == [kind: Kinds, done: BOOLEAN]
<1>0. items \in Seq(I) /\ Len(items) \in Nat /\ DOMAIN items = Items
  BY Typed DEF VlmIInv
<1>1. [kind |-> k, done |-> FALSE] \in I
  OBVIOUS
<1> QED
  BY <1>0, <1>1, AppendIs DEF BeginItem, Items

\* Ending the last item makes it done and changes no other.
LEMMA EndItemIs ==
    ASSUME VlmIInv, EndItem
    PROVE  /\ Items' = Items /\ Len(items) \in Items /\ Len(items)' = Len(items)
           /\ \A i \in Items : items'[i].kind = items[i].kind
           /\ \A i \in Items \ {Len(items)} : items'[i] = items[i]
           /\ ~items[Len(items)].done /\ items'[Len(items)].done
<1> DEFINE I == [kind: Kinds, done: BOOLEAN]
<1>0. /\ items \in Seq(I) /\ Len(items) \in Nat /\ DOMAIN items = Items
      /\ \A i \in Items : i \in Nat /\ 1 <= i /\ i <= Len(items)
      /\ \A i \in Items : i < Len(items) => items[i].done
  BY Typed DEF VlmIInv, ItemsInOrder
<1>1. PICK j \in Items : ~items[j].done
  BY DEF EndItem, AllDone
<1>2. j = Len(items)
  BY <1>0, <1>1
<1>3. items[j] \in I /\ [items[j] EXCEPT !.done = TRUE] \in I
  <2>1. items[j] \in I
    BY <1>0, <1>1, ElementOfSeq DEF Items
  <2> QED
    BY <2>1
<1>4. items' = [items EXCEPT ![j] = [items[j] EXCEPT !.done = TRUE]]
  BY <1>2 DEF EndItem
<1>5. /\ Len(items') = Len(items)
      /\ \A i \in Items : items'[i] = IF i = j THEN [items[j] EXCEPT !.done = TRUE] ELSE items[i]
  BY <1>0, <1>1, <1>3, <1>4, ExceptSeq DEF Items
<1> QED
  BY <1>0, <1>1, <1>2, <1>3, <1>5 DEF Items

\* Items end in their order, and all before the turn completes.
LEMMA ItemsStep ==
    ASSUME VlmIInv, VlmNext
    PROVE  ItemsInOrder'
<1>0. ItemsInOrder /\ Len(items) \in Nat /\ \A i \in Items : i \in Nat /\ 1 <= i /\ i <= Len(items)
  BY Typed DEF VlmIInv
<1>1. ASSUME NEW k \in Kinds, BeginItem(k), UNCHANGED turn, turn = "inProgress"
      PROVE  ItemsInOrder'
  <2>1. AllDone
    BY <1>1 DEF BeginItem
  <2> QED
    <3>1. /\ Items' = Items \cup {Len(items) + 1} /\ Len(items)' = Len(items) + 1
          /\ \A i \in Items : items'[i] = items[i] /\ items[i].done
      BY <1>1, <2>1, BeginItemIs DEF AllDone
    <3>2. \A i \in Items' : i < Len(items)' => items'[i].done
      BY <1>0, <3>1
    <3> QED
      BY <1>1, <3>2 DEF ItemsInOrder
<1>2. ASSUME EndItem, UNCHANGED turn, turn = "inProgress"
      PROVE  ItemsInOrder'
  BY <1>0, <1>2, EndItemIs DEF ItemsInOrder, AllDone
<1>3. ASSUME UNCHANGED items, turn' # "completed" \/ turn = "completed" \/ AllDone,
             turn' = "none" => turn = "none"
      PROVE  ItemsInOrder'
  BY <1>0, <1>3 DEF ItemsInOrder, AllDone, Items
<1> QED
  BY <1>1, <1>2, <1>3, TurnStep

-----------------------------------------------------------------------------
(* Notifications. *)

\* What a notification tells stays true, and what came before it stays the same.
LEMMA NoteStands ==
    ASSUME VlmIInv, VlmNext, NEW n, TrueNote(n)
    PROVE  TrueNote(n)' /\ Earlier(n)' = Earlier(n)
<1>1. CASE n.what \in {"started", "completed"}
  <2>1. Earlier(n)' = Earlier(n)
    BY <1>1 DEF Earlier
  <2>2. n.item \in Items /\ n.st = "none" /\ (n.what = "completed" => items[n.item].done)
    BY <1>1 DEF TrueNote
  <2>3. Items # {}
    BY <2>2
  <2>4. items # <<>>
    BY <2>3 DEF Items
  <2>5. n.item \in Items' /\ (n.what = "completed" => items'[n.item].done)
    <3>1. CASE UNCHANGED items
      BY <2>2, <3>1 DEF Items
    <3>2. CASE \E k \in Kinds : BeginItem(k)
      BY <2>2, <3>2, BeginItemIs
    <3>3. CASE EndItem
      BY <2>2, <3>3, EndItemIs
    <3> QED
      BY <3>1, <3>2, <3>3, TurnStep
  <2> QED
    BY <1>1, <2>1, <2>2, <2>5 DEF TrueNote
<1>2. CASE n.what = "ended"
  <2>1. n.item = 0 /\ n.st = turn /\ turn \in Ends
    BY <1>2 DEF TrueNote
  <2>2. UNCHANGED <<items, turn>>
    BY <2>1, TurnStep DEF Ends
  <2> QED
    BY <1>2, <2>1, <2>2 DEF TrueNote, Earlier, Items
<1> QED
  BY <1>1, <1>2 DEF TrueNote

\* What the app-server emits in a step.
Emits(n) ==
    \/ (\E k \in Kinds : BeginItem(k)) /\ n = Note("started", Len(items) + 1, "none")
    \/ EndItem /\ n = Note("completed", Len(items), "none")
    \/ turn = "inProgress" /\ turn' \in Ends /\ UNCHANGED items /\ n = Note("ended", 0, turn')

\* It is true, and all that must come before it has been emitted.
LEMMA EmittedIsTrue ==
    ASSUME VlmIInv, VlmNext, NEW n, Emits(n)
    PROVE  TrueNote(n)' /\ Earlier(n)' \subseteq Emitted /\ n \in NoteType
<1>0. /\ ItemsInOrder /\ Len(items) \in Nat /\ MaxItems \in Nat /\ Len(items) <= MaxItems
      /\ \A i \in Items : i \in Nat /\ 1 <= i /\ i <= Len(items)
  BY Typed DEF VlmIInv
<1>1. ASSUME NEW k \in Kinds, BeginItem(k), n = Note("started", Len(items) + 1, "none")
      PROVE  TrueNote(n)' /\ Earlier(n)' \subseteq Emitted /\ n \in NoteType
  <2>1. AllDone /\ Len(items) < MaxItems
    BY <1>1 DEF BeginItem
  <2>2. TrueNote(n)'
    BY <1>1, BeginItemIs DEF TrueNote, Note
  <2>3. n.what = "started" /\ \A i \in 1..(n.item - 1) : i \in Items /\ items[i].done
    BY <1>0, <1>1, <2>1 DEF Note, Items, AllDone
  <2>4. Earlier(n)' = {Note(w, i, "none"): w \in {"started", "completed"}, i \in 1..(n.item - 1)}
    BY <2>3 DEF Earlier
  <2>5. Earlier(n)' \subseteq Emitted
    BY <2>3, <2>4 DEF Emitted
  <2>6. n \in NoteType
    BY <1>0, <1>1, <2>1 DEF Note, NoteType
  <2> QED
    BY <2>2, <2>5, <2>6
<1>2. ASSUME EndItem, n = Note("completed", Len(items), "none")
      PROVE  TrueNote(n)' /\ Earlier(n)' \subseteq Emitted /\ n \in NoteType
  <2>1. TrueNote(n)' /\ Len(items) \in Items
    BY <1>2, EndItemIs DEF TrueNote, Note
  <2>2. n.what = "completed" /\ n.item = Len(items) /\ \A i \in 1..(n.item - 1) : i \in Items /\ items[i].done
    BY <1>0, <1>2 DEF Note, Items, ItemsInOrder
  <2>3. Earlier(n)' = {Note(w, i, "none"): w \in {"started", "completed"}, i \in 1..(n.item - 1)}
                         \cup {Note("started", n.item, "none")}
    BY <2>2 DEF Earlier
  <2>4. Earlier(n)' \subseteq Emitted
    BY <2>1, <2>2, <2>3 DEF Emitted
  <2>5. n \in NoteType
    BY <1>0, <1>2 DEF Note, NoteType
  <2> QED
    BY <2>1, <2>4, <2>5
<1>3. ASSUME turn' \in Ends, UNCHANGED items, n = Note("ended", 0, turn')
      PROVE  TrueNote(n)' /\ Earlier(n)' \subseteq Emitted /\ n \in NoteType
  <2>1. TrueNote(n)'
    BY <1>3 DEF TrueNote, Note
  <2>2. n.what = "ended"
    BY <1>3 DEF Note
  <2>3. Earlier(n)' = {Note("completed", i, "none"): i \in {j \in Items: items[j].done}}
    BY <1>3, <2>2 DEF Earlier, Items
  <2>4. n \in NoteType
    BY <1>0, <1>3 DEF Note, NoteType, Ends
  <2> QED
    BY <2>1, <2>3, <2>4 DEF Emitted
<1> QED
  BY <1>1, <1>2, <1>3 DEF Emits

\* Emissions grow by what the step emits.
LEMMA EmittedStep ==
    ASSUME VlmIInv, VlmNext
    PROVE  \/ Emitted' = Emitted /\ ~EndItem /\ ~\E k \in Kinds : BeginItem(k)
           \/ \E n : Emits(n) /\ Emitted' = Emitted \cup {n}
<1>1. ASSUME NEW k \in Kinds, BeginItem(k)
      PROVE  \E n : Emits(n) /\ Emitted' = Emitted \cup {n}
  <2>1. Emitted' = Emitted \cup {Note("started", Len(items) + 1, "none")}
    <3>1. /\ Items' = Items \cup {Len(items) + 1} /\ ~items'[Len(items) + 1].done
          /\ \A i \in Items : items'[i] = items[i]
      <4>1. /\ Items' = Items \cup {Len(items) + 1} /\ \A i \in Items : items'[i] = items[i]
            /\ items'[Len(items) + 1] = [kind |-> k, done |-> FALSE]
        BY <1>1, BeginItemIs
      <4>2. ~items'[Len(items) + 1].done
        BY <4>1
      <4> QED
        BY <4>1, <4>2
    <3>2. {j \in Items : items[j].done}' = {j \in Items : items[j].done}
      BY <3>1
    <3> QED
      BY <3>1, <3>2 DEF Emitted
  <2> QED
    BY <1>1, <2>1 DEF Emits
<1>2. ASSUME EndItem
      PROVE  \E n : Emits(n) /\ Emitted' = Emitted \cup {n}
  <2>1. Emitted' = Emitted \cup {Note("completed", Len(items), "none")}
    <3>1. Items' = Items /\ Len(items) \in Items
      BY <1>2, EndItemIs
    <3>2. {j \in Items : items[j].done}' = {j \in Items : items[j].done} \cup {Len(items)}
      BY <1>2, EndItemIs
    <3> QED
      BY <3>1, <3>2 DEF Emitted
  <2> QED
    BY <1>2, <2>1 DEF Emits
<1>3. ASSUME UNCHANGED items
      PROVE  Emitted' = Emitted
  BY <1>3 DEF Emitted, Items
<1> QED
  BY <1>1, <1>2, <1>3, TurnStep

\* What is stored, queued or held back was so before, or is what the step emits.
LEMMA NotesFlow ==
    ASSUME VlmIInv, VlmNext
    PROVE  \A n \in events' \cup Range(queue') \cup Range(observed') :
              n \in events \cup Range(queue) \cup Range(observed) \/ Emits(n)
<1>0. /\ queue \in Seq(NoteType) /\ observed \in Seq(NoteType)
      /\ Range(<<>>) = {} /\ PhaseFollowsStatus
      /\ turn \in Ends \cup {"none", "inProgress"}
  BY Typed DEF Range, VlmIInv, VlmTypeOK
<1>1. ASSUME NEW n, Emits(n), queue' = Routed(n), UNCHANGED <<events, observed>>
      PROVE  \A x \in events' \cup Range(queue') \cup Range(observed') :
                x \in events \cup Range(queue) \cup Range(observed) \/ Emits(x)
  BY <1>0, <1>1, EmittedIsTrue, AppendIs DEF Routed
<1>2. ASSUME NEW k \in Kinds, BeginItem(k)
      PROVE  \E n : Emits(n) /\ queue' = Routed(n) /\ UNCHANGED <<events, observed>>
  BY <1>2 DEF BeginItem, Emits, client
<1>3. ASSUME EndItem
      PROVE  \E n : Emits(n) /\ queue' = Routed(n) /\ UNCHANGED <<events, observed>>
  BY <1>3 DEF EndItem, Emits, client
<1>4. ASSUME NEW s \in Ends, EndTurn(s)
      PROVE  \E n : Emits(n) /\ queue' = Routed(n) /\ UNCHANGED <<events, observed>>
  BY <1>4 DEF EndTurn, Emits, client
<1>5. ASSUME Interrupt
      PROVE  \/ UNCHANGED <<queue, events, observed>>
             \/ \E n : Emits(n) /\ queue' = Routed(n) /\ UNCHANGED <<events, observed>>
  BY <1>5 DEF Interrupt, Emits, Ends
<1>6. CASE LoseConnection
  <2>1. PICK n \in 0..Len(queue) : queue' = SubSeq(queue, 1, n)
    BY <1>6 DEF LoseConnection
  <2>2. Range(queue') \subseteq Range(queue)
    BY <1>0, <2>1, PrefixIs
  <2> QED
    BY <1>6, <2>2 DEF LoseConnection, client
<1>7. CASE Collect
  <2>1. Range(queue) = {Head(queue)} \cup Range(queue') /\ observed' = observed
    BY <1>0, <1>7, TailIs DEF Collect
  <2>2. events' \in {events, events \cup {Head(queue)}}
    BY <1>7 DEF Collect
  <2> QED
    BY <2>1, <2>2
<1>8. CASE Drain
  <2>1. Range(queue) = {Head(queue)} \cup Range(queue') /\ Head(queue) \in NoteType
    BY <1>0, <1>8, TailIs DEF Drain
  <2>2. Range(observed') = Range(observed) \cup {Head(queue)} /\ events' = events
    BY <1>0, <1>8, <2>1, AppendIs DEF Drain
  <2> QED
    BY <2>1, <2>2
<1>9. CASE Replay
  <2>1. CASE observed = <<>>
    BY <1>9, <2>1 DEF Replay, codex
  <2>2. CASE observed # <<>>
    <3>1. Range(observed) = {Head(observed)} \cup Range(observed') /\ queue' = queue
      BY <1>0, <1>9, <2>2, TailIs DEF Replay, codex
    <3>2. events' \in {events, events \cup {Head(observed)}}
      BY <1>9, <2>2 DEF Replay
    <3> QED
      BY <3>1, <3>2
  <2> QED
    BY <2>1, <2>2
<1>10. CASE Finish
  BY <1>0, <1>10 DEF Finish
<1>11. CASE Crash
  BY <1>0, <1>11 DEF Crash
<1>12. CASE Start \/ RouteClosed \/ TimeOut \/ DrainOver \/ Record \/ Restart \/ Recover
  BY <1>12 DEF Start, RouteClosed, TimeOut, DrainOver, Record, Restart, Recover, codex
<1>13. CASE UNCHANGED <<queue, events, observed>>
  BY <1>13
<1> QED
  BY <1>1, <1>2, <1>3, <1>4, <1>5, <1>6, <1>7, <1>8, <1>9, <1>10, <1>11, <1>12, <1>13 DEF VlmNext, Evaluate

\* Every notification is true.
LEMMA NotesTrueStep ==
    ASSUME VlmIInv, VlmNext
    PROVE  NotesAreTrue'
<1> SUFFICES ASSUME NEW n \in events' \cup Range(queue') \cup Range(observed')
             PROVE  TrueNote(n)'
  BY DEF NotesAreTrue
<1>1. CASE n \in events \cup Range(queue) \cup Range(observed)
  BY <1>1, NoteStands DEF VlmIInv, NotesAreTrue
<1>2. CASE Emits(n)
  BY <1>2, EmittedIsTrue
<1> QED
  BY <1>1, <1>2, NotesFlow

\* Who saves a notification has saved all that came before it.
LEMMA EvidenceStep ==
    ASSUME VlmIInv, VlmNext
    PROVE  EvidenceHasNoGap'
<1>0. /\ queue \in Seq(NoteType) /\ observed \in Seq(NoteType) /\ Range(<<>>) = {}
      /\ EvidenceHasNoGap /\ NotesAreTrue /\ NothingOvertakes
  BY Typed DEF Range, VlmIInv
<1>1. ASSUME UNCHANGED events
      PROVE  EvidenceHasNoGap'
  <2> SUFFICES ASSUME NEW n \in events PROVE Earlier(n)' \subseteq events
    BY <1>1 DEF EvidenceHasNoGap
  <2> QED
    BY <1>0, NoteStands DEF EvidenceHasNoGap, NotesAreTrue
<1>2. ASSUME NEW h, TrueNote(h), Earlier(h) \subseteq events, events' = events \cup {h}
      PROVE  EvidenceHasNoGap'
  <2> SUFFICES ASSUME NEW n \in events' PROVE Earlier(n)' \subseteq events'
    BY DEF EvidenceHasNoGap
  <2>1. TrueNote(n) /\ Earlier(n) \subseteq events
    BY <1>0, <1>2 DEF EvidenceHasNoGap, NotesAreTrue
  <2> QED
    BY <1>2, <2>1, NoteStands
<1>3. CASE Collect
  <2> DEFINE h == Head(queue)
  <2>1. h \in NoteType /\ h = queue[1] /\ 1 \in DOMAIN queue /\ h \in Range(queue) /\ observed = <<>>
    BY <1>0, <1>3, TailIs DEF Collect, VlmIInv, PhaseFollowsStatus
  <2>2. Earlier(h) \subseteq events \cup Range(observed) \cup {queue[j] : j \in 1..(1 - 1)}
    BY <1>0, <1>3, <2>1 DEF Collect, NothingOvertakes, Listening
  <2>3. Earlier(h) \subseteq events /\ TrueNote(h)
    BY <1>0, <2>1, <2>2 DEF NotesAreTrue
  <2>4. events' \in {events, events \cup {h}}
    BY <1>3 DEF Collect
  <2> QED
    BY <1>1, <1>2, <2>3, <2>4
<1>4. CASE Replay
  <2> DEFINE h == Head(observed)
  <2>1. CASE observed = <<>>
    BY <1>1, <1>4, <2>1 DEF Replay
  <2>2. CASE observed # <<>>
    <3>1. h \in NoteType /\ h = observed[1] /\ 1 \in DOMAIN observed /\ h \in Range(observed)
      BY <1>0, <2>2, TailIs
    <3>2. Earlier(h) \subseteq events \cup {observed[j] : j \in 1..(1 - 1)}
      BY <1>0, <1>4, <3>1 DEF Replay, NothingOvertakes
    <3>3. Earlier(h) \subseteq events /\ TrueNote(h)
      BY <1>0, <3>1, <3>2 DEF NotesAreTrue
    <3>4. events' \in {events, events \cup {h}}
      BY <1>4, <2>2 DEF Replay
    <3> QED
      BY <1>1, <1>2, <3>3, <3>4
  <2> QED
    BY <2>1, <2>2
<1>5. ~Collect /\ ~Replay => UNCHANGED events
  BY DEF VlmNext, Evaluate, BeginItem, EndItem, EndTurn, LoseConnection, Start, RouteClosed, TimeOut,
     Interrupt, Drain, DrainOver, Finish, Record, Crash, Restart, Recover
<1> QED
  BY <1>1, <1>3, <1>4, <1>5

-----------------------------------------------------------------------------
(* The order of what is on its way. *)

\* A step emits one notification at most.
LEMMA EmitsOne ==
    ASSUME NEW n, NEW m, Emits(n), Emits(m)
    PROVE  n = m
<1>1. \A k \in Kinds : BeginItem(k) => AllDone /\ turn' = "inProgress"
  BY DEF BeginItem
<1>2. EndItem => ~AllDone /\ turn' = "inProgress"
  BY DEF EndItem
<1>3. "inProgress" \notin Ends
  BY DEF Ends
<1> QED
  BY <1>1, <1>2, <1>3 DEF Emits

\* What happens to the queue while the evaluation listens.
LEMMA QueueFlow ==
    ASSUME VlmIInv, VlmNext, pc' \in Listening
    PROVE  \/ /\ pc \in Listening /\ UNCHANGED <<queue, events, observed, open>>
              /\ open => UNCHANGED items
           \/ /\ pc \in Listening /\ open /\ UNCHANGED <<events, observed, open>>
              /\ \E n : /\ Emits(n) /\ queue' = Append(queue, n)
                        /\ Emitted' \subseteq Emitted \cup {n}
           \/ LoseConnection
           \/ /\ pc \in Listening /\ queue # <<>> /\ queue' = Tail(queue)
              /\ UNCHANGED <<items, open>>
              /\ events \subseteq events' /\ Range(observed) \subseteq Range(observed')
              /\ Head(queue) \in events' \cup Range(observed')
           \/ queue' = <<>> /\ items' = <<>>
<1>0. /\ PhaseFollowsStatus /\ ItemsInOrder
      /\ queue \in Seq(NoteType) /\ observed \in Seq(NoteType)
  BY Typed DEF VlmIInv
<1>1. ASSUME NEW n, Emits(n), queue' = Routed(n), UNCHANGED <<events, observed, open>>,
             pc \in Listening, Emitted' = Emitted \cup {n} \/ UNCHANGED items
      PROVE  \/ UNCHANGED <<queue, events, observed, open>> /\ ~open
             \/ /\ open /\ UNCHANGED <<events, observed, open>>
                /\ \E m : /\ Emits(m) /\ queue' = Append(queue, m)
                          /\ Emitted' \subseteq Emitted \cup {m}
  <2>1. Emitted' \subseteq Emitted \cup {n}
    BY <1>1 DEF Emitted, Items
  <2> QED
    BY <1>1, <2>1 DEF Routed
<1>2. CASE \E k \in Kinds : BeginItem(k)
  <2>1. PICK n : Emits(n) /\ Emitted' = Emitted \cup {n}
    BY <1>2, EmittedStep
  <2>2. n = Note("started", Len(items) + 1, "none")
    BY <1>2, <2>1, EmitsOne DEF Emits
  <2>3. queue' = Routed(n) /\ UNCHANGED <<events, observed, open, pc>>
    BY <1>2, <2>2 DEF BeginItem, client
  <2> QED
    BY <1>1, <2>1, <2>3
<1>3. CASE EndItem
  <2>1. PICK n : Emits(n) /\ Emitted' = Emitted \cup {n}
    BY <1>3, EmittedStep
  <2>2. n = Note("completed", Len(items), "none")
    BY <1>3, <2>1, EmitsOne DEF Emits
  <2>3. queue' = Routed(n) /\ UNCHANGED <<events, observed, open, pc>>
    BY <1>3, <2>2 DEF EndItem, client
  <2> QED
    BY <1>1, <2>1, <2>3
<1>4. CASE \E s \in Ends : EndTurn(s)
  <2>1. PICK s \in Ends : EndTurn(s)
    BY <1>4
  <2>2. /\ Emits(Note("ended", 0, s)) /\ queue' = Routed(Note("ended", 0, s))
        /\ UNCHANGED <<events, observed, open, pc, items>>
    BY <2>1 DEF EndTurn, Emits, client
  <2> QED
    BY <1>1, <2>2
<1>5. CASE Interrupt
  <2>1. /\ pc \in Listening /\ UNCHANGED <<events, observed, open, items>>
    BY <1>5 DEF Interrupt, Listening
  <2>2. \/ UNCHANGED queue
        \/ /\ Emits(Note("ended", 0, "interrupted"))
           /\ queue' = Routed(Note("ended", 0, "interrupted"))
    BY <1>5 DEF Interrupt, Emits, Ends
  <2> QED
    BY <1>1, <2>1, <2>2
<1>6. CASE Start
  BY <1>0, <1>6 DEF Start, PhaseFollowsStatus, ItemsInOrder
<1>7. CASE Collect
  <2>1. events' = events \cup {Head(queue)}
    BY <1>7 DEF Collect, GiveUp, Listening
  <2> QED
    BY <1>7, <2>1 DEF Collect, Listening
<1>8. CASE TimeOut
  BY <1>8 DEF TimeOut, Listening, codex
<1>9. CASE Drain
  <2>1. Head(queue) \in NoteType /\ observed' = Append(observed, Head(queue))
    BY <1>0, <1>9, TailIs DEF Drain
  <2>2. Range(observed') = Range(observed) \cup {Head(queue)}
    BY <1>0, <2>1, AppendIs
  <2> QED
    BY <1>9, <2>2 DEF Drain, Listening
<1>10. ~(RouteClosed \/ DrainOver \/ Replay \/ Finish \/ Record \/ Restart \/ Recover \/ Crash)
  BY DEF RouteClosed, DrainOver, Replay, Finish, Record, Restart, Recover, Crash, GiveUp, Listening
<1> QED
  BY <1>2, <1>3, <1>4, <1>5, <1>6, <1>7, <1>8, <1>9, <1>10 DEF VlmNext, Evaluate

\* The queue stays in order: what is put into it has all before it on the way, what is
\* taken from it is stored or held back.
LEMMA QueueOrderStep ==
    ASSUME VlmIInv, VlmNext, pc' \in Listening
    PROVE  \A i \in DOMAIN queue', n \in NoteType : n = queue'[i] =>
              Earlier(n)' \subseteq events' \cup Range(observed') \cup {queue'[j] : j \in 1..(i - 1)}
<1>0. /\ queue \in Seq(NoteType) /\ observed \in Seq(NoteType)
      /\ NothingOvertakes /\ NotesAreTrue /\ PhaseFollowsStatus
  BY Typed DEF VlmIInv
<1> DEFINE Before == events \cup Range(observed)
<1>1. ASSUME pc \in Listening, NEW i \in DOMAIN queue, NEW n \in NoteType, n = queue[i]
      PROVE  Earlier(n)' \subseteq Before \cup {queue[j] : j \in 1..(i - 1)}
  <2>1. Earlier(n) \subseteq Before \cup {queue[j] : j \in 1..(i - 1)}
    BY <1>0, <1>1 DEF NothingOvertakes
  <2>2. n \in Range(queue)
    BY <1>1 DEF Range
  <2> QED
    BY <1>0, <2>1, <2>2, NoteStands DEF NotesAreTrue
<1> SUFFICES ASSUME NEW i \in DOMAIN queue', NEW n \in NoteType, n = queue'[i]
             PROVE  Earlier(n)' \subseteq events' \cup Range(observed') \cup {queue'[j] : j \in 1..(i - 1)}
  OBVIOUS
<1>2. CASE pc \in Listening /\ UNCHANGED <<queue, events, observed>>
  BY <1>1, <1>2
<1>3. CASE /\ pc \in Listening /\ open /\ UNCHANGED <<events, observed>>
           /\ \E m : Emits(m) /\ queue' = Append(queue, m)
  <2>1. PICK m : Emits(m) /\ queue' = Append(queue, m)
    BY <1>3
  <2>2. m \in NoteType /\ Earlier(m)' \subseteq Emitted
    BY <2>1, EmittedIsTrue
  <2>3. /\ DOMAIN queue' = 1..(Len(queue) + 1) /\ DOMAIN queue = 1..Len(queue) /\ Len(queue) \in Nat
        /\ \A j \in 1..Len(queue) : queue'[j] = queue[j]
        /\ queue'[Len(queue) + 1] = m
    BY <1>0, <2>1, <2>2, AppendIs
  <2>4. {queue'[j] : j \in 1..(i - 1)} = {queue[j] : j \in 1..(i - 1)}
    BY <2>3
  <2>5. CASE i \in 1..Len(queue)
    BY <1>1, <1>3, <2>3, <2>4, <2>5
  <2>6. CASE i = Len(queue) + 1
    <3>1. n = m /\ i - 1 = Len(queue)
      BY <2>3, <2>6
    <3>2. Range(queue) = {queue[j] : j \in 1..(i - 1)}
      BY <2>3, <3>1 DEF Range
    <3>3. Emitted \subseteq Before \cup Range(queue)
      BY <1>0, <1>3 DEF NothingOvertakes
    <3> QED
      BY <1>3, <2>2, <2>4, <3>1, <3>2, <3>3
  <2> QED
    BY <2>3, <2>5, <2>6
<1>4. CASE LoseConnection
  <2>1. PICK l \in 0..Len(queue) : queue' = SubSeq(queue, 1, l)
    BY <1>4 DEF LoseConnection
  <2>2. pc \in Listening /\ UNCHANGED <<events, observed>>
    BY <1>4 DEF LoseConnection, client
  <2>3. /\ DOMAIN queue' = 1..l /\ DOMAIN queue = 1..Len(queue) /\ Len(queue) \in Nat
        /\ \A j \in 1..l : queue'[j] = queue[j]
    BY <1>0, <2>1, PrefixIs
  <2>4. i \in DOMAIN queue /\ {queue'[j] : j \in 1..(i - 1)} = {queue[j] : j \in 1..(i - 1)}
    BY <2>3
  <2> QED
    BY <1>1, <2>2, <2>3, <2>4
<1>5. CASE /\ pc \in Listening /\ queue # <<>> /\ queue' = Tail(queue)
           /\ events \subseteq events' /\ Range(observed) \subseteq Range(observed')
           /\ Head(queue) \in events' \cup Range(observed')
  <2>1. /\ Head(queue) = queue[1] /\ DOMAIN queue = 1..Len(queue) /\ Len(queue) \in Nat
        /\ DOMAIN queue' = 1..(Len(queue) - 1)
        /\ \A j \in 1..(Len(queue) - 1) : queue'[j] = queue[j + 1]
    BY <1>0, <1>5, TailIs
  <2>2. i + 1 \in DOMAIN queue /\ n = queue[i + 1] /\ (i + 1) - 1 = i
    BY <2>1
  <2>3. Earlier(n)' \subseteq Before \cup {queue[j] : j \in 1..i}
    BY <1>1, <1>5, <2>2
  <2>4. \A j \in 1..i : queue[j] = Head(queue) \/ queue[j] \in {queue'[k] : k \in 1..(i - 1)}
    <3> SUFFICES ASSUME NEW j \in 1..i, j # 1
                 PROVE  queue[j] \in {queue'[k] : k \in 1..(i - 1)}
      BY <2>1
    <3>1. j - 1 \in 1..(i - 1) /\ queue'[j - 1] = queue[j]
      BY <2>1
    <3> QED
      BY <3>1
  <2>5. Before \subseteq events' \cup Range(observed')
    BY <1>5
  <2>6. \A j \in 1..i : queue[j] \in events' \cup Range(observed') \cup {queue'[k] : k \in 1..(i - 1)}
    BY <1>5, <2>4
  <2> QED
    BY <2>3, <2>5, <2>6
<1>6. CASE queue' = <<>>
  BY <1>6
<1> QED
  BY <1>2, <1>3, <1>4, <1>5, <1>6, QueueFlow

\* What is held back stays in order.
LEMMA ObservedOrderStep ==
    ASSUME VlmIInv, VlmNext, pc' \in {"drain", "replay"}
    PROVE  \A i \in DOMAIN observed', n \in NoteType : n = observed'[i] =>
              Earlier(n)' \subseteq events' \cup {observed'[j] : j \in 1..(i - 1)}
<1>0. /\ queue \in Seq(NoteType) /\ observed \in Seq(NoteType)
      /\ NothingOvertakes /\ NotesAreTrue /\ PhaseFollowsStatus
  BY Typed DEF VlmIInv
<1>1. ASSUME pc \in {"drain", "replay"}, NEW i \in DOMAIN observed, NEW n \in NoteType, n = observed[i]
      PROVE  Earlier(n)' \subseteq events \cup {observed[j] : j \in 1..(i - 1)}
  <2>1. Earlier(n) \subseteq events \cup {observed[j] : j \in 1..(i - 1)}
    BY <1>0, <1>1 DEF NothingOvertakes
  <2>2. n \in Range(observed)
    BY <1>1 DEF Range
  <2> QED
    BY <1>0, <2>1, <2>2, NoteStands DEF NotesAreTrue
<1> SUFFICES ASSUME NEW i \in DOMAIN observed', NEW n \in NoteType, n = observed'[i]
             PROVE  Earlier(n)' \subseteq events' \cup {observed'[j] : j \in 1..(i - 1)}
  OBVIOUS
<1>2. CASE Interrupt
  <2>1. observed' = <<>>
    BY <1>0, <1>2 DEF Interrupt, PhaseFollowsStatus
  <2> QED
    BY <2>1
<1>3. CASE Drain
  <2>0. PICK h : h = Head(queue)
    OBVIOUS
  <2>1. h \in NoteType /\ h = queue[1] /\ 1 \in DOMAIN queue /\ h \in Range(queue)
    BY <1>0, <1>3, <2>0, TailIs DEF Drain
  <2>2. pc = "drain" /\ observed' = Append(observed, h) /\ UNCHANGED events
    BY <1>3, <2>0 DEF Drain
  <2>3. /\ DOMAIN observed' = 1..(Len(observed) + 1) /\ DOMAIN observed = 1..Len(observed)
        /\ Len(observed) \in Nat
        /\ \A j \in 1..Len(observed) : observed'[j] = observed[j]
        /\ observed'[Len(observed) + 1] = h
    BY <1>0, <2>1, <2>2, AppendIs
  <2>4. {observed'[j] : j \in 1..(i - 1)} = {observed[j] : j \in 1..(i - 1)}
    BY <2>3
  <2>5. CASE i \in 1..Len(observed)
    BY <1>1, <2>2, <2>3, <2>4, <2>5
  <2>6. CASE i = Len(observed) + 1
    <3>1. n = h /\ i - 1 = Len(observed)
      BY <2>3, <2>6
    <3>2. Range(observed) = {observed[j] : j \in 1..(i - 1)}
      BY <2>3, <3>1 DEF Range
    <3>3. Earlier(h) \subseteq events \cup Range(observed) \cup {queue[j] : j \in 1..(1 - 1)}
      BY <1>0, <2>1, <2>2 DEF NothingOvertakes, Listening
    <3>4. Earlier(h)' = Earlier(h)
      BY <1>0, <2>1, NoteStands DEF NotesAreTrue
    <3> QED
      BY <2>2, <2>4, <3>1, <3>2, <3>3, <3>4
  <2> QED
    BY <2>3, <2>5, <2>6
<1>4. CASE Replay
  <2>1. observed # <<>> /\ observed' = Tail(observed) /\ events' = events \cup {Head(observed)}
    BY <1>4 DEF Replay, GiveUp
  <2>2. pc \in {"drain", "replay"}
    BY <1>4 DEF Replay
  <2>3. /\ Head(observed) = observed[1] /\ DOMAIN observed = 1..Len(observed) /\ Len(observed) \in Nat
        /\ DOMAIN observed' = 1..(Len(observed) - 1)
        /\ \A j \in 1..(Len(observed) - 1) : observed'[j] = observed[j + 1]
    BY <1>0, <2>1, TailIs
  <2>4. i + 1 \in DOMAIN observed /\ n = observed[i + 1] /\ (i + 1) - 1 = i
    BY <2>3
  <2>5. Earlier(n)' \subseteq events \cup {observed[j] : j \in 1..i}
    BY <1>1, <2>2, <2>4
  <2>6. \A j \in 1..i : observed[j] = Head(observed) \/ observed[j] \in {observed'[k] : k \in 1..(i - 1)}
    <3> SUFFICES ASSUME NEW j \in 1..i, j # 1
                 PROVE  observed[j] \in {observed'[k] : k \in 1..(i - 1)}
      BY <2>3
    <3>1. j - 1 \in 1..(i - 1) /\ observed'[j - 1] = observed[j]
      BY <2>3
    <3> QED
      BY <3>1
  <2> QED
    BY <2>1, <2>5, <2>6
<1>5. CASE pc \in {"drain", "replay"} /\ UNCHANGED <<events, observed>>
  BY <1>1, <1>5
<1>6. \/ Interrupt \/ Drain \/ Replay
      \/ pc \in {"drain", "replay"} /\ UNCHANGED <<events, observed>>
  BY DEF VlmNext, Evaluate, BeginItem, EndItem, EndTurn, LoseConnection, client, Start, Collect, GiveUp,
     RouteClosed, TimeOut, DrainOver, Finish, Record, Crash, Restart, Recover
<1> QED
  BY <1>2, <1>3, <1>4, <1>5, <1>6

\* Nothing that comes later overtakes what came before.
LEMMA OrderStep ==
    ASSUME VlmIInv, VlmNext
    PROVE  NothingOvertakes'
<1>0. /\ queue \in Seq(NoteType) /\ NothingOvertakes
  BY Typed DEF VlmIInv
<1>1. ASSUME pc' \in Listening, open'
      PROVE  Emitted' \subseteq events' \cup Range(observed') \cup Range(queue')
  <2>1. CASE pc \in Listening /\ open /\ UNCHANGED <<queue, events, observed, items>>
    BY <1>0, <2>1 DEF NothingOvertakes, Emitted, Items
  <2>2. CASE /\ pc \in Listening /\ open /\ UNCHANGED <<events, observed>>
             /\ \E n : /\ Emits(n) /\ queue' = Append(queue, n)
                       /\ Emitted' \subseteq Emitted \cup {n}
    <3>1. PICK n : Emits(n) /\ queue' = Append(queue, n) /\ Emitted' \subseteq Emitted \cup {n}
      BY <2>2
    <3>2. Range(queue') = Range(queue) \cup {n}
      BY <1>0, <3>1, EmittedIsTrue, AppendIs
    <3> QED
      BY <1>0, <2>2, <3>1, <3>2 DEF NothingOvertakes
  <2>3. CASE /\ pc \in Listening /\ open /\ queue # <<>> /\ queue' = Tail(queue) /\ UNCHANGED items
             /\ events \subseteq events' /\ Range(observed) \subseteq Range(observed')
             /\ Head(queue) \in events' \cup Range(observed')
    <3>1. Range(queue) = {Head(queue)} \cup Range(queue')
      BY <1>0, <2>3, TailIs
    <3>2. Emitted' = Emitted
      BY <2>3 DEF Emitted, Items
    <3> QED
      BY <1>0, <2>3, <3>1, <3>2 DEF NothingOvertakes
  <2>4. CASE items' = <<>>
    BY <2>4 DEF Emitted, Items
  <2>5. ~LoseConnection
    BY <1>1 DEF LoseConnection
  <2> QED
    BY <1>1, <2>1, <2>2, <2>3, <2>4, <2>5, QueueFlow
<1> QED
  BY <1>1, QueueOrderStep, ObservedOrderStep DEF NothingOvertakes

-----------------------------------------------------------------------------
(* What the evaluation has accepted. *)

\* Once the turn has completed it stays as it is, and so does what is accepted of it.
LEMMA AcceptedStays ==
    ASSUME VlmIInv, VlmNext, NEW i, Accepted(i)
    PROVE  Accepted(i)'
<1>1. UNCHANGED <<items, turn>>
  BY TurnStep DEF Accepted
<1> QED
  BY <1>1 DEF Accepted, Submissions, Items

\* A notification that an item is completed, once true, says what kind it is for good.
LEMMA KindsStay ==
    ASSUME VlmIInv, VlmNext, NEW i \in Items
    PROVE  i \in Items' /\ items'[i].kind = items[i].kind
<1>1. CASE UNCHANGED items
  BY <1>1 DEF Items
<1>2. ASSUME NEW k \in Kinds, BeginItem(k)
      PROVE  i \in Items' /\ items'[i].kind = items[i].kind
  BY <1>2, BeginItemIs
<1>3. CASE EndItem
  BY <1>3, EndItemIs
<1> QED
  BY <1>1, <1>2, <1>3, TurnStep

\* The collector refuses all but one submission, and all that is not plain.
LEMMA CollectorStep ==
    ASSUME VlmIInv, VlmNext
    PROVE  CollectorKnows'
<1>0. /\ CollectorKnows /\ NotesAreTrue /\ PhaseFollowsStatus /\ held \in 0..MaxItems
      /\ queue \in Seq(NoteType) /\ \A i \in Items : items[i].kind \in Kinds
  <2>1. /\ VlmTypeOK /\ CollectorKnows /\ NotesAreTrue /\ PhaseFollowsStatus /\ held \in 0..MaxItems
        /\ queue \in Seq(NoteType) /\ items \in Seq([kind: Kinds, done: BOOLEAN])
    BY Typed DEF VlmIInv, VlmTypeOK
  <2>2. \A i \in Items : items[i] \in [kind: Kinds, done: BOOLEAN]
    BY <2>1, ElementOfSeq DEF Items
  <2> QED
    BY <2>1, <2>2
<1> SUFFICES ASSUME pc' = "collect"
             PROVE  /\ \A i \in Items' : Note("completed", i, "none") \in events' =>
                         /\ items'[i].kind \in {"plain", "submit"}
                         /\ items'[i].kind = "submit" => held' = i
                    /\ held' # 0 => held' \in Items' /\ items'[held'].kind = "submit"
  BY DEF CollectorKnows
<1>1. ASSUME NEW i, Note("completed", i, "none") \in events
      PROVE  i \in Items
  BY <1>0, <1>1 DEF NotesAreTrue, TrueNote, Note
<1>2. CASE pc = "collect" /\ UNCHANGED <<events, held>>
  BY <1>0, <1>1, <1>2, KindsStay DEF CollectorKnows
<1>3. CASE pc = "collect" /\ Collect
  <2> DEFINE h == Head(queue)
  <2>1. h \in Range(queue)
    BY <1>0, <1>3, TailIs DEF Collect
  <2>2. /\ events' = events \cup {h} /\ ~Refused(h, held) /\ held' = Kept(h, held)
        /\ UNCHANGED items
    BY <1>3 DEF Collect, GiveUp
  <2>3. TrueNote(h)
    BY <1>0, <2>1 DEF NotesAreTrue
  <2>4. CASE h.what = "completed" /\ items[h.item].kind = "submit"
    <3>1. held = 0 /\ held' = h.item /\ h.item \in Items
      BY <2>2, <2>3, <2>4 DEF Refused, Kept, TrueNote
    <3>2. ASSUME NEW i \in Items, Note("completed", i, "none") = h
          PROVE  i = h.item
      BY <3>2 DEF Note
    <3> QED
      BY <1>0, <1>3, <2>2, <2>4, <3>1, <3>2 DEF CollectorKnows, Items
  <2>5. CASE ~(h.what = "completed" /\ items[h.item].kind = "submit")
    <3>1. held' = held
      BY <2>2, <2>5 DEF Kept
    <3>2. ASSUME NEW i \in Items, Note("completed", i, "none") = h
          PROVE  items[i].kind = "plain"
      <4>1. h.what = "completed" /\ h.item = i
        BY <3>2 DEF Note
      <4>2. items[i].kind \notin {"broken", "forbidden", "submit"}
        BY <2>2, <2>5, <4>1 DEF Refused
      <4> QED
        BY <1>0, <4>2 DEF Kinds
    <3> QED
      BY <1>0, <1>3, <2>2, <3>1, <3>2 DEF CollectorKnows, Items
  <2> QED
    BY <2>4, <2>5
<1>4. CASE Start
  BY <1>0, <1>4 DEF Start, PhaseFollowsStatus
<1>5. Start \/ (pc = "collect" /\ (Collect \/ UNCHANGED <<events, held>>))
  <2>1. CASE (\E k \in Kinds : BeginItem(k)) \/ EndItem \/ (\E s \in Ends : EndTurn(s)) \/ LoseConnection
    BY <2>1 DEF BeginItem, EndItem, EndTurn, LoseConnection, client
  <2>2. CASE Collect
    BY <2>2 DEF Collect
  <2>3. ~(RouteClosed \/ TimeOut \/ Interrupt \/ DrainOver \/ Finish \/ Record \/ Crash \/ Recover)
    BY DEF RouteClosed, TimeOut, Interrupt, DrainOver, Finish, Record, Crash, Recover, GiveUp
  <2>4. ~(Drain \/ Replay \/ Restart)
    BY DEF Drain, Replay, Restart, GiveUp
  <2> QED
    BY <2>1, <2>2, <2>3, <2>4 DEF VlmNext, Evaluate
<1> QED
  BY <1>2, <1>3, <1>4, <1>5

\* When the notification that the turn has completed is ingested, what is held is the
\* submission of that turn: every item's completion came before it.
LEMMA CollectedIsAccepted ==
    ASSUME VlmIInv, Collect, pc' = "finish", result' # 0
    PROVE  Accepted(result')
<1> DEFINE h == Head(queue)
<1>0. /\ CollectorKnows /\ NotesAreTrue /\ NothingOvertakes /\ ItemsInOrder /\ PhaseFollowsStatus
      /\ queue \in Seq(NoteType) /\ Range(<<>>) = {}
  BY Typed DEF VlmIInv, Range
<1>1. /\ h \in NoteType /\ h = queue[1] /\ 1 \in DOMAIN queue /\ h \in Range(queue)
      /\ pc = "collect" /\ observed = <<>>
  BY <1>0, TailIs DEF Collect, PhaseFollowsStatus
<1>2. h.what = "ended" /\ ~Refused(h, held) /\ held' = Kept(h, held) /\ result' = held
  <2>1. ~GiveUp
    BY DEF GiveUp
  <2>2. /\ ~Refused(h, held) /\ held' = Kept(h, held)
        /\ IF h.what = "ended" THEN pc' = "finish" /\ result' = held
                               ELSE UNCHANGED <<pc, result>>
    BY <2>1 DEF Collect
  <2> QED
    BY <1>1, <2>2
<1>3. held # 0 /\ result' = held /\ turn = "completed"
  BY <1>0, <1>1, <1>2 DEF Refused, Kept, NotesAreTrue, TrueNote
<1>4. AllDone
  BY <1>0, <1>3 DEF ItemsInOrder
<1>5. Earlier(h) \subseteq events
  <2>1. Earlier(h) \subseteq events \cup Range(observed) \cup {queue[j] : j \in 1..(1 - 1)}
    BY <1>0, <1>1 DEF NothingOvertakes, Listening
  <2> QED
    BY <1>0, <1>1, <2>1
<1>6. \A i \in Items : Note("completed", i, "none") \in events
  BY <1>2, <1>4, <1>5 DEF Earlier, AllDone
<1>7. \A i \in Items : items[i].kind \in {"plain", "submit"} /\ (items[i].kind = "submit" => held = i)
  BY <1>0, <1>1, <1>6 DEF CollectorKnows
<1>8. held \in Items /\ items[held].kind = "submit"
  BY <1>0, <1>1, <1>3 DEF CollectorKnows
<1>9. Submissions = {held}
  BY <1>7, <1>8 DEF Submissions
<1> QED
  BY <1>3, <1>7, <1>9 DEF Accepted

\* What the evaluation returns, and the check is judged by, is accepted.
LEMMA ResultStep ==
    ASSUME VlmIInv, VlmNext
    PROVE  ResultIsAccepted' /\ ReportIsTheSubmission'
<1>0. ResultIsAccepted /\ ReportIsTheSubmission /\ PhaseFollowsStatus
  BY DEF VlmIInv
<1>1. ReportIsTheSubmission'
  <2>1. CASE UNCHANGED <<status, report>>
    BY <1>0, <2>1, AcceptedStays DEF ReportIsTheSubmission
  <2>2. CASE Start
    BY <2>2 DEF Start, ReportIsTheSubmission
  <2>3. CASE Record
    <3>1. CASE status' = "completed"
      <4>1. pc = "record" /\ result # 0 /\ report' = result
        BY <2>3, <3>1 DEF Record
      <4> QED
        BY <1>0, <4>1, AcceptedStays DEF ResultIsAccepted, ReportIsTheSubmission
    <3>2. CASE status' # "completed"
      BY <3>2 DEF ReportIsTheSubmission
    <3> QED
      BY <3>1, <3>2
  <2>4. Start \/ Record \/ UNCHANGED <<status, report>>
    BY DEF VlmNext, Evaluate, BeginItem, EndItem, EndTurn, LoseConnection, row, RouteClosed, TimeOut,
       Collect, Interrupt, Drain, DrainOver, Replay, Finish, Crash, Restart, Recover
  <2> QED
    BY <2>1, <2>2, <2>3, <2>4
<1>2. ResultIsAccepted'
  <2> SUFFICES ASSUME pc' \in {"finish", "record"}, NEW r, r = result', r # 0
               PROVE  Accepted(r)'
    BY DEF ResultIsAccepted, Accepted
  <2>2. CASE pc \in {"finish", "record"} /\ result' \in {result, 0}
    BY <1>0, <2>2, AcceptedStays DEF ResultIsAccepted
  <2>3. CASE Collect
    <3>1. pc' = "finish"
      BY <2>3 DEF Collect, GiveUp
    <3> QED
      BY <2>3, <3>1, CollectedIsAccepted, AcceptedStays
  <2>4. CASE Recover
    <3>1. Accepted(r)
      BY <2>4 DEF Recover
    <3> QED
      BY <3>1, AcceptedStays
  <2>5. Collect \/ Recover \/ (pc \in {"finish", "record"} /\ result' \in {result, 0})
    BY DEF VlmNext, Evaluate, BeginItem, EndItem, EndTurn, LoseConnection, client, Start, RouteClosed,
       TimeOut, Interrupt, Drain, DrainOver, Replay, Finish, Record, Crash, Restart, GiveUp
  <2> QED
    BY <2>2, <2>3, <2>4, <2>5
<1> QED
  BY <1>1, <1>2

-----------------------------------------------------------------------------
(* The invariant. *)

LEMMA VlmInitOK == VlmInit => VlmIInv
<1> SUFFICES ASSUME VlmInit
             PROVE  VlmIInv
  OBVIOUS
<1>0. Range(<<>>) = {} /\ Items = {} /\ DOMAIN <<>> = {}
  BY DEF Range, VlmInit, Items
<1>1. VlmTypeOK
  <2>1. /\ <<>> \in Seq(NoteType) /\ <<>> \in Seq([kind: Kinds, done: BOOLEAN]) /\ Len(<<>>) = 0
        /\ 0 \in 0..MaxItems /\ 0 \in 0..MaxCrashes /\ 0 <= MaxItems
    BY VlmAssumption, EmptySeq
  <2> QED
    BY <2>1 DEF VlmInit, VlmTypeOK
<1>2. PhaseFollowsStatus /\ ItemsInOrder
  BY <1>0 DEF VlmInit, PhaseFollowsStatus, Listening, ItemsInOrder
<1>3. NotesAreTrue
  BY <1>0 DEF VlmInit, NotesAreTrue
<1>4. NothingOvertakes /\ CollectorKnows /\ ResultIsAccepted
  BY DEF VlmInit, NothingOvertakes, CollectorKnows, ResultIsAccepted, Listening
<1>5. ReportIsTheSubmission /\ EvidenceHasNoGap
  BY DEF VlmInit, ReportIsTheSubmission, EvidenceHasNoGap
<1> QED
  BY <1>1, <1>2, <1>3, <1>4, <1>5 DEF VlmIInv

LEMMA VlmStep == VlmIInv /\ [VlmNext]_vars => VlmIInv'
<1>1. ASSUME VlmIInv, VlmNext
      PROVE  VlmIInv'
  BY <1>1, VlmTypeStep, PhaseStep, ItemsStep, NotesTrueStep, OrderStep, CollectorStep, ResultStep,
     EvidenceStep DEF VlmIInv
<1>2. ASSUME VlmIInv, UNCHANGED vars
      PROVE  VlmIInv'
  <2>1. UNCHANGED <<items, turn, open, queue, events, held, observed, pc, result, status, report, crashes>>
    BY <1>2 DEF vars
  <2>2. Items' = Items /\ AllDone' = AllDone /\ Emitted' = Emitted /\ Submissions' = Submissions
    BY <2>1 DEF Items, AllDone, Emitted, Submissions
  <2>3. \A n : TrueNote(n)' = TrueNote(n) /\ Earlier(n)' = Earlier(n)
    BY <2>1, <2>2 DEF TrueNote, Earlier
  <2>4. \A i : Accepted(i)' = Accepted(i)
    BY <2>1, <2>2 DEF Accepted
  <2>5. VlmTypeOK' /\ PhaseFollowsStatus' /\ ItemsInOrder'
    BY <1>2, <2>1, <2>2 DEF VlmIInv, VlmTypeOK, PhaseFollowsStatus, ItemsInOrder
  <2>6. NotesAreTrue' /\ EvidenceHasNoGap'
    BY <1>2, <2>1, <2>3 DEF VlmIInv, NotesAreTrue, EvidenceHasNoGap
  <2>7. NothingOvertakes'
    BY <1>2, <2>1, <2>2, <2>3 DEF VlmIInv, NothingOvertakes
  <2>8. CollectorKnows' /\ ResultIsAccepted' /\ ReportIsTheSubmission'
    BY <1>2, <2>1, <2>2, <2>4 DEF VlmIInv, CollectorKnows, ResultIsAccepted, ReportIsTheSubmission
  <2> QED
    BY <2>5, <2>6, <2>7, <2>8 DEF VlmIInv
<1> QED
  BY <1>1, <1>2

LEMMA VlmInvariant == VlmSpec => []VlmIInv
<1> QED
  BY VlmInitOK, VlmStep, PTL DEF VlmSpec

\* A completed check was judged by the one submission of a turn that completed with no
\* failed submission and no forbidden item, and the evidence kept of the turn has no
\* gap: for any number of items and of crashes, whatever is lost, interrupted or refused
\* on the way.
THEOREM VlmSafe == VlmSpec => []VlmInv
<1>1. VlmIInv => VlmInv
  BY DEF VlmIInv, VlmInv
<1> QED
  BY <1>1, VlmInvariant, PTL

=============================================================================
