---------------------------- MODULE ArtifactsProofs ----------------------------
(***************************************************************************)
(* Proofs about the artifacts: a deleted one leaves no file behind, and a  *)
(* manifest that claims a file which is not there is about to be           *)
(* corrected.  Only the main thread deletes, so what it does says which    *)
(* file may be missing without its row saying so.                          *)
(***************************************************************************)
EXTENDS Artifacts, TLAPS

\* Who has written a file is alone with it until its manifest is saved.
WritersAreAlone ==
    \A x \in Actors : op[x].pc = "written" =>
        \A a \in op[x].art :
            /\ row[a] = "none" /\ a \in file \cup swept
            /\ \A y \in Actors \ {x} : op[y].pc = "written" => a \notin op[y].art

\* A deletion removes the file first.
DeletingIsGone ==
    \A x \in Actors : op[x].pc = "deleting" =>
        \A a \in op[x].art : a \notin file /\ row[a] # "none"

\* A file that is lost without its row saying so: the main thread is deleting it, or has
\* it before it in a verification that expects to find it.
LostIsBeforeDesk ==
    \A a \in A \ swept : row[a] = "ok" /\ a \notin file =>
        \/ op[Desk].pc = "deleting" /\ a \in op[Desk].art
        \/ op[Desk].pc \in {"verify", "marking"} /\ a \in op[Desk].todo /\ op[Desk].seen[a] = "ok"

ArtifactsIInv ==
    /\ ArtifactsTypeOK
    /\ DeletedIsGone
    /\ WritersAreAlone
    /\ DeletingIsGone
    /\ LostIsBeforeDesk

-----------------------------------------------------------------------------
(* Types. *)

\* What an actor may be at.
SeatOK(o) ==
    /\ o \in Op
    /\ \A a, b \in o.art : a = b
    /\ o.pc \in {"written", "saved", "deleting", "dropping", "marking"} => o.art # {}
    /\ o.pc \in {"verify", "removing"} => o.todo # {}

\* What holds of the seats, the manifests and the caches.
LEMMA Seats ==
    ASSUME ArtifactsTypeOK
    PROVE  /\ Desk \in Actors /\ App \in Procs
           /\ \A x \in Actors : SeatOK(op[x]) /\ Proc(x) \in Procs
           /\ SeatOK(NoOp) /\ Nothing \in [A -> Known] /\ Loaded \in [A -> Known]
           /\ \A p \in Procs : cache[p] \in [A -> Known] /\ Listed(cache[p]) \subseteq A
           /\ Listed(Loaded) \subseteq A
           /\ \A a \in A : row[a] = "ok" => Loaded[a] = "ok" /\ a \in Listed(Loaded)
<1>1. Desk \in Actors /\ App \in Procs /\ \A x \in Actors : Proc(x) \in Procs
  BY DEF Actors, App, Procs, Proc
<1>2. \A x \in Actors : SeatOK(op[x])
  BY DEF ArtifactsTypeOK, SeatOK
<1>3. Nothing \in [A -> Known] /\ Loaded \in [A -> Known]
  BY DEF ArtifactsTypeOK, Nothing, Loaded, Live, Known
<1>4. SeatOK(NoOp)
  BY <1>3 DEF SeatOK, NoOp, Op, Known, Pcs
<1>5. \A p \in Procs : cache[p] \in [A -> Known] /\ Listed(cache[p]) \subseteq A
  BY DEF ArtifactsTypeOK, Listed
<1>6. Listed(Loaded) \subseteq A /\ \A a \in A : row[a] = "ok" => Loaded[a] = "ok" /\ a \in Listed(Loaded)
  BY DEF Listed, Loaded, Live
<1> QED
  BY <1>1, <1>2, <1>3, <1>4, <1>5, <1>6

\* An actor goes on, and no other does.
LEMMA GoesIs ==
    ASSUME ArtifactsTypeOK, NEW x \in Actors, NEW o, SeatOK(o), Goes(x, o)
    PROVE  /\ op' \in [Actors -> Op] /\ \A y \in Actors : SeatOK(op'[y])
           /\ op'[x] = o /\ \A y \in Actors \ {x} : op'[y] = op[y]
BY Seats DEF ArtifactsTypeOK, Goes, SeatOK

\* Marking a row and going on.
LEMMA MarkRowIs ==
    ASSUME ArtifactsTypeOK, NEW x \in Actors, NEW a \in A, NEW s \in Known, NEW todo \in SUBSET A,
           MarkRow(x, a, s, todo)
    PROVE  /\ \E o : /\ SeatOK(o) /\ Goes(x, o) /\ o.pc = "marking" /\ o.art = {a} /\ o.todo = todo
                     /\ o.seen = op[x].seen
           /\ UNCHANGED <<file, cache, swept, crashes, restores>>
           /\ row' \in [A -> Known \cup {"deleted"}]
           /\ \A b \in A : row'[b] = IF b = a /\ Live(a) THEN s ELSE row[b]
<1> DEFINE o == [op[x] EXCEPT !.pc = "marking", !.art = {a}, !.mark = s, !.todo = todo]
<1>1. op[x] \in Op
  BY DEF ArtifactsTypeOK
<1>2. /\ o \in Op /\ o.pc = "marking" /\ o.art = {a} /\ o.todo = todo /\ o.seen = op[x].seen
  BY <1>1 DEF Op, Pcs
<1>3. SeatOK(o)
  BY <1>2 DEF SeatOK
<1>4. row' = [row EXCEPT ![a] = IF Live(a) THEN s ELSE @] /\ row \in [A -> Known \cup {"deleted"}]
  BY DEF MarkRow, ArtifactsTypeOK
<1>5. /\ row' \in [A -> Known \cup {"deleted"}]
      /\ \A b \in A : row'[b] = IF b = a /\ Live(a) THEN s ELSE row[b]
  BY <1>4
<1> QED
  BY <1>2, <1>3, <1>5 DEF MarkRow

\* An actor takes a seat: to write or to delete only when it begins to.
Seated(x, o) ==
    /\ SeatOK(o) /\ Goes(x, o)
    /\ o.pc \in {"written", "deleting"} => WriteFile(x) \/ \E a \in A : DeleteFile(x, a)

\* Every step but a crash and a restoration is a step of one actor.
LEMMA SeatStep ==
    ASSUME ArtifactsTypeOK, ArtifactsNext
    PROVE  \/ \E x \in Actors : \E o : Seated(x, o)
           \/ Crash
           \/ \E a \in A : Restore(a)
<1>0. /\ \A x \in Actors : SeatOK(op[x]) /\ op[x] \in Op
      /\ NoOp.pc = "idle" /\ SeatOK(NoOp)
  BY Seats DEF SeatOK, NoOp
<1>1. ASSUME NEW x \in Actors, WriteFile(x)
      PROVE  \E o : Seated(x, o)
  <2>1. PICK a \in A : Goes(x, [NoOp EXCEPT !.pc = "written", !.art = {a}])
    BY <1>1 DEF WriteFile
  <2>2. /\ SeatOK([NoOp EXCEPT !.pc = "written", !.art = {a}])
        /\ [NoOp EXCEPT !.pc = "written", !.art = {a}].pc = "written"
    BY Seats DEF SeatOK, NoOp, Op, Pcs
  <2> QED
    BY <1>1, <2>1, <2>2 DEF Seated
<1>2. ASSUME NEW x \in Actors, SaveManifest(x)
      PROVE  \E o : Seated(x, o)
  <2>1. SeatOK([op[x] EXCEPT !.pc = "saved"]) /\ [op[x] EXCEPT !.pc = "saved"].pc = "saved"
    BY <1>0, <1>2 DEF SeatOK, Op, Pcs, SaveManifest
  <2> QED
    BY <1>2, <2>1, <1>0 DEF SaveManifest, Seated
<1>3. ASSUME NEW x \in Actors, Remember(x) \/ Drop(x) \/ InstallRows(x) \/ CommandEnds(x)
      PROVE  \E o : Seated(x, o)
  BY <1>3, <1>0 DEF Remember, Drop, InstallRows, CommandEnds, Ends, Seated
<1>4. ASSUME NEW x \in Actors, NEW a \in A, DeleteFile(x, a)
      PROVE  \E o : Seated(x, o)
  <2>1. /\ SeatOK([NoOp EXCEPT !.pc = "deleting", !.art = {a}])
        /\ [NoOp EXCEPT !.pc = "deleting", !.art = {a}].pc = "deleting"
    BY Seats DEF SeatOK, NoOp, Op, Pcs
  <2> QED
    BY <1>4, <2>1, <1>0 DEF DeleteFile, Seated
<1>5. ASSUME NEW x \in Actors, MarkDeleted(x)
      PROVE  \E o : Seated(x, o)
  <2>1. SeatOK([op[x] EXCEPT !.pc = "dropping"]) /\ [op[x] EXCEPT !.pc = "dropping"].pc = "dropping"
    BY <1>0, <1>5 DEF SeatOK, Op, Pcs, MarkDeleted
  <2> QED
    BY <1>5, <2>1, <1>0 DEF MarkDeleted, Seated
<1>6. ASSUME NEW x \in Actors, MarkCache(x)
      PROVE  \E o : Seated(x, o)
  <2>1. /\ op[x].todo # {} => SeatOK([op[x] EXCEPT !.pc = "verify", !.art = {}])
        /\ [op[x] EXCEPT !.pc = "verify", !.art = {}].pc = "verify"
    BY <1>0 DEF SeatOK, Op, Pcs
  <2> QED
    BY <1>6, <2>1, <1>0 DEF MarkCache, Seated
<1>7. ASSUME NEW x \in Actors, NEW a \in A, ReadMissing(x, a)
      PROVE  \E o : Seated(x, o)
  <2>1. MarkRow(x, a, "missing", {}) /\ "missing" \in Known /\ {} \in SUBSET A
    BY <1>7 DEF ReadMissing, Known
  <2> QED
    BY <2>1, MarkRowIs DEF Seated
<1>8. ASSUME NEW x \in Actors, Verify(x)
      PROVE  \E o : Seated(x, o)
  <2>1. cache[App] \in [A -> Known] /\ Listed(cache[App]) \subseteq A /\ Listed(cache[App]) # {}
    BY <1>8, Seats DEF Verify
  <2>2. /\ SeatOK([NoOp EXCEPT !.pc = "verify", !.todo = Listed(cache[App]), !.seen = cache[App]])
        /\ [NoOp EXCEPT !.pc = "verify", !.todo = Listed(cache[App]), !.seen = cache[App]].pc = "verify"
    BY <2>1 DEF SeatOK, NoOp, Op, Pcs, Known
  <2> QED
    BY <1>8, <2>2, <1>0 DEF Verify, Seated
<1>9. ASSUME NEW x \in Actors, NEW a \in A, VerifyOne(x, a)
      PROVE  \E o : Seated(x, o)
  <2> DEFINE found == IF a \in file THEN "ok" ELSE "missing"
             todo == op[x].todo \ {a}
  <2>1. found \in Known /\ todo \in SUBSET A
    BY <1>0 DEF Known, Op
  <2>2. CASE MarkRow(x, a, found, todo)
    BY <2>1, <2>2, MarkRowIs DEF Seated
  <2>3. CASE Goes(x, IF todo = {} THEN NoOp ELSE [op[x] EXCEPT !.todo = todo])
    <3>1. /\ todo # {} => SeatOK([op[x] EXCEPT !.todo = todo])
          /\ [op[x] EXCEPT !.todo = todo].pc = "verify"
      BY <1>0, <1>9, <2>1 DEF SeatOK, Op, VerifyOne
    <3> QED
      BY <2>3, <3>1, <1>0 DEF Seated
  <2> QED
    BY <1>9, <2>2, <2>3 DEF VerifyOne
<1>10. ASSUME NEW x \in Actors, Cleanup(x)
       PROVE  \E o : Seated(x, o)
  <2>1. cache[App] \in [A -> Known]
    BY Seats
  <2>2. /\ SeatOK([NoOp EXCEPT !.pc = "listing", !.seen = cache[App]])
        /\ [NoOp EXCEPT !.pc = "listing", !.seen = cache[App]].pc = "listing"
    BY <2>1 DEF SeatOK, NoOp, Op, Pcs, Known
  <2> QED
    BY <1>10, <2>2, <1>0 DEF Cleanup, Seated
<1>11. ASSUME NEW x \in Actors, ListFiles(x)
       PROVE  \E o : Seated(x, o)
  <2> DEFINE todo == file \ Listed(op[x].seen)
  <2>1. todo \in SUBSET A
    BY DEF ArtifactsTypeOK
  <2>2. /\ todo # {} => SeatOK([op[x] EXCEPT !.pc = "removing", !.todo = todo])
        /\ [op[x] EXCEPT !.pc = "removing", !.todo = todo].pc = "removing"
    <3> DEFINE o == [op[x] EXCEPT !.pc = "removing", !.todo = todo]
    <3>1. op[x].pc = "listing" /\ op[x] \in Op /\ \A a, b \in op[x].art : a = b
      BY <1>0, <1>11 DEF SeatOK, ListFiles
    <3>2. o \in Op /\ o.pc = "removing" /\ o.todo = todo /\ o.art = op[x].art
      BY <2>1, <3>1 DEF Op, Pcs
    <3> QED
      BY <3>1, <3>2 DEF SeatOK
  <2> QED
    BY <1>11, <2>2, <1>0 DEF ListFiles, Seated
<1>12. ASSUME NEW x \in Actors, NEW a \in A, RemoveOne(x, a)
       PROVE  \E o : Seated(x, o)
  <2> DEFINE todo == op[x].todo \ {a}
  <2>1. /\ todo # {} => SeatOK([op[x] EXCEPT !.todo = todo])
        /\ [op[x] EXCEPT !.todo = todo].pc = "removing"
    BY <1>0, <1>12 DEF SeatOK, Op, RemoveOne
  <2> QED
    BY <1>12, <2>1, <1>0 DEF RemoveOne, Seated
<1>13. ASSUME NEW x \in Actors, LoadRows(x)
       PROVE  \E o : Seated(x, o)
  <2>1. /\ SeatOK([NoOp EXCEPT !.pc = "loaded", !.seen = Loaded])
        /\ [NoOp EXCEPT !.pc = "loaded", !.seen = Loaded].pc = "loaded"
    BY Seats DEF SeatOK, NoOp, Op, Pcs, Known
  <2> QED
    BY <1>13, <2>1, <1>0 DEF LoadRows, Seated
<1> QED
  BY <1>1, <1>2, <1>3, <1>4, <1>5, <1>6, <1>7, <1>8, <1>9, <1>10, <1>11, <1>12, <1>13 DEF ArtifactsNext

\* After a crash the main thread verifies every row it loads.
LEMMA CrashIs ==
    ASSUME ArtifactsTypeOK, Crash
    PROVE  /\ op' \in [Actors -> Op] /\ \A x \in Actors : SeatOK(op'[x])
           /\ \A x \in Actors : op'[x] = op[x] \/ op'[x].pc \in {"idle", "verify"}
           /\ \A a \in A : row[a] = "ok" =>
                 op'[Desk].pc = "verify" /\ a \in op'[Desk].todo /\ op'[Desk].seen[a] = "ok"
           /\ UNCHANGED <<file, row, swept, restores>>
<1> DEFINE boot == [NoOp EXCEPT !.pc = "verify", !.todo = Listed(Loaded), !.seen = Loaded, !.boot = TRUE]
<1>1. /\ Listed(Loaded) # {} => SeatOK(boot)
      /\ boot.pc = "verify" /\ boot.todo = Listed(Loaded) /\ boot.seen = Loaded /\ NoOp.pc = "idle"
  BY Seats DEF SeatOK, NoOp, Op, Pcs, Known
<1>2. op' = [x \in Actors |->
        CASE x \in Commands -> op[x]
          [] x = Desk /\ Listed(Loaded) # {} -> boot
          [] OTHER -> NoOp]
  BY DEF Crash
<1>3. Desk \in Actors /\ Desk \notin Commands
  BY ArtifactsAssumption DEF Actors
<1>4. ASSUME NEW x \in Actors
      PROVE  SeatOK(op'[x]) /\ (op'[x] = op[x] \/ op'[x].pc \in {"idle", "verify"})
  <2>1. CASE x \in Commands
    BY <1>2, <1>3, <2>1, Seats
  <2>2. CASE x \notin Commands /\ x = Desk /\ Listed(Loaded) # {}
    BY <1>1, <1>2, <2>2
  <2>3. CASE x \notin Commands /\ ~(x = Desk /\ Listed(Loaded) # {})
    <3>1. op'[x] = NoOp
      BY <1>2, <2>3
    <3> QED
      BY <1>1, <3>1, Seats
  <2> QED
    BY <2>1, <2>2, <2>3
<1>5. \A x \in Actors : op'[x] \in Op
  BY <1>4 DEF SeatOK
<1>6. op' \in [Actors -> Op]
  BY <1>2, <1>5
<1>7. ASSUME NEW a \in A, row[a] = "ok"
      PROVE  op'[Desk].pc = "verify" /\ a \in op'[Desk].todo /\ op'[Desk].seen[a] = "ok"
  <2>1. Loaded[a] = "ok" /\ a \in Listed(Loaded)
    BY <1>7, Seats
  <2>2. op'[Desk] = boot
    BY <1>2, <1>3, <2>1
  <2> QED
    BY <1>1, <2>1, <2>2
<1> QED
  BY <1>4, <1>6, <1>7 DEF Crash

\* Who changes a row, and to what.
LEMMA RowStep ==
    ASSUME ArtifactsTypeOK, ArtifactsNext, NEW a \in A
    PROVE  /\ row' \in [A -> Known \cup {"deleted"}]
           /\ \/ row'[a] = row[a]
              \/ /\ UNCHANGED <<file, swept>> /\ row'[a] = "ok"
                 /\ \E x \in Actors : SaveManifest(x) /\ a \in op[x].art
              \/ /\ UNCHANGED <<file, swept>> /\ row'[a] = "deleted"
                 /\ \E x \in Actors : MarkDeleted(x) /\ a \in op[x].art
              \/ /\ UNCHANGED <<file, swept>> /\ Live(a)
                 /\ row'[a] = IF a \in file THEN "ok" ELSE "missing"
<1>0. row \in [A -> Known \cup {"deleted"}]
  BY DEF ArtifactsTypeOK
<1>1. ASSUME NEW x \in Actors, SaveManifest(x)
      PROVE  /\ row' \in [A -> Known \cup {"deleted"}]
             /\ row'[a] = row[a] \/ (row'[a] = "ok" /\ a \in op[x].art)
             /\ UNCHANGED <<file, swept>>
  BY <1>0, <1>1 DEF SaveManifest, Known
<1>2. ASSUME NEW x \in Actors, MarkDeleted(x)
      PROVE  /\ row' \in [A -> Known \cup {"deleted"}]
             /\ row'[a] = row[a] \/ (row'[a] = "deleted" /\ a \in op[x].art)
             /\ UNCHANGED <<file, swept>>
  BY <1>0, <1>2 DEF MarkDeleted
<1>3. ASSUME NEW x \in Actors, NEW b \in A, ReadMissing(x, b)
      PROVE  /\ row' \in [A -> Known \cup {"deleted"}]
             /\ \/ row'[a] = row[a]
                \/ Live(a) /\ row'[a] = IF a \in file THEN "ok" ELSE "missing"
             /\ UNCHANGED <<file, swept>>
  <2>1. MarkRow(x, b, "missing", {}) /\ b \notin file /\ "missing" \in Known /\ {} \in SUBSET A
    BY <1>3 DEF ReadMissing, Known
  <2> QED
    BY <2>1, MarkRowIs
<1>4. ASSUME NEW x \in Actors, NEW b \in A, VerifyOne(x, b)
      PROVE  /\ row' \in [A -> Known \cup {"deleted"}]
             /\ \/ row'[a] = row[a]
                \/ Live(a) /\ row'[a] = IF a \in file THEN "ok" ELSE "missing"
             /\ UNCHANGED <<file, swept>>
  <2> DEFINE found == IF b \in file THEN "ok" ELSE "missing"
             todo == op[x].todo \ {b}
  <2>1. found \in Known /\ todo \in SUBSET A
    BY Seats DEF Known, SeatOK, Op
  <2>2. CASE MarkRow(x, b, found, todo)
    BY <2>1, <2>2, MarkRowIs
  <2>3. CASE UNCHANGED <<file, row, swept>>
    BY <1>0, <2>3
  <2> QED
    BY <1>4, <2>2, <2>3 DEF VerifyOne
<1>5. \/ UNCHANGED row
      \/ \E x \in Actors : SaveManifest(x) \/ MarkDeleted(x)
      \/ \E x \in Actors, b \in A : ReadMissing(x, b) \/ VerifyOne(x, b)
  <2>1. ASSUME NEW x \in Actors, \/ WriteFile(x) \/ Remember(x) \/ Drop(x) \/ MarkCache(x) \/ Verify(x)
                                \/ Cleanup(x) \/ ListFiles(x) \/ LoadRows(x) \/ InstallRows(x)
                                \/ CommandEnds(x)
        PROVE  UNCHANGED row
    BY <2>1 DEF WriteFile, Remember, Drop, MarkCache, Verify, Cleanup, ListFiles, LoadRows, InstallRows,
       CommandEnds
  <2>2. ASSUME NEW x \in Actors, NEW b \in A, DeleteFile(x, b) \/ RemoveOne(x, b)
        PROVE  UNCHANGED row
    BY <2>2 DEF DeleteFile, RemoveOne
  <2>3. CASE Crash \/ \E b \in A : Restore(b)
    BY <2>3 DEF Crash, Restore
  <2> QED
    BY <2>1, <2>2, <2>3 DEF ArtifactsNext
<1> QED
  BY <1>0, <1>1, <1>2, <1>3, <1>4, <1>5

\* Who changes a file.
LEMMA FileStep ==
    ASSUME ArtifactsTypeOK, ArtifactsNext, NEW a \in A
    PROVE  /\ file' \subseteq A /\ swept' \subseteq A /\ swept \subseteq swept'
           /\ \/ a \in file' <=> a \in file
              \/ a \in file' /\ row[a] = "none" /\ \E x \in Actors : WriteFile(x)
              \/ a \in file' /\ row[a] = "missing" /\ \A x \in Actors : op[x].pc = "idle"
              \/ a \notin file' /\ row[a] # "none" /\ DeleteFile(Desk, a)
              \/ a \notin file' /\ a \in swept'
<1>0. file \subseteq A /\ swept \subseteq A
  BY DEF ArtifactsTypeOK
<1>1. ASSUME NEW x \in Actors, WriteFile(x)
      PROVE  /\ file' \subseteq A /\ UNCHANGED swept
             /\ (a \in file' <=> a \in file) \/ (a \in file' /\ row[a] = "none")
  BY <1>0, <1>1 DEF WriteFile
<1>2. ASSUME NEW x \in Actors, NEW b \in A, DeleteFile(x, b)
      PROVE  /\ file' \subseteq A /\ UNCHANGED swept
             /\ (a \in file' <=> a \in file) \/ (a \notin file' /\ row[a] # "none" /\ DeleteFile(Desk, a))
  <2>1. x = Desk /\ row[b] # "none" /\ file' = file \ {b} /\ UNCHANGED swept
    BY <1>2 DEF DeleteFile
  <2> QED
    BY <1>0, <1>2, <2>1
<1>3. ASSUME NEW x \in Actors, NEW b \in A, RemoveOne(x, b)
      PROVE  /\ file' \subseteq A /\ swept' \subseteq A /\ swept \subseteq swept'
             /\ (a \in file' <=> a \in file) \/ (a \notin file' /\ a \in swept')
  BY <1>0, <1>3 DEF RemoveOne
<1>4. ASSUME NEW b \in A, Restore(b)
      PROVE  /\ file' \subseteq A /\ UNCHANGED swept
             /\ \/ a \in file' <=> a \in file
                \/ a \in file' /\ row[a] = "missing" /\ \A x \in Actors : op[x].pc = "idle"
  BY <1>0, <1>4 DEF Restore
<1>5. \/ UNCHANGED <<file, swept>>
      \/ \E x \in Actors : WriteFile(x)
      \/ \E x \in Actors, b \in A : DeleteFile(x, b) \/ RemoveOne(x, b)
      \/ \E b \in A : Restore(b)
  <2>1. ASSUME NEW x \in Actors, \/ SaveManifest(x) \/ Remember(x) \/ MarkDeleted(x) \/ Drop(x)
                                \/ MarkCache(x) \/ Verify(x) \/ Cleanup(x) \/ ListFiles(x)
                                \/ LoadRows(x) \/ InstallRows(x) \/ CommandEnds(x)
        PROVE  UNCHANGED <<file, swept>>
    BY <2>1 DEF SaveManifest, Remember, MarkDeleted, Drop, MarkCache, Verify, Cleanup, ListFiles, LoadRows,
       InstallRows, CommandEnds
  <2>2. ASSUME NEW x \in Actors, NEW b \in A, ReadMissing(x, b) \/ VerifyOne(x, b)
        PROVE  UNCHANGED <<file, swept>>
    BY <2>2 DEF ReadMissing, VerifyOne, MarkRow
  <2>3. CASE Crash
    BY <2>3 DEF Crash
  <2> QED
    BY <2>1, <2>2, <2>3 DEF ArtifactsNext
<1> QED
  BY <1>0, <1>1, <1>2, <1>3, <1>4, <1>5

LEMMA ArtifactsTypeStep ==
    ASSUME ArtifactsTypeOK, ArtifactsNext
    PROVE  ArtifactsTypeOK'
<1>1. op' \in [Actors -> Op] /\ \A x \in Actors : SeatOK(op'[x])
  <2>1. CASE \E x \in Actors : \E o : Seated(x, o)
    BY <2>1, GoesIs DEF Seated
  <2>2. CASE Crash
    BY <2>2, CrashIs
  <2>3. CASE \E a \in A : Restore(a)
    <3>1. UNCHANGED op
      BY <2>3 DEF Restore
    <3> QED
      BY <3>1, Seats DEF ArtifactsTypeOK
  <2> QED
    BY <2>1, <2>2, <2>3, SeatStep
<1>2. row' \in [A -> Known \cup {"deleted"}] /\ file' \subseteq A /\ swept' \subseteq A
  <2>1. ASSUME NEW a \in A
        PROVE  row' \in [A -> Known \cup {"deleted"}] /\ file' \subseteq A /\ swept' \subseteq A
    BY RowStep, FileStep
  <2>2. CASE A = {}
    <3>1. /\ \A x \in Actors : op[x].art = {}
          /\ file \subseteq A /\ swept \subseteq A /\ row \in [A -> Known \cup {"deleted"}]
      BY <2>2 DEF ArtifactsTypeOK, Op
    <3>2. \/ UNCHANGED <<file, row, swept>>
          \/ \E x \in Actors : (SaveManifest(x) /\ op[x].art # {}) \/ MarkDeleted(x)
      BY <2>2 DEF ArtifactsNext, WriteFile, SaveManifest, Remember, Drop, MarkCache, Verify, Cleanup, ListFiles,
         LoadRows, InstallRows, CommandEnds, Crash
    <3> QED
      BY <2>2, <3>1, <3>2 DEF MarkDeleted
  <2> QED
    BY <2>1, <2>2
<1>3. cache' \in [Procs -> [A -> Known]]
  <2>0. /\ cache \in [Procs -> [A -> Known]] /\ Nothing \in [A -> Known] /\ Loaded \in [A -> Known]
        /\ App \in Procs /\ \A x \in Actors : Proc(x) \in Procs /\ op[x] \in Op
        /\ \A x \in Commands : x \in Procs
    BY Seats DEF ArtifactsTypeOK, SeatOK, Procs
  <2>1. ASSUME NEW x \in Actors, Remember(x) \/ Drop(x) \/ MarkCache(x)
        PROVE  cache' \in [Procs -> [A -> Known]]
    <3> DEFINE P == Proc(x)
    <3>1. P \in Procs /\ op[x].mark \in Known /\ cache[P] \in [A -> Known]
      BY <2>0 DEF Op
    <3>2. PICK f \in [A -> Known] : cache' = [cache EXCEPT ![P] = f]
      <4>1. CASE Remember(x)
        <5> DEFINE f == [a \in A |-> IF a \in op[x].art THEN "ok" ELSE cache[P][a]]
        <5>1. f \in [A -> Known]
          BY <3>1 DEF Known
        <5>2. cache' = [cache EXCEPT ![P] = f]
          BY <2>0, <3>1, <4>1 DEF Remember
        <5> QED
          BY <5>1, <5>2
      <4>2. CASE Drop(x)
        <5> DEFINE f == [a \in A |-> IF a \in op[x].art THEN "none" ELSE cache[P][a]]
        <5>1. f \in [A -> Known]
          BY <3>1 DEF Known
        <5>2. cache' = [cache EXCEPT ![P] = f]
          BY <2>0, <3>1, <4>2 DEF Drop
        <5> QED
          BY <5>1, <5>2
      <4>3. CASE MarkCache(x)
        <5> DEFINE f == [a \in A |-> IF a \in op[x].art /\ cache[P][a] # "none"
                                     THEN op[x].mark ELSE cache[P][a]]
        <5>1. f \in [A -> Known]
          BY <3>1
        <5>2. cache' = [cache EXCEPT ![P] = f]
          BY <2>0, <3>1, <4>3 DEF MarkCache
        <5> QED
          BY <5>1, <5>2
      <4> QED
        BY <2>1, <4>1, <4>2, <4>3
    <3> QED
      BY <2>0, <3>1, <3>2
  <2>2. ASSUME NEW x \in Actors, InstallRows(x)
        PROVE  cache' \in [Procs -> [A -> Known]]
    BY <2>0, <2>2 DEF InstallRows, Op
  <2>3. ASSUME NEW x \in Actors, CommandEnds(x)
        PROVE  cache' \in [Procs -> [A -> Known]]
    BY <2>0, <2>3 DEF CommandEnds
  <2>4. CASE Crash
    BY <2>0, <2>4 DEF Crash
  <2>5. \/ UNCHANGED cache \/ Crash
        \/ \E x \in Actors : Remember(x) \/ Drop(x) \/ MarkCache(x) \/ InstallRows(x) \/ CommandEnds(x)
    <3>1. ASSUME NEW x \in Actors, \/ WriteFile(x) \/ SaveManifest(x) \/ MarkDeleted(x) \/ Verify(x)
                                  \/ Cleanup(x) \/ ListFiles(x) \/ LoadRows(x)
          PROVE  UNCHANGED cache
      BY <3>1 DEF WriteFile, SaveManifest, MarkDeleted, Verify, Cleanup, ListFiles, LoadRows
    <3>2. ASSUME NEW x \in Actors, NEW a \in A,
                 DeleteFile(x, a) \/ ReadMissing(x, a) \/ VerifyOne(x, a) \/ RemoveOne(x, a)
          PROVE  UNCHANGED cache
      BY <3>2 DEF DeleteFile, ReadMissing, VerifyOne, MarkRow, RemoveOne
    <3>3. ASSUME NEW a \in A, Restore(a)
          PROVE  UNCHANGED cache
      BY <3>3 DEF Restore
    <3> QED
      BY <3>1, <3>2, <3>3 DEF ArtifactsNext
  <2> QED
    BY <2>0, <2>1, <2>2, <2>3, <2>4, <2>5
<1>4. crashes' \in 0..MaxCrashes /\ restores' \in 0..MaxRestores
  <2>0. crashes \in 0..MaxCrashes /\ restores \in 0..MaxRestores /\ MaxCrashes \in Nat /\ MaxRestores \in Nat
    BY ArtifactsAssumption DEF ArtifactsTypeOK
  <2>1. \/ UNCHANGED <<crashes, restores>>
        \/ crashes < MaxCrashes /\ crashes' = crashes + 1 /\ UNCHANGED restores
        \/ restores < MaxRestores /\ restores' = restores + 1 /\ UNCHANGED crashes
    <3>1. ASSUME NEW x \in Actors, \/ WriteFile(x) \/ SaveManifest(x) \/ Remember(x) \/ MarkDeleted(x)
                                  \/ Drop(x) \/ MarkCache(x) \/ Verify(x) \/ Cleanup(x) \/ ListFiles(x)
                                  \/ LoadRows(x) \/ InstallRows(x) \/ CommandEnds(x)
          PROVE  UNCHANGED <<crashes, restores>>
      BY <3>1 DEF WriteFile, SaveManifest, Remember, MarkDeleted, Drop, MarkCache, Verify, Cleanup, ListFiles,
         LoadRows, InstallRows, CommandEnds
    <3>2. ASSUME NEW x \in Actors, NEW a \in A,
                 DeleteFile(x, a) \/ ReadMissing(x, a) \/ VerifyOne(x, a) \/ RemoveOne(x, a)
          PROVE  UNCHANGED <<crashes, restores>>
      BY <3>2 DEF DeleteFile, ReadMissing, VerifyOne, MarkRow, RemoveOne
    <3>3. CASE Crash
      BY <3>3 DEF Crash
    <3>4. ASSUME NEW a \in A, Restore(a)
          PROVE  restores < MaxRestores /\ restores' = restores + 1 /\ UNCHANGED crashes
      BY <3>4 DEF Restore
    <3> QED
      BY <3>1, <3>2, <3>3, <3>4 DEF ArtifactsNext
  <2> QED
    BY <2>0, <2>1
<1> QED
  BY <1>1, <1>2, <1>3, <1>4 DEF ArtifactsTypeOK, SeatOK

-----------------------------------------------------------------------------
(* What the actors are at. *)

\* Who is writing or deleting has just begun to or was doing so already.
LEMMA ActorStep ==
    ASSUME ArtifactsTypeOK, ArtifactsNext, NEW x \in Actors
    PROVE  /\ op'[x].pc = "written" =>
                \/ op'[x] = op[x]
                \/ WriteFile(x) /\ \E a \in A : /\ op'[x].art = {a} /\ a \in file' /\ row[a] = "none"
                                               /\ UNCHANGED row /\ a \notin file
                                               /\ \A y \in Actors : op[y].art # {a}
           /\ op'[x].pc = "deleting" =>
                \/ op'[x] = op[x]
                \/ \E a \in A : DeleteFile(x, a) /\ op'[x].art = {a}
           /\ SaveManifest(x) => op'[x].pc # "written"
<1>1. ASSUME NEW y \in Actors, y # x, NEW o, SeatOK(o), Goes(y, o)
      PROVE  op'[x] = op[x]
  BY <1>1, GoesIs
<1>2. ASSUME WriteFile(x)
      PROVE  \E a \in A : /\ op'[x].pc = "written" /\ op'[x].art = {a} /\ a \in file' /\ row[a] = "none"
                          /\ UNCHANGED row /\ a \notin file
                          /\ \A y \in Actors : op[y].art # {a}
  <2>1. PICK a \in A : /\ a \notin file /\ row[a] = "none" /\ \A y \in Actors: op[y].art # {a}
                       /\ file' = file \cup {a}
                       /\ op' = [op EXCEPT ![x] = [NoOp EXCEPT !.pc = "written", !.art = {a}]]
                       /\ UNCHANGED row
    BY <1>2 DEF WriteFile, Goes
  <2>2. op'[x] = [NoOp EXCEPT !.pc = "written", !.art = {a}]
    BY <2>1 DEF ArtifactsTypeOK
  <2>3. op'[x].pc = "written" /\ op'[x].art = {a}
    BY <2>2 DEF NoOp
  <2> QED
    BY <2>1, <2>3
<1>3. ASSUME NEW a \in A, DeleteFile(x, a)
      PROVE  op'[x].pc = "deleting" /\ op'[x].art = {a}
  <2>1. op' = [op EXCEPT ![x] = [NoOp EXCEPT !.pc = "deleting", !.art = {a}]]
    BY <1>3 DEF DeleteFile, Goes
  <2> QED
    BY <2>1 DEF ArtifactsTypeOK, NoOp
<1>7. SaveManifest(x) => op'[x].pc # "written"
  <2>1. SaveManifest(x) => op'[x] = [op[x] EXCEPT !.pc = "saved"] /\ op[x] \in Op
    BY DEF SaveManifest, Goes, ArtifactsTypeOK
  <2> QED
    BY <2>1 DEF Op
<1>4. CASE \E y \in Actors : \E o : Seated(y, o)
  <2>1. PICK y \in Actors : \E o : Seated(y, o)
    BY <1>4
  <2>2. PICK o : Seated(y, o)
    BY <2>1
  <2>3. SeatOK(o) /\ Goes(y, o)
    BY <2>2 DEF Seated
  <2>4. CASE y # x
    BY <1>1, <1>7, <2>3, <2>4
  <2>5. CASE y = x
    <3>1. op'[x] = o
      BY <2>3, <2>5, GoesIs
    <3>2. op'[x].pc \in {"written", "deleting"} => WriteFile(x) \/ \E a \in A : DeleteFile(x, a)
      BY <2>2, <2>5, <3>1 DEF Seated
    <3> QED
      BY <1>2, <1>3, <1>7, <3>2
  <2> QED
    BY <2>4, <2>5
<1>5. CASE Crash
  BY <1>5, <1>7, CrashIs
<1>6. CASE \E a \in A : Restore(a)
  BY <1>6 DEF Restore
<1> QED
  BY <1>4, <1>5, <1>6, <1>7, SeatStep

-----------------------------------------------------------------------------
(* The invariant. *)

LEMMA DeletedStep ==
    ASSUME ArtifactsIInv, ArtifactsNext
    PROVE  DeletedIsGone'
<1> SUFFICES ASSUME NEW a \in A, row'[a] = "deleted"
             PROVE  a \notin file'
  BY DEF DeletedIsGone
<1>0. ArtifactsTypeOK /\ DeletedIsGone /\ DeletingIsGone
  BY DEF ArtifactsIInv
<1>1. CASE row[a] = "deleted"
  BY <1>0, <1>1, FileStep DEF DeletedIsGone
<1>2. CASE row[a] # "deleted"
  <2>1. UNCHANGED file /\ \E x \in Actors : MarkDeleted(x) /\ a \in op[x].art
    BY <1>0, <1>2, RowStep
  <2> QED
    BY <1>0, <2>1 DEF DeletingIsGone, MarkDeleted
<1> QED
  BY <1>1, <1>2

LEMMA DeletingStep ==
    ASSUME ArtifactsIInv, ArtifactsNext
    PROVE  DeletingIsGone'
<1> SUFFICES ASSUME NEW x \in Actors, op'[x].pc = "deleting", NEW a \in op'[x].art
             PROVE  a \notin file' /\ row'[a] # "none"
  BY DEF DeletingIsGone
<1>0. ArtifactsTypeOK /\ DeletingIsGone
  BY DEF ArtifactsIInv
<1>1. CASE op'[x] = op[x]
  <2>1. a \in A
    BY <1>0, <1>1 DEF ArtifactsTypeOK, Op
  <2>2. a \notin file /\ row[a] # "none" /\ op[x].pc # "idle"
    BY <1>0, <1>1 DEF DeletingIsGone
  <2>3. a \notin file'
    BY <1>0, <2>1, <2>2, FileStep
  <2>4. row'[a] # "none"
    BY <1>0, <2>1, <2>2, RowStep
  <2> QED
    BY <2>3, <2>4
<1>2. CASE \E b \in A : DeleteFile(x, b) /\ op'[x].art = {b}
  BY <1>2 DEF DeleteFile
<1> QED
  BY <1>0, <1>1, <1>2, ActorStep

LEMMA WritersStep ==
    ASSUME ArtifactsIInv, ArtifactsNext
    PROVE  WritersAreAlone'
<1> SUFFICES ASSUME NEW x \in Actors, op'[x].pc = "written", NEW a \in op'[x].art
             PROVE  /\ row'[a] = "none" /\ a \in file' \cup swept'
                    /\ \A y \in Actors \ {x} : op'[y].pc = "written" => a \notin op'[y].art
  BY DEF WritersAreAlone
<1>0. ArtifactsTypeOK /\ WritersAreAlone /\ DeletingIsGone
  BY DEF ArtifactsIInv
\* An artifact nobody has is not the one another works on.
<1>1. ASSUME NEW y \in Actors, NEW b, op[y].art # {b}
      PROVE  b \notin op[y].art
  <2>1. \A c, d \in op[y].art : c = d
    BY <1>0 DEF ArtifactsTypeOK
  <2> QED
    BY <1>1, <2>1
<1>2. CASE op'[x] = op[x]
  <2>1. a \in A
    BY <1>0, <1>2 DEF ArtifactsTypeOK, Op
  <2>2. /\ row[a] = "none" /\ a \in file \cup swept
        /\ \A y \in Actors \ {x} : op[y].pc = "written" => a \notin op[y].art
    BY <1>0, <1>2 DEF WritersAreAlone
  <2>3. row'[a] = "none"
    <3>1. ~\E y \in Actors : SaveManifest(y) /\ a \in op[y].art
      BY <1>0, <2>2, ActorStep DEF SaveManifest
    <3>2. ~\E y \in Actors : MarkDeleted(y) /\ a \in op[y].art
      BY <1>0, <2>2 DEF MarkDeleted, DeletingIsGone
    <3> QED
      BY <1>0, <2>1, <2>2, <3>1, <3>2, RowStep DEF Live
  <2>4. a \in file' \cup swept'
    BY <1>0, <2>1, <2>2, FileStep
  <2>5. ASSUME NEW y \in Actors \ {x}, op'[y].pc = "written"
        PROVE  a \notin op'[y].art
    <3>1. CASE op'[y] = op[y]
      BY <2>2, <2>5, <3>1
    <3>2. CASE \E b \in A : op'[y].art = {b} /\ \A z \in Actors : op[z].art # {b}
      <4>1. PICK b \in A : op'[y].art = {b} /\ \A z \in Actors : op[z].art # {b}
        BY <3>2
      <4>2. b \notin op[x].art
        BY <1>1, <4>1
      <4> QED
        BY <1>2, <4>1, <4>2
    <3> QED
      BY <1>0, <2>5, <3>1, <3>2, ActorStep
  <2> QED
    BY <2>3, <2>4, <2>5
<1>3. CASE WriteFile(x) /\ \E b \in A : /\ op'[x].art = {b} /\ b \in file' /\ row[b] = "none"
                                        /\ UNCHANGED row /\ b \notin file
                                        /\ \A y \in Actors : op[y].art # {b}
  <2>1. a \in A /\ a \in file' /\ row'[a] = "none" /\ \A y \in Actors : a \notin op[y].art
    BY <1>1, <1>3
  <2>2. \A y \in Actors \ {x} : op'[y] = op[y]
    <3>1. PICK o : Goes(x, o)
      BY <1>3 DEF WriteFile
    <3> QED
      BY <1>0, <3>1 DEF Goes, ArtifactsTypeOK
  <2> QED
    BY <2>1, <2>2
<1> QED
  BY <1>0, <1>2, <1>3, ActorStep

\* What the main thread has before it stays before it until it has looked.
LEMMA LostStep ==
    ASSUME ArtifactsIInv, ArtifactsNext
    PROVE  LostIsBeforeDesk'
<1> DEFINE Seen(a, o) ==
       \/ o.pc = "deleting" /\ a \in o.art
       \/ o.pc \in {"verify", "marking"} /\ a \in o.todo /\ o.seen[a] = "ok"
<1> SUFFICES ASSUME NEW a \in A \ swept', row'[a] = "ok", a \notin file'
             PROVE  Seen(a, op'[Desk])
  BY DEF LostIsBeforeDesk
<1>0. /\ ArtifactsTypeOK /\ WritersAreAlone /\ LostIsBeforeDesk
      /\ Desk \in Actors /\ a \in A /\ a \notin swept /\ Desk \notin Commands
  BY Seats, FileStep, ArtifactsAssumption DEF ArtifactsIInv
<1>1. CASE DeleteFile(Desk, a)
  <2>1. op' = [op EXCEPT ![Desk] = [NoOp EXCEPT !.pc = "deleting", !.art = {a}]]
    BY <1>1 DEF DeleteFile, Goes
  <2> QED
    BY <1>0, <2>1 DEF ArtifactsTypeOK, NoOp
<1>2. CASE ~DeleteFile(Desk, a)
  <2>1. a \notin file
    BY <1>0, <1>2, FileStep
  <2>2. row[a] = "ok"
    <3>1. ~\E x \in Actors : SaveManifest(x) /\ a \in op[x].art
      BY <1>0, <2>1 DEF SaveManifest, WritersAreAlone
    <3> QED
      BY <1>0, <2>1, <3>1, RowStep
  <2>3. Seen(a, op[Desk])
    BY <1>0, <2>1, <2>2 DEF LostIsBeforeDesk
  <2>4. op[Desk] \in Op
    BY <1>0 DEF ArtifactsTypeOK
  <2>5. CASE op'[Desk] = op[Desk]
    BY <2>3, <2>5
  <2>6. CASE Crash
    BY <1>0, <2>2, <2>6, CrashIs
  <2>7. CASE MarkCache(Desk)
    <3>1. op[Desk].todo # {}
      BY <2>3, <2>7 DEF MarkCache
    <3>2. op'[Desk] = [op[Desk] EXCEPT !.pc = "verify", !.art = {}]
      BY <1>0, <2>7, <3>1 DEF MarkCache, Goes, ArtifactsTypeOK
    <3>3. op'[Desk].pc = "verify" /\ op'[Desk].todo = op[Desk].todo /\ op'[Desk].seen = op[Desk].seen
      BY <2>4, <3>2 DEF Op
    <3> QED
      BY <2>3, <2>7, <3>3 DEF MarkCache
  <2>8. ASSUME NEW b \in A, VerifyOne(Desk, b)
        PROVE  Seen(a, op'[Desk])
    <3> DEFINE found == IF b \in file THEN "ok" ELSE "missing"
               todo == op[Desk].todo \ {b}
    <3>1. found \in Known /\ todo \in SUBSET A
      BY <2>4 DEF Known, Op
    <3>2. op[Desk].pc = "verify" /\ a \in op[Desk].todo /\ op[Desk].seen[a] = "ok"
      BY <2>3, <2>8 DEF VerifyOne
    <3>3. b # a
      <4> SUFFICES ASSUME b = a
                   PROVE  FALSE
        OBVIOUS
      <4>1. MarkRow(Desk, b, found, todo) /\ found = "missing"
        BY <2>1, <2>8, <3>2 DEF VerifyOne
      <4>2. row'[a] = "missing"
        BY <1>0, <2>2, <3>1, <4>1, MarkRowIs DEF Live
      <4> QED
        BY <4>2
    <3>4. a \in todo
      BY <3>2, <3>3
    <3>5. CASE MarkRow(Desk, b, found, todo)
      <4>1. PICK o : /\ SeatOK(o) /\ Goes(Desk, o) /\ o.pc = "marking" /\ o.todo = todo
                     /\ o.seen = op[Desk].seen
        BY <1>0, <3>1, <3>5, MarkRowIs
      <4>2. op'[Desk] = o
        BY <1>0, <4>1, GoesIs
      <4> QED
        BY <3>2, <3>4, <4>1, <4>2
    <3>6. CASE Goes(Desk, IF todo = {} THEN NoOp ELSE [op[Desk] EXCEPT !.todo = todo])
      <4>1. op'[Desk] = [op[Desk] EXCEPT !.todo = todo]
        BY <1>0, <3>4, <3>6 DEF Goes, ArtifactsTypeOK
      <4>2. op'[Desk].pc = "verify" /\ op'[Desk].todo = todo /\ op'[Desk].seen = op[Desk].seen
        BY <2>4, <3>2, <4>1 DEF Op
      <4> QED
        BY <3>2, <3>4, <4>2
    <3> QED
      BY <2>8, <3>5, <3>6 DEF VerifyOne
  <2>9. ~MarkDeleted(Desk)
    <3> SUFFICES ASSUME MarkDeleted(Desk)
                 PROVE  FALSE
      OBVIOUS
    <3>1. op[Desk].pc = "deleting" /\ a \in op[Desk].art
      BY <2>3 DEF MarkDeleted
    <3> QED
      BY <1>0, <3>1 DEF MarkDeleted
  <2>10. \/ op'[Desk] = op[Desk] \/ Crash \/ MarkCache(Desk) \/ MarkDeleted(Desk)
         \/ \E b \in A : VerifyOne(Desk, b)
    <3>1. op[Desk].pc \in {"deleting", "verify", "marking"}
      BY <2>3
    <3>2. ASSUME NEW x \in Actors, x # Desk, NEW o, Goes(x, o)
          PROVE  op'[Desk] = op[Desk]
      BY <1>0, <3>2 DEF Goes, ArtifactsTypeOK
    <3>3. ASSUME NEW x \in Actors,
                 \/ WriteFile(x) \/ SaveManifest(x) \/ Remember(x) \/ Drop(x) \/ Verify(x) \/ Cleanup(x)
                 \/ ListFiles(x) \/ LoadRows(x) \/ InstallRows(x) \/ CommandEnds(x)
                 \/ \E b \in A : DeleteFile(x, b) \/ ReadMissing(x, b) \/ RemoveOne(x, b)
          PROVE  x # Desk /\ \E o : Goes(x, o)
      <4>1. x # Desk
        BY <1>0, <3>1, <3>3 DEF WriteFile, SaveManifest, Remember, Drop, Verify, Cleanup, ListFiles, LoadRows,
           InstallRows, CommandEnds, DeleteFile, ReadMissing, RemoveOne, Begins
      <4>2. \E o : Goes(x, o)
        BY <3>3 DEF WriteFile, SaveManifest, Remember, Drop, Verify, Cleanup, ListFiles, LoadRows,
           InstallRows, CommandEnds, DeleteFile, ReadMissing, MarkRow, RemoveOne, Ends
      <4> QED
        BY <4>1, <4>2
    <3>4. ASSUME NEW x \in Actors, x # Desk,
                 MarkDeleted(x) \/ MarkCache(x) \/ \E b \in A : VerifyOne(x, b)
          PROVE  \E o : Goes(x, o)
      BY <3>4 DEF MarkDeleted, MarkCache, VerifyOne, MarkRow
    <3>5. ASSUME NEW b \in A, Restore(b)
          PROVE  UNCHANGED op
      BY <3>5 DEF Restore
    <3> QED
      BY <3>2, <3>3, <3>4, <3>5 DEF ArtifactsNext
  <2> QED
    BY <2>5, <2>6, <2>7, <2>8, <2>9, <2>10
<1> QED
  BY <1>1, <1>2

LEMMA ArtifactsInitOK == ArtifactsInit => ArtifactsIInv
<1> SUFFICES ASSUME ArtifactsInit
             PROVE  ArtifactsIInv
  OBVIOUS
<1>1. Nothing \in [A -> Known] /\ 0 \in 0..MaxCrashes /\ 0 \in 0..MaxRestores
  BY ArtifactsAssumption DEF Nothing, Known
<1>2. NoOp \in Op /\ NoOp.pc = "idle" /\ NoOp.art = {}
  BY <1>1 DEF NoOp, Op, Pcs, Known
<1>3. ArtifactsTypeOK
  BY <1>1, <1>2 DEF ArtifactsInit, ArtifactsTypeOK, Known
<1>4. DeletedIsGone /\ WritersAreAlone /\ DeletingIsGone /\ LostIsBeforeDesk
  BY <1>2 DEF ArtifactsInit, DeletedIsGone, WritersAreAlone, DeletingIsGone, LostIsBeforeDesk
<1> QED
  BY <1>3, <1>4 DEF ArtifactsIInv

LEMMA ArtifactsStep == ArtifactsIInv /\ [ArtifactsNext]_vars => ArtifactsIInv'
<1>1. ASSUME ArtifactsIInv, ArtifactsNext
      PROVE  ArtifactsIInv'
  BY <1>1, ArtifactsTypeStep, DeletedStep, DeletingStep, WritersStep, LostStep DEF ArtifactsIInv
<1>2. ASSUME ArtifactsIInv, UNCHANGED vars
      PROVE  ArtifactsIInv'
  BY <1>2 DEF vars, ArtifactsIInv, ArtifactsTypeOK, DeletedIsGone, WritersAreAlone, DeletingIsGone,
     LostIsBeforeDesk
<1> QED
  BY <1>1, <1>2

LEMMA ArtifactsInvariant == ArtifactsSpec => []ArtifactsIInv
<1> QED
  BY ArtifactsInitOK, ArtifactsStep, PTL DEF ArtifactsSpec

\* A deleted artifact leaves no file behind, and a manifest that claims a file which is
\* not there is about to be corrected: for any artifacts, tasks, commands and crashes,
\* wherever a writing, a deletion or a verification is interrupted.
THEOREM ArtifactsSafe == ArtifactsSpec => []ArtifactsInv
<1>1. ArtifactsIInv => LostIsNoticed
  BY ArtifactsAssumption DEF ArtifactsIInv, LostIsBeforeDesk, LostIsNoticed, AtWork, Actors
<1>2. ArtifactsIInv => ArtifactsInv
  BY <1>1 DEF ArtifactsIInv, ArtifactsInv
<1> QED
  BY <1>2, ArtifactsInvariant, PTL

=============================================================================
