---------------------------- MODULE SessionProofs ---------------------------
(***************************************************************************)
(* Proofs about what is stored of a session.                               *)
(*                                                                         *)
(* The graph, for any number of processes, runs and revisions: the active  *)
(* revision is one its holder knows, a deleted session stays as it was,    *)
(* and only a live command gives a run an output.                          *)
(*                                                                         *)
(* The conversation of a turn, for any number of messages, restarts and    *)
(* cancellations: a run that says completed has every message of its turn, *)
(* and an ended run keeps its outcome, but for an update and a refresh     *)
(* that had looked at it before it ended.                                  *)
(***************************************************************************)
EXTENDS SessionGraph, Transcript, TLAPS

-----------------------------------------------------------------------------
(* The graph. *)

\* A load reads the session before its revisions, and revisions are never
\* removed: what it read first is covered by what it reads next.
LoadIsCovered ==
    db.known => \A p \in Procs :
        /\ load[p].pc = "session" => load[p].graph.active \in db.revs \cup {0}
        /\ load[p].pc \in {"revisions", "runs"} =>
              load[p].graph.active \in load[p].graph.revs \cup {0}

\* A revision waiting to be linked is stored, and the app never holds one.
FreshIsStored ==
    /\ fresh[App] = 0
    /\ \A p \in Procs : fresh[p] \in db.revs \cup {0}

GraphIInv == GraphInv /\ LoadIsCovered /\ FreshIsStored

LEMMA EmptyIsGraph == Empty \in Graph
BY DEF Empty, Graph

LEMMA GraphInitInv == ASSUME GraphInit PROVE GraphIInv
<1>1. GraphTypeOK
  <2>1. db \in Graph
    BY EmptyIsGraph DEF GraphInit, Graph, Empty
  <2>2. cache \in [Procs -> Graph] /\ load \in [Procs -> [pc : {"idle", "session", "revisions", "runs"},
                                                         graph : Graph]]
    BY EmptyIsGraph DEF GraphInit, Idle
  <2>3. nextRev \in 1..(MaxRevs + 1)
    BY GraphAssumption DEF GraphInit
  <2> QED
    BY <2>1, <2>2, <2>3 DEF GraphInit, GraphTypeOK
<1>2. ActiveIsKnown /\ LoadIsCovered /\ FreshIsStored
  BY GraphAssumption DEF GraphInit, ActiveIsKnown, LoadIsCovered, FreshIsStored, Idle, Empty
<1> QED
  BY <1>1, <1>2 DEF GraphIInv, GraphInv

-----------------------------------------------------------------------------

\* One more SELECT of a load.
LEMMA LoadStep ==
    ASSUME GraphIInv, NEW p \in Procs, ReadSession(p) \/ ReadRevisions(p) \/ ReadRuns(p)
    PROVE  GraphIInv'
<1> DEFINE LoadRecord == [pc : {"idle", "session", "revisions", "runs"}, graph : Graph]
<1>0. /\ db \in Graph /\ load \in [Procs -> LoadRecord]
      /\ UNCHANGED <<db, cache, up, fresh, nextRev>>
  BY DEF GraphIInv, GraphInv, GraphTypeOK, ReadSession, ReadRevisions, ReadRuns
<1>1. load[p] \in LoadRecord /\ load[p].graph \in Graph
  BY <1>0
<1>2. PICK copy \in LoadRecord :
         /\ load' = [load EXCEPT ![p] = copy]
         /\ db.known => /\ copy.pc = "session" => copy.graph.active \in db.revs \cup {0}
                        /\ copy.pc \in {"revisions", "runs"} =>
                              copy.graph.active \in copy.graph.revs \cup {0}
  <2>1. CASE ReadSession(p)
    <3> DEFINE g == IF db.known
                      THEN [Empty EXCEPT !.known = TRUE, !.title = db.title, !.active = db.active]
                      ELSE Empty
               copy == [pc |-> "session", graph |-> g]
    <3>1. g \in Graph /\ (db.known => g.active = db.active)
      BY <1>0, EmptyIsGraph DEF Graph, Empty
    <3>2. load' = [load EXCEPT ![p] = copy]
      BY <2>1 DEF ReadSession
    <3>3. copy \in LoadRecord /\ copy.pc = "session" /\ (db.known => copy.graph.active \in db.revs \cup {0})
      BY <3>1 DEF GraphIInv, GraphInv, ActiveIsKnown
    <3> QED
      BY <3>2, <3>3
  <2>2. CASE ReadRevisions(p)
    <3> DEFINE copy == [load[p] EXCEPT !.pc = "revisions",
                                      !.graph.revs = IF db.known THEN db.revs ELSE {}]
    <3>1. load' = [load EXCEPT ![p] = copy]
      BY <2>2, <1>0, <1>1 DEF ReadRevisions
    <3>2. copy \in LoadRecord /\ copy.pc = "revisions"
      BY <1>0, <1>1 DEF Graph
    <3>3. db.known => copy.graph.active = load[p].graph.active /\ copy.graph.revs = db.revs
      BY <1>0, <1>1 DEF Graph
    <3>4. db.known => load[p].graph.active \in db.revs \cup {0}
      BY <2>2 DEF ReadRevisions, GraphIInv, LoadIsCovered
    <3> QED
      BY <3>1, <3>2, <3>3, <3>4
  <2>3. CASE ReadRuns(p)
    <3> DEFINE live == db.known /\ load[p].graph.known
               copy == [load[p] EXCEPT !.pc = "runs",
                                      !.graph.st = IF live THEN db.st ELSE Empty.st,
                                      !.graph.out = IF live THEN db.out ELSE Empty.out]
    <3>1. load' = [load EXCEPT ![p] = copy]
      BY <2>3, <1>0, <1>1 DEF ReadRuns
    <3>2. copy \in LoadRecord /\ copy.pc = "runs"
      BY <1>0, <1>1, EmptyIsGraph DEF Graph
    <3>3. copy.graph.active = load[p].graph.active /\ copy.graph.revs = load[p].graph.revs
      BY <1>0, <1>1 DEF Graph
    <3>4. db.known => load[p].graph.active \in load[p].graph.revs \cup {0}
      BY <2>3 DEF ReadRuns, GraphIInv, LoadIsCovered
    <3> QED
      BY <3>1, <3>2, <3>3, <3>4
  <2> QED
    BY <2>1, <2>2, <2>3
<1>3. load' \in [Procs -> LoadRecord] /\ LoadIsCovered'
  BY <1>0, <1>2 DEF GraphIInv, LoadIsCovered
<1> QED
  BY <1>0, <1>3 DEF GraphIInv, GraphInv, GraphTypeOK, ActiveIsKnown, FreshIsStored

\* The end of a load replaces one cache; an exit empties one.
LEMMA InstallStep ==
    ASSUME GraphIInv, NEW p \in Procs, Install(p)
    PROVE  GraphIInv'
<1>0. /\ GraphTypeOK
      /\ UNCHANGED <<db, fresh, nextRev>> /\ up' = up \cup {p}
      /\ load' = [load EXCEPT ![p] = Idle]
      /\ cache' = cache \/ cache' = [cache EXCEPT ![p] = load[p].graph]
  BY DEF GraphIInv, GraphInv, Install
<1>1. GraphTypeOK'
  BY <1>0, EmptyIsGraph DEF GraphTypeOK, Idle
<1>2. db.known => load[p].graph.active \in load[p].graph.revs \cup {0}
  BY DEF Install, GraphIInv, LoadIsCovered
<1>3. ActiveIsKnown'
  BY <1>0, <1>2 DEF GraphIInv, GraphInv, GraphTypeOK, ActiveIsKnown
<1>4. LoadIsCovered'
  BY <1>0 DEF GraphIInv, GraphTypeOK, LoadIsCovered, Idle
<1> QED
  BY <1>0, <1>1, <1>3, <1>4 DEF GraphIInv, GraphInv, FreshIsStored

LEMMA ExitStep ==
    ASSUME GraphIInv, NEW p \in Procs, Exit(p)
    PROVE  GraphIInv'
<1>0. GraphTypeOK
  BY DEF GraphIInv, GraphInv
<1>1. GraphTypeOK'
  BY <1>0, EmptyIsGraph DEF Exit, GraphTypeOK, Idle
<1>2. Empty.active = 0
  BY DEF Empty
<1>3. ActiveIsKnown'
  BY <1>0, <1>2 DEF Exit, GraphIInv, GraphInv, GraphTypeOK, ActiveIsKnown
<1>4. LoadIsCovered' /\ FreshIsStored'
  BY <1>0 DEF Exit, GraphIInv, GraphTypeOK, LoadIsCovered, FreshIsStored, Idle
<1> QED
  BY <1>1, <1>3, <1>4 DEF GraphIInv, GraphInv

-----------------------------------------------------------------------------

\* What a save of the whole graph does to the rows: a stored session gets the
\* title and the active revision of the cache, and keeps every revision.
LEMMA PersistEffect ==
    ASSUME GraphIInv, NEW p \in Procs, NEW g \in Graph, Persist(p, g),
           db.known => g.active \in g.revs \cup {0}
    PROVE  /\ db' \in Graph /\ db'.known = db.known
           /\ db.revs \subseteq db'.revs
           /\ db'.active \in db'.revs \cup {0}
           /\ db'.st = db.st /\ db'.out = db.out
           /\ ~db.known => db' = db
           /\ cache' \in [Procs -> Graph]
           /\ \A q \in Procs \ {p} : cache'[q] = cache[q]
           /\ cache'[p] = g \/ cache'[p] = Empty
           /\ up' \subseteq up /\ up \ {p} \subseteq up'
           /\ p \notin up' => cache'[p] = Empty \/ p \notin up
           /\ p # App /\ p \in up' =>
                 p \notin up \/ db' = [db EXCEPT !.title = g.title, !.active = g.active,
                                                  !.revs = @ \cup g.revs]
<1>0. db \in Graph /\ cache \in [Procs -> Graph]
  BY DEF GraphIInv, GraphInv, GraphTypeOK
<1>1. CASE /\ db.known
           /\ cache' = [cache EXCEPT ![p] = g]
           /\ db' = [db EXCEPT !.title = g.title, !.active = g.active, !.revs = @ \cup g.revs]
           /\ UNCHANGED up
  BY <1>0, <1>1 DEF Graph
<1>2. CASE /\ cache' = [cache EXCEPT ![p] = IF p = App THEN g ELSE Empty]
           /\ up' = IF p = App THEN up ELSE up \ {p}
           /\ UNCHANGED db
  BY <1>0, <1>2, EmptyIsGraph DEF GraphIInv, GraphInv, ActiveIsKnown
<1> QED
  BY <1>1, <1>2 DEF Persist

\* Rows that only gain revisions, and caches that know their active revision,
\* keep the invariant.
LEMMA SavedInv ==
    ASSUME GraphIInv, GraphTypeOK', db.revs \subseteq db'.revs,
           db'.active \in db'.revs \cup {0}, db'.known => db.known,
           db'.known => \A p \in Procs : cache'[p].active \in cache'[p].revs \cup {0},
           FreshIsStored', load' = load
    PROVE  GraphIInv'
<1>1. ActiveIsKnown'
  BY DEF ActiveIsKnown
<1>2. LoadIsCovered'
  BY DEF GraphIInv, LoadIsCovered
<1> QED
  BY <1>1, <1>2 DEF GraphIInv, GraphInv

\* The saves of the app that make no revision, and those of a command.
LEMMA SaveStep ==
    ASSUME GraphIInv, NEW p \in Procs, Has(p), NEW g \in Graph, Persist(p, g),
           db.known => g.active \in g.revs \cup {0},
           UNCHANGED <<load, nextRev>>,
           fresh' = fresh \/ fresh' = [fresh EXCEPT ![p] = IF p \in up' THEN @ ELSE 0],
           p # App => fresh' = [fresh EXCEPT ![p] = IF p \in up' THEN @ ELSE 0]
    PROVE  GraphIInv'
<1>0. GraphTypeOK /\ FreshIsStored /\ p \in up
  BY DEF GraphIInv, GraphInv, Has
<1>1. /\ db' \in Graph /\ db'.known = db.known
      /\ db.revs \subseteq db'.revs
      /\ db'.active \in db'.revs \cup {0}
      /\ cache' \in [Procs -> Graph]
      /\ \A q \in Procs \ {p} : cache'[q] = cache[q]
      /\ cache'[p] = g \/ cache'[p] = Empty
      /\ up' \subseteq up /\ up \ {p} \subseteq up'
      /\ p \notin up' => cache'[p] = Empty
  BY <1>0, PersistEffect
<1>2. /\ fresh' \in [Procs -> {0} \cup Revs]
      /\ \A q \in Procs : fresh'[q] \in {fresh[q], 0}
      /\ \A q \in Procs \ {p} : fresh'[q] = fresh[q]
      /\ p \notin up' => fresh'[p] = 0
  <2>1. fresh \in [Procs -> {0} \cup Revs]
    BY <1>0 DEF GraphTypeOK
  <2>2. CASE fresh' = [fresh EXCEPT ![p] = IF p \in up' THEN @ ELSE 0]
    BY <2>1, <2>2
  <2>3. CASE fresh' = fresh /\ p = App
    BY <1>0, <2>1, <2>3 DEF FreshIsStored
  <2> QED
    BY <2>2, <2>3
<1>3. GraphTypeOK'
  BY <1>0, <1>1, <1>2 DEF GraphTypeOK
<1>4. FreshIsStored'
  BY <1>0, <1>1, <1>2, GraphAssumption DEF FreshIsStored
<1>5. db.known => \A q \in Procs : cache'[q].active \in cache'[q].revs \cup {0}
  BY <1>1 DEF GraphIInv, GraphInv, ActiveIsKnown, Empty
<1> QED
  BY <1>1, <1>3, <1>4, <1>5, SavedInv

\* What every cache satisfies, ready for a save.
LEMMA CacheRow ==
    ASSUME GraphIInv, NEW p \in Procs
    PROVE  cache[p] \in Graph /\ (db.known => cache[p].active \in cache[p].revs \cup {0})
BY DEF GraphIInv, GraphInv, GraphTypeOK, ActiveIsKnown

LEMMA TouchStep ==
    ASSUME GraphIInv, NEW p \in Procs, Touch(p)
    PROVE  GraphIInv'
BY CacheRow, SaveStep DEF Touch

LEMMA RenameStep == ASSUME GraphIInv, Rename PROVE GraphIInv'
<1> DEFINE g == [cache[App] EXCEPT !.title = IF Titles THEN "user" ELSE @]
<1>1. g \in Graph /\ (db.known => g.active \in g.revs \cup {0})
  BY CacheRow, GraphAssumption DEF Graph
<1>2. Persist(App, g) /\ Has(App) /\ UNCHANGED <<load, nextRev>> /\ fresh' = fresh
  BY DEF Rename
<1> QED
  BY <1>1, <1>2, SaveStep, GraphAssumption

LEMMA ActivateStep == ASSUME GraphIInv, NEW v \in Revs, Activate(v) PROVE GraphIInv'
<1> DEFINE g == [cache[App] EXCEPT !.active = v]
<1>1. g \in Graph /\ g.active \in g.revs \cup {0}
  BY CacheRow, GraphAssumption DEF Graph, Activate
<1>2. Persist(App, g) /\ Has(App) /\ UNCHANGED <<load, nextRev>> /\ fresh' = fresh
  BY DEF Activate
<1> QED
  BY <1>1, <1>2, SaveStep, GraphAssumption

\* A new revision is stored and active at once, or not stored at all.
LEMMA ApplyStep ==
    ASSUME GraphIInv, NEW p \in Procs, ApplySource(p)
    PROVE  GraphIInv'
<1> DEFINE g == [cache[p] EXCEPT !.revs = @ \cup {nextRev}, !.active = nextRev]
<1>0. /\ GraphTypeOK /\ FreshIsStored /\ p \in up /\ nextRev \in Revs /\ nextRev' = nextRev + 1
      /\ nextRev' \in 1..(MaxRevs + 1)
      /\ fresh' = [fresh EXCEPT ![p] = IF p # App /\ p \in up' THEN nextRev ELSE 0]
      /\ load' = load
  BY GraphAssumption DEF GraphIInv, GraphInv, ApplySource, Has, GraphTypeOK, Revs
<1>1. g \in Graph /\ g.active \in g.revs \cup {0} /\ g.active = nextRev /\ nextRev \in g.revs
  BY <1>0, CacheRow DEF Graph
<1>g. Persist(p, g)
  BY DEF ApplySource
<1> HIDE DEF g
<1>2. /\ db' \in Graph /\ db'.known = db.known
      /\ db.revs \subseteq db'.revs
      /\ db'.active \in db'.revs \cup {0}
      /\ cache' \in [Procs -> Graph]
      /\ \A q \in Procs \ {p} : cache'[q] = cache[q]
      /\ cache'[p] = g \/ cache'[p] = Empty
      /\ up' \subseteq up /\ up \ {p} \subseteq up'
      /\ p \notin up' => cache'[p] = Empty
      /\ p # App /\ p \in up' => db' = [db EXCEPT !.title = g.title, !.active = g.active,
                                                  !.revs = @ \cup g.revs]
  BY <1>0, <1>1, <1>g, PersistEffect
<1>3. GraphTypeOK'
  BY <1>0, <1>2 DEF GraphTypeOK
<1>4. p # App /\ p \in up' => nextRev \in db'.revs
  <2>1. db \in Graph
    BY <1>0 DEF GraphTypeOK
  <2>2. p # App /\ p \in up' => db'.revs = db.revs \cup g.revs
    BY <1>2, <2>1 DEF Graph
  <2> QED
    BY <1>1, <2>2
<1>5. FreshIsStored'
  BY <1>0, <1>2, <1>4, GraphAssumption DEF FreshIsStored, GraphTypeOK
<1>6. db.known => \A q \in Procs : cache'[q].active \in cache'[q].revs \cup {0}
  BY <1>1, <1>2 DEF GraphIInv, GraphInv, ActiveIsKnown, Empty
<1> QED
  BY <1>0, <1>2, <1>3, <1>5, <1>6, SavedInv

-----------------------------------------------------------------------------

\* The rows and caches of runs are of no concern to the revisions.
LEMMA RunRowsInv ==
    ASSUME GraphIInv, UNCHANGED <<up, load, nextRev>>,
           db' \in Graph, db'.known = db.known, db'.active = db.active, db'.revs = db.revs,
           NEW p \in up, NEW copy \in Graph, cache' = [cache EXCEPT ![p] = copy],
           copy.active = cache[p].active, copy.revs = cache[p].revs,
           fresh' = fresh \/ fresh' = [fresh EXCEPT ![p] = 0]
    PROVE  GraphIInv'
<1>0. GraphTypeOK /\ p \in Procs /\ cache \in [Procs -> Graph] /\ fresh \in [Procs -> {0} \cup Revs]
  BY DEF GraphIInv, GraphInv, GraphTypeOK
<1>1. /\ cache' \in [Procs -> Graph]
      /\ \A q \in Procs : cache'[q].active = cache[q].active /\ cache'[q].revs = cache[q].revs
      /\ \A q \in Procs \ up : cache'[q] = cache[q]
  BY <1>0
<1>2. /\ fresh' \in [Procs -> {0} \cup Revs]
      /\ \A q \in Procs : fresh'[q] \in {fresh[q], 0}
  BY <1>0
<1>3. GraphTypeOK'
  BY <1>0, <1>1, <1>2 DEF GraphTypeOK
<1>4. FreshIsStored'
  BY <1>2, GraphAssumption DEF GraphIInv, FreshIsStored
<1> QED
  BY <1>1, <1>3, <1>4, SavedInv DEF GraphIInv, GraphInv, ActiveIsKnown

LEMMA RunStep ==
    ASSUME GraphIInv, NEW r \in Runs, CreateRun(r) \/ TouchRun(r) \/ EndRun(r)
    PROVE  GraphIInv'
<1>0. /\ db \in Graph /\ App \in Procs /\ App \in up /\ cache \in [Procs -> Graph]
      /\ cache[App] \in Graph /\ UNCHANGED <<up, load, fresh, nextRev>>
  BY GraphAssumption DEF GraphIInv, GraphInv, GraphTypeOK, Has, CreateRun, TouchRun, EndRun, SaveRun
<1>1. PICK s \in {"active", "ended"}, t \in {"auto", "user"} :
          /\ cache' = [cache EXCEPT ![App].st[r] = s]
          /\ db' = [db EXCEPT !.st[r] = s, !.title = t]
  <2>1. CASE CreateRun(r)
    BY <1>0, <2>1 DEF CreateRun, Graph
  <2>2. CASE TouchRun(r) \/ EndRun(r)
    <3>1. PICK s \in {"active", "ended"} : SaveRun(r, s)
      BY <2>2 DEF TouchRun, EndRun
    <3>2. db' = [db EXCEPT !.st[r] = s, !.title = db.title] /\ db.title \in {"auto", "user"}
      BY <1>0, <3>1 DEF SaveRun, Graph
    <3> QED
      BY <3>1, <3>2 DEF SaveRun
  <2> QED
    BY <2>1, <2>2
<1> DEFINE copy == [cache[App] EXCEPT !.st[r] = s]
<1>2. copy \in Graph /\ copy.active = cache[App].active /\ copy.revs = cache[App].revs
  BY <1>0 DEF Graph
<1>3. cache' = [cache EXCEPT ![App] = copy]
  BY <1>0, <1>1
<1>4. db' \in Graph /\ db'.known = db.known /\ db'.active = db.active /\ db'.revs = db.revs
  BY <1>0, <1>1 DEF Graph
<1> HIDE DEF copy
<1> QED
  BY <1>0, <1>2, <1>3, <1>4, RunRowsInv

LEMMA LinkStep ==
    ASSUME GraphIInv, NEW p \in Procs, NEW r \in Runs, Link(p, r)
    PROVE  GraphIInv'
<1>0. /\ db \in Graph /\ p \in up /\ cache \in [Procs -> Graph] /\ cache[p] \in Graph
      /\ fresh[p] \in Revs /\ UNCHANGED <<up, load, nextRev>>
  BY DEF GraphIInv, GraphInv, GraphTypeOK, Has, Link
<1> DEFINE copy == [cache[p] EXCEPT !.out[r] = fresh[p]]
<1>1. copy \in Graph /\ copy.active = cache[p].active /\ copy.revs = cache[p].revs
  BY <1>0 DEF Graph
<1>2. cache' = [cache EXCEPT ![p] = copy]
  BY <1>0 DEF Link
<1>3. db' \in Graph /\ db'.known = db.known /\ db'.active = db.active /\ db'.revs = db.revs
  BY <1>0 DEF Link, Graph
<1>4. fresh' = [fresh EXCEPT ![p] = 0]
  BY DEF Link
<1> HIDE DEF copy
<1> QED
  BY <1>0, <1>1, <1>2, <1>3, <1>4, RunRowsInv

LEMMA DeleteStep == ASSUME GraphIInv, Delete PROVE GraphIInv'
<1>0. db \in Graph /\ cache \in [Procs -> Graph] /\ App \in Procs
  BY GraphAssumption DEF GraphIInv, GraphInv, GraphTypeOK
<1>1. /\ db' \in Graph /\ ~db'.known /\ db'.active = db.active /\ db'.revs = db.revs
      /\ cache' \in [Procs -> Graph] /\ \A q \in Procs \ {App} : cache'[q] = cache[q]
      /\ UNCHANGED <<up, load, fresh, nextRev>> /\ App \in up
  BY <1>0, EmptyIsGraph DEF Delete, Has, Graph
<1>2. GraphTypeOK'
  BY <1>1 DEF GraphIInv, GraphInv, GraphTypeOK
<1>3. FreshIsStored'
  BY <1>1 DEF GraphIInv, FreshIsStored
<1>4. db'.active \in db'.revs \cup {0}
  BY <1>1 DEF GraphIInv, GraphInv, ActiveIsKnown
<1> QED
  BY <1>1, <1>2, <1>3, <1>4, SavedInv

\* Every step of every process keeps the invariant.
LEMMA GraphInvStep ==
    ASSUME GraphIInv, [GraphNext]_graphVars
    PROVE  GraphIInv'
<1>1. CASE \E p \in Procs :
              ReadSession(p) \/ ReadRevisions(p) \/ ReadRuns(p) \/ Install(p) \/ Exit(p)
  BY <1>1, LoadStep, InstallStep, ExitStep
<1>2. CASE \E p \in Procs : ApplySource(p) \/ Touch(p)
  BY <1>2, ApplyStep, TouchStep
<1>3. CASE (\E v \in Revs : Activate(v)) \/ Rename \/ Delete
  BY <1>3, ActivateStep, RenameStep, DeleteStep
<1>4. CASE \E r \in Runs : CreateRun(r) \/ TouchRun(r) \/ EndRun(r)
  BY <1>4, RunStep
<1>5. CASE \E p \in Procs, r \in Runs : Link(p, r)
  BY <1>5, LinkStep
<1>6. CASE UNCHANGED graphVars
  BY <1>6 DEF graphVars, GraphIInv, GraphInv, GraphTypeOK, ActiveIsKnown, LoadIsCovered, FreshIsStored
<1> QED
  BY <1>1, <1>2, <1>3, <1>4, <1>5, <1>6 DEF GraphNext

\* The active revision is stored, and known to every process that has the
\* session, however the saves of others fall between the SELECTs of a load.
THEOREM GraphSafe == GraphSpec => []GraphInv
<1>1. GraphIInv => GraphInv
  BY DEF GraphIInv
<1> QED
  BY <1>1, GraphInitInv, GraphInvStep, PTL DEF GraphSpec

-----------------------------------------------------------------------------

\* No save reaches a deleted session.
LEMMA DeletedStep ==
    ASSUME GraphIInv, [GraphNext]_graphVars, ~db.known
    PROVE  /\ ~db'.known
           /\ db'.title = db.title
           /\ db'.active = db.active /\ db'.revs = db.revs
<1>0. db \in Graph /\ App \in Procs
  BY GraphAssumption DEF GraphIInv, GraphInv, GraphTypeOK
<1>1. ASSUME NEW p \in Procs, NEW g, Persist(p, g)
      PROVE  db' = db
  BY <1>1 DEF Persist
<1>2. CASE \E p \in Procs : ApplySource(p) \/ Touch(p)
  BY <1>1, <1>2 DEF ApplySource, Touch
<1>3. CASE (\E v \in Revs : Activate(v)) \/ Rename
  BY <1>0, <1>1, <1>3 DEF Activate, Rename
<1>4. CASE \E r \in Runs : TouchRun(r) \/ EndRun(r)
  BY <1>0, <1>4 DEF TouchRun, EndRun, SaveRun, Graph
<1>5. CASE \E p \in Procs, r \in Runs : Link(p, r)
  BY <1>0, <1>5 DEF Link, Graph
<1>6. CASE \E p \in Procs :
              ReadSession(p) \/ ReadRevisions(p) \/ ReadRuns(p) \/ Install(p) \/ Exit(p)
  BY <1>6 DEF ReadSession, ReadRevisions, ReadRuns, Install, Exit
<1>7. ~Delete /\ \A r \in Runs : ~CreateRun(r)
  BY DEF Delete, CreateRun
<1>8. CASE UNCHANGED graphVars
  BY <1>8 DEF graphVars
<1> QED
  BY <1>2, <1>3, <1>4, <1>5, <1>6, <1>7, <1>8 DEF GraphNext

\* A deleted session stays deleted, its graph as it was.
THEOREM GraphDeletedForever == GraphSpec => DeletedForever
<1>1. GraphIInv /\ [GraphNext]_graphVars
        => [~db.known => /\ ~db'.known
                         /\ db'.title = db.title
                         /\ db'.active = db.active /\ db'.revs = db.revs]_graphVars
  BY DeletedStep
<1> QED
  BY <1>1, GraphInitInv, GraphInvStep, PTL DEF GraphSpec, DeletedForever

\* No save changes the output of a run; a link gives it a stored revision.
LEMMA OutputStep ==
    ASSUME GraphIInv, [GraphNext]_graphVars, NEW r \in Runs, db'.out[r] # db.out[r]
    PROVE  /\ db'.out[r] \in db.revs
           /\ \E p \in up \ {App} : fresh[p] = db'.out[r]
<1>0. db \in Graph /\ App \in Procs /\ FreshIsStored
  BY GraphAssumption DEF GraphIInv, GraphInv, GraphTypeOK
<1>1. ASSUME NEW p \in Procs, NEW g, Persist(p, g)
      PROVE  db'.out = db.out
  BY <1>0, <1>1 DEF Persist, Graph
<1>2. CASE \E p \in Procs : ApplySource(p) \/ Touch(p)
  BY <1>1, <1>2 DEF ApplySource, Touch
<1>3. CASE (\E v \in Revs : Activate(v)) \/ Rename
  BY <1>0, <1>1, <1>3 DEF Activate, Rename
<1>4. CASE \E q \in Runs : CreateRun(q) \/ TouchRun(q) \/ EndRun(q)
  BY <1>0, <1>4 DEF CreateRun, TouchRun, EndRun, SaveRun, Graph
<1>5. CASE \E p \in Procs, q \in Runs : Link(p, q)
  <2>1. PICK p \in Procs, q \in Runs : Link(p, q)
    BY <1>5
  <2>2. db'.out[r] = fresh[p] /\ p \in up /\ fresh[p] # 0
    BY <1>0, <2>1 DEF Link, Has, Graph
  <2> QED
    BY <1>0, <2>2 DEF FreshIsStored
<1>6. CASE \E p \in Procs :
              ReadSession(p) \/ ReadRevisions(p) \/ ReadRuns(p) \/ Install(p) \/ Exit(p)
  BY <1>6 DEF ReadSession, ReadRevisions, ReadRuns, Install, Exit
<1>7. CASE Delete
  BY <1>0, <1>7 DEF Delete, Graph
<1>8. CASE UNCHANGED graphVars
  BY <1>8 DEF graphVars
<1> QED
  BY <1>2, <1>3, <1>4, <1>5, <1>6, <1>7, <1>8 DEF GraphNext

\* The output of a run changes only to a stored revision that a live command
\* has just made.
THEOREM GraphOutputIsFresh == GraphSpec => OutputIsFresh
<1>1. GraphIInv /\ [GraphNext]_graphVars
        => [\A r \in Runs : db'.out[r] # db.out[r] =>
              /\ db'.out[r] \in db.revs
              /\ \E p \in up \ {App} : fresh[p] = db'.out[r]]_graphVars
  BY OutputStep
<1> QED
  BY <1>1, GraphInitInv, GraphInvStep, PTL DEF GraphSpec, OutputIsFresh

-----------------------------------------------------------------------------
(* The conversation of a turn. *)

Notifications == {Item(i) : i \in Msgs} \cup {End(st) : st \in Terminal}

\* The messages the collector has taken from its route.
Received == coll.count + Len(coll.observed)

\* A collector that refreshes the cache goes on listening afterwards.
Listening == coll.pc \in {"collect", "install", "interrupt", "drain"}

\* The turn is completed, and all its messages are saved.
AllSaved == codex.st = "completed" /\ \A i \in 1..codex.made : rows[i] # Absent

\* While the collector listens, its route holds what follows: the next messages
\* in order, and last the end of the turn, once Codex has completed them all.
QueueInOrder ==
    /\ queue \in Seq(Notifications)
    /\ Listening =>
        /\ \A k \in 1..Len(queue) :
              \/ queue[k] = Item(Received + k) /\ Received + k <= codex.made
              \/ /\ k = Len(queue) /\ codex.st \in Terminal /\ queue[k] = End(codex.st)
                 /\ Received + k - 1 = codex.made
        /\ open /\ codex.st = "running" => Received + Len(queue) = codex.made

\* The collector has ingested the first messages; what it observed comes next.
\* While its events are listened to, an ingested message is saved or held back.
CollectorInOrder ==
    /\ Received <= codex.made
    /\ \A k \in 1..Len(coll.observed) : coll.observed[k] = coll.count + k
    /\ coll.pc \in {"collect", "install", "interrupt"} => coll.observed = <<>>
    /\ active => \A i \in 1..coll.count :
                    rows[i] # Absent \/ \E k \in 1..Len(coll.legacy) : coll.legacy[k] = i

\* A collector on its way to success has every message, or it has read the
\* history and all of them are saved; they are when it writes the success.
CollectorHasAll ==
    /\ coll.pc \in {"check", "finalize", "ok"} =>
          AllSaved \/ (codex.st = "completed" /\ coll.count = codex.made)
    /\ coll.pc = "ingest" /\ coll.then = "check" =>
          AllSaved \/ (codex.st = "completed" /\ Received = codex.made)
    /\ coll.pc = "ok" => coll.legacy = <<>>
    /\ coll.pc = "complete" => AllSaved

\* A reader that found the turn completed found all its messages, and saves
\* them before it concludes.
ReaderOK(r) ==
    /\ r.upto <= codex.made
    /\ r.pc \in {"check", "apply", "conclude"} /\ r.st = "completed" =>
          codex.st = "completed" /\ r.upto = codex.made
    /\ r.pc \in {"apply", "conclude"} => \A i \in 1..(r.next - 1) : i \in Msgs => rows[i] # Absent
    /\ r.pc = "apply" => r.st = "completed"
    /\ r.pc = "check" => r.next = 1
    /\ r.pc = "conclude" /\ r.st = "completed" => r.next > r.upto
    /\ r.pc = "result" /\ r.st = "completed" => AllSaved

ReadersInOrder == \A w \in Readers : ReaderOK(read[w])

CompletedIsFinal == run.st = "completed" => AllSaved

\* The types of what the turn, its readers and the cached run consist of.
TurnTypeOK ==
    /\ codex \in [st: Terminal \cup {"running"}, made: 0..N, phased: Phases]
    /\ \A k \in DOMAIN queue: queue[k] \in Notifications
    /\ open \in BOOLEAN /\ active \in BOOLEAN
    /\ coll \in Collector
    /\ read \in [Readers -> Read]
    /\ rows \in [Msgs -> {"commentary", "final_answer", Absent}]
    /\ run \in RunStates
    /\ crashes \in 0..MaxCrashes /\ cancels \in 0..MaxCancels
    /\ \A w \in Readers: read[w].upto <= codex.made

TurnInv ==
    /\ TurnTypeOK
    /\ QueueInOrder
    /\ CollectorInOrder
    /\ CollectorHasAll
    /\ ReadersInOrder
    /\ CompletedIsFinal

\* What is written down of the run: its row is what is cached once the run has
\* ended, and a refresh that has loaded an ended run puts back what is there.
RowInv ==
    /\ row \in RunStates /\ snap \in RunStates /\ refreshes \in 0..MaxRefreshes
    /\ row.st = "completed" \/ snap.st = "completed" => AllSaved
    /\ RunEnded => row = run
    /\ coll.pc = "install" /\ Over(snap) => run = snap

TranscriptIInv == TurnInv /\ RowInv

\* Who may take an ended run back: the end of execute_run, which has looked at it
\* before it ended, and a refresh that has loaded it before it ended.
Overwriting ==
    \/ coll.pc \in {"complete", "failrun"} /\ coll'.pc = "end"
    \/ coll.pc = "install" /\ coll'.pc = "collect" /\ ~Over(snap)

\* What every step respects: a turn that is over stays as it is, messages stay
\* saved, and but for these two an ended run keeps its outcome.
Progress ==
    /\ codex.made <= codex'.made
    /\ codex.st # "running" => codex' = codex
    /\ \A i \in Msgs : rows[i] # Absent => rows'[i] # Absent
    /\ RunEnded /\ ~Overwriting => run' = run

LEMMA StatusOfTyped ==
    \A st : /\ StatusOf(st) \in {"completed", "failed", "cancelled"}
            /\ StatusOf(st) = "completed" <=> st = "completed"
BY DEF StatusOf

LEMMA TranscriptInitInv == ASSUME TranscriptInit PROVE TranscriptIInv
<1>1. TurnTypeOK /\ RowInv
  <2>1. coll \in Collector
    BY TranscriptAssumption DEF TranscriptInit, NewCollector, Collector
  <2>2. read \in [Readers -> Read] /\ \A w \in Readers : read[w].upto <= codex.made
    BY TranscriptAssumption DEF TranscriptInit, NoRead, Read
  <2>3. codex \in [st: Terminal \cup {"running"}, made: 0..N, phased: Phases]
    BY TranscriptAssumption DEF TranscriptInit
  <2>4. TurnTypeOK
    BY <2>1, <2>2, <2>3, TranscriptAssumption DEF TranscriptInit, TurnTypeOK, Absent, NewRun, RunStates
  <2>5. RowInv
    BY TranscriptAssumption DEF TranscriptInit, RowInv, NewRun, RunStates, RunEnded, Over
  <2> QED
    BY <2>4, <2>5
<1>2. QueueInOrder
  BY DEF TranscriptInit, QueueInOrder, Received, NewCollector
<1>3. CollectorInOrder /\ CollectorHasAll
  BY DEF TranscriptInit, CollectorInOrder, CollectorHasAll, Received, NewCollector
<1>4. ReadersInOrder /\ CompletedIsFinal
  BY DEF TranscriptInit, ReadersInOrder, ReaderOK, CompletedIsFinal, AllSaved, NoRead, NewRun
<1> QED
  BY <1>1, <1>2, <1>3, <1>4 DEF TranscriptIInv, TurnInv

-----------------------------------------------------------------------------
(* What is not written survives the steps of the others. *)

\* What is saved of a completed turn stays saved.
LEMMA SavedStays ==
    ASSUME TurnTypeOK, Progress, AllSaved
    PROVE  AllSaved'
<1>1. \A i \in 1..codex.made : i \in Msgs
  BY TranscriptAssumption DEF TurnTypeOK, Msgs
<1> QED
  BY <1>1 DEF AllSaved, Progress

LEMMA ReaderFrame ==
    ASSUME TurnTypeOK, codex'.made \in 0..N, Progress, NEW r \in Read, ReaderOK(r)
    PROVE  ReaderOK(r)'
<1>0. codex.made \in Nat /\ codex'.made \in Nat /\ r.upto \in Nat /\ r.next \in Nat /\ N \in Nat
  BY TranscriptAssumption DEF TurnTypeOK, Read
<1>1. r.upto <= codex'.made
  BY <1>0 DEF Progress, ReaderOK
<1>2. codex.st = "completed" => codex' = codex
  BY DEF Progress
<1>3. AllSaved => AllSaved'
  BY SavedStays
<1> QED
  BY <1>0, <1>1, <1>2, <1>3 DEF Progress, ReaderOK

LEMMA CollectorFrame ==
    ASSUME TurnTypeOK, CollectorInOrder, CollectorHasAll, codex'.made \in 0..N,
           Progress, coll' = coll, active' => active
    PROVE  CollectorInOrder' /\ CollectorHasAll'
<1>0. coll.count \in 0..N /\ coll.observed \in Seq(Msgs) /\ codex.made \in 0..N /\ N \in Nat
  BY TranscriptAssumption DEF TurnTypeOK, Collector
<1>1. Received' = Received /\ Received \in Nat
  BY <1>0 DEF Received
<1>2. CollectorInOrder'
  <2>1. Received' <= codex'.made
    BY <1>0, <1>1 DEF CollectorInOrder, Progress
  <2>2. \A i \in 1..coll.count : i \in Msgs
    BY <1>0 DEF Msgs
  <2> QED
    BY <1>0, <2>1, <2>2 DEF CollectorInOrder, Progress
<1>3. CollectorHasAll'
  <2>1. AllSaved => AllSaved'
    BY SavedStays
  <2>2. codex.st = "completed" => codex' = codex
    BY DEF Progress
  <2> QED
    BY <1>1, <2>1, <2>2 DEF CollectorHasAll
<1> QED
  BY <1>2, <1>3

LEMMA QueueFrame ==
    ASSUME QueueInOrder, codex' = codex, queue' = queue, Received' = Received,
           Listening' => Listening, open' => open
    PROVE  QueueInOrder'
BY DEF QueueInOrder

LEMMA CompletedFrame ==
    ASSUME TurnTypeOK, CompletedIsFinal, Progress,
           run'.st = "completed" => run.st = "completed"
    PROVE  CompletedIsFinal'
BY SavedStays DEF CompletedIsFinal, AllSaved

\* Storing one record for a reader leaves the other readers alone.
LEMMA ReadRow ==
    ASSUME read \in [Readers -> Read], NEW w \in Readers, NEW r \in Read,
           read' = [read EXCEPT ![w] = r]
    PROVE  /\ read' \in [Readers -> Read]
           /\ read'[w] = r
           /\ \A v \in Readers : v # w => read'[v] = read[v]
OBVIOUS

LEMMA ReadersFrame ==
    ASSUME TurnTypeOK, ReadersInOrder, codex'.made \in 0..N, Progress,
           NEW w \in Readers, NEW r \in Read, read' = [read EXCEPT ![w] = r], ReaderOK(r)'
    PROVE  ReadersInOrder' /\ read' \in [Readers -> Read] /\ \A v \in Readers : read'[v].upto <= codex'.made
<1>1. read \in [Readers -> Read]
  BY DEF TurnTypeOK
<1>2. /\ read' \in [Readers -> Read]
      /\ read'[w] = r
      /\ \A v \in Readers : v # w => read'[v] = read[v]
  BY <1>1, ReadRow
<1>3. ASSUME NEW v \in Readers PROVE ReaderOK(read[v])'
  <2>1. CASE v = w
    BY <1>2, <2>1 DEF ReaderOK
  <2>2. CASE v # w
    <3>1. PICK x \in Read : x = read[v]
      BY <1>1
    <3>2. ReaderOK(x)
      BY <3>1 DEF ReadersInOrder
    <3>3. ReaderOK(x)'
      BY <3>2, ReaderFrame
    <3> QED
      BY <1>2, <2>2, <3>1, <3>3 DEF ReaderOK
  <2> QED
    BY <2>1, <2>2
<1>5. ReadersInOrder'
  BY <1>3 DEF ReadersInOrder
<1>6. \A v \in Readers : read'[v].upto <= codex'.made
  BY <1>5 DEF ReadersInOrder, ReaderOK
<1> QED
  BY <1>2, <1>5, <1>6

-----------------------------------------------------------------------------
(* The readers of the history. *)

LEMMA ReadStepInv ==
    ASSUME TurnInv, NEW w \in Readers, ReadStep(w)
    PROVE  TurnInv' /\ Progress
<1> DEFINE old == read[w]
<1>0. /\ TurnTypeOK /\ read \in [Readers -> Read] /\ old \in Read /\ ReaderOK(old)
      /\ codex.made \in 0..N /\ N \in Nat
      /\ codex \in [st: Terminal \cup {"running"}, made: 0..N, phased: Phases]
      /\ rows \in [Msgs -> {"commentary", "final_answer", Absent}]
      /\ run \in RunStates
      /\ CompletedIsFinal
      /\ old.upto \in 0..N /\ old.next \in 1..(N + 1)
      /\ old.st \in Terminal \cup {"running", "notfound", "error", "none"}
  BY TranscriptAssumption DEF TurnInv, TurnTypeOK, ReadersInOrder, Read
<1>1. UNCHANGED <<codex, queue, open, coll, active, crashes, cancels>>
  BY DEF ReadStep, ReadHistory, FoundRunning, BeginApply, ApplyMessage, Conclude
<1>2. PICK r \in Read :
         /\ read' = [read EXCEPT ![w] = r]
         /\ ReaderOK(r)'
         /\ Progress
         /\ rows' \in [Msgs -> {"commentary", "final_answer", Absent}]
         /\ run' \in RunStates
         /\ CompletedIsFinal'
  <2>1. CASE ReadHistory(w)
    <3>0. rows' = rows /\ run' = run /\ Progress /\ CompletedIsFinal'
      BY <1>0, <1>1, <2>1 DEF ReadHistory, Progress, CompletedIsFinal, AllSaved
    <3>1. CASE Result(w, "error")
      <4>r. PICK r \in Read : r = [old EXCEPT !.pc = "result", !.st = "error"]
        BY <1>0 DEF Read
      <4>1. r.pc = "result" /\ r.st = "error" /\ r.upto = old.upto
        BY <1>0, <4>r DEF Read
      <4>2. read' = [read EXCEPT ![w] = r]
        BY <4>r, <1>0, <3>1 DEF Result
      <4>3. ReaderOK(r)'
        BY <4>r, <1>0, <1>1, <4>1 DEF ReaderOK
      <4> QED
        BY <4>r, <1>0, <3>0, <4>1, <4>2, <4>3
    <3>2. CASE \E st \in {codex.st, "notfound"} :
                  read' = [read EXCEPT ![w] = [pc |-> "check", st |-> st, upto |-> codex.made, next |-> 1]]
      <4>1. PICK st \in {codex.st, "notfound"} :
                  read' = [read EXCEPT ![w] = [pc |-> "check", st |-> st, upto |-> codex.made, next |-> 1]]
        BY <3>2
      <4>0. st \in Terminal \cup {"running", "notfound"} /\ 1 \in 1..(N + 1)
        BY <1>0, <4>1
      <4>r. PICK r \in Read : r = [pc |-> "check", st |-> st, upto |-> codex.made, next |-> 1]
        BY <1>0, <4>0 DEF Read
      <4>2. r.pc = "check" /\ r.st = st /\ r.upto = codex.made /\ r.next = 1
        BY <4>r
      <4>3. ReaderOK(r)'
        <5>1. codex' = codex /\ codex.made \in Nat
          BY <1>0, <1>1
        <5>2. r.st = "completed" => codex.st = "completed"
          BY <4>1, <4>2
        <5> QED
          BY <4>2, <5>1, <5>2 DEF ReaderOK
      <4> QED
        BY <4>r, <1>0, <3>0, <4>1, <4>3
    <3> QED
      BY <2>1, <3>1, <3>2 DEF ReadHistory
  <2>2. CASE FoundRunning(w)
    <3>1. PICK s \in {"running", "error"} : Result(w, s)
      BY <2>2 DEF FoundRunning
    <3>r. PICK r \in Read : r = [old EXCEPT !.pc = "result", !.st = s]
      BY <1>0 DEF Read
    <3>2. r.pc = "result" /\ r.st = s /\ r.upto = old.upto
      BY <1>0, <3>r DEF Read
    <3>3. read' = [read EXCEPT ![w] = r]
      BY <3>r, <1>0, <3>1 DEF Result
    <3>4. ReaderOK(r)'
      BY <3>r, <1>0, <1>1, <3>2 DEF ReaderOK
    <3>5. /\ rows' = rows
          /\ run' = run \/ (~RunEnded /\ run' = [run EXCEPT !.reconciling = TRUE])
      BY <2>2 DEF FoundRunning, CanReconcile, MarkReconciling
    <3>6. /\ run' \in RunStates
          /\ run'.st = run.st /\ (RunEnded => run' = run)
      BY <1>0, <3>5 DEF RunStates
    <3>8. Progress
      BY <1>0, <1>1, <3>5, <3>6 DEF Progress
    <3>7. CompletedIsFinal'
      BY <1>0, <1>1, <3>5, <3>6 DEF CompletedIsFinal, AllSaved
    <3> QED
      BY <1>0, <3>r, <3>2, <3>3, <3>4, <3>5, <3>6, <3>7, <3>8
  <2>3. CASE BeginApply(w)
    <3>0. rows' = rows /\ run' = run /\ Progress /\ CompletedIsFinal'
      BY <1>0, <1>1, <2>3 DEF BeginApply, Progress, CompletedIsFinal, AllSaved
    <3>1. CASE Result(w, "error")
      <4>r. PICK r \in Read : r = [old EXCEPT !.pc = "result", !.st = "error"]
        BY <1>0 DEF Read
      <4>1. r.pc = "result" /\ r.st = "error" /\ r.upto = old.upto
        BY <1>0, <4>r DEF Read
      <4>2. read' = [read EXCEPT ![w] = r]
        BY <4>r, <1>0, <3>1 DEF Result
      <4>3. ReaderOK(r)'
        BY <4>r, <1>0, <1>1, <4>1 DEF ReaderOK
      <4> QED
        BY <4>r, <1>0, <3>0, <4>1, <4>2, <4>3
    <3>2. ASSUME NEW pc \in {"apply", "conclude"}, GoRead(w, pc), pc = "apply" <=> old.st = "completed"
          PROVE  \E r \in Read : read' = [read EXCEPT ![w] = r] /\ ReaderOK(r)'
      <4>r. PICK r \in Read : r = [old EXCEPT !.pc = pc]
        BY <1>0 DEF Read
      <4>1. r.pc = pc /\ r.st = old.st /\ r.upto = old.upto /\ r.next = old.next
        BY <1>0, <4>r DEF Read
      <4>2. read' = [read EXCEPT ![w] = r]
        BY <4>r, <1>0, <3>2 DEF GoRead
      <4>3. old.pc = "check" /\ old.next = 1
        BY <1>0, <2>3 DEF BeginApply, ReaderOK
      <4>4. ReaderOK(r)'
        BY <4>r, <1>0, <1>1, <3>2, <4>1, <4>3 DEF ReaderOK
      <4> QED
        BY <4>r, <4>1, <4>2, <4>4
    <3> QED
      BY <1>0, <2>3, <3>0, <3>1, <3>2 DEF BeginApply
  <2>4. CASE ApplyMessage(w)
    <3>0. old.pc = "apply" /\ old.st = "completed" /\ run' = run /\ codex.st = "completed"
          /\ old.upto = codex.made
      BY <1>0, <2>4 DEF ApplyMessage, ReaderOK
    <3>1. CASE old.next > old.upto
      <4>r. PICK r \in Read : r = [old EXCEPT !.pc = "conclude"]
        BY <1>0 DEF Read
      <4>1. r.pc = "conclude" /\ r.st = old.st /\ r.upto = old.upto /\ r.next = old.next
        BY <1>0, <4>r DEF Read
      <4>2. read' = [read EXCEPT ![w] = r] /\ rows' = rows
        BY <4>r, <1>0, <2>4, <3>1 DEF ApplyMessage, GoRead
      <4>3. ReaderOK(r)'
        BY <4>r, <1>0, <1>1, <3>0, <3>1, <4>1, <4>2 DEF ReaderOK
      <4>4. Progress /\ CompletedIsFinal'
        BY <1>0, <1>1, <3>0, <4>2 DEF Progress, CompletedIsFinal, AllSaved
      <4> QED
        BY <4>r, <1>0, <3>0, <4>1, <4>2, <4>3, <4>4
    <3>2. CASE ~(old.next > old.upto)
      <4>0. old.next \in Msgs /\ old.next + 1 \in 1..(N + 1)
        BY <1>0, <3>2 DEF Msgs
      <4>r. PICK r \in Read : r = [old EXCEPT !.next = old.next + 1]
        BY <1>0, <4>0 DEF Read
      <4>1. r.pc = old.pc /\ r.st = old.st /\ r.upto = old.upto /\ r.next = old.next + 1
        BY <1>0, <4>r DEF Read
      <4>2. read' = [read EXCEPT ![w] = r]
        BY <4>r, <1>0, <2>4, <3>2 DEF ApplyMessage
      <4>3. PICK phase \in {"final_answer", "commentary"} : rows' = [rows EXCEPT ![old.next] = phase]
        BY <2>4, <3>2 DEF ApplyMessage, Upsert, PhaseOf
      <4>4. /\ rows' \in [Msgs -> {"commentary", "final_answer", Absent}]
            /\ rows'[old.next] # Absent
            /\ \A i \in Msgs : rows[i] # Absent => rows'[i] # Absent
        BY <1>0, <4>0, <4>3 DEF Absent
      <4>5. ReaderOK(r)'
        <5>1. \A i \in 1..(r.next - 1) : i \in Msgs => rows'[i] # Absent
          <6>1. ASSUME NEW i \in 1..(r.next - 1), i \in Msgs, i # old.next
                PROVE  i \in 1..(old.next - 1)
            BY <4>r, <1>0, <4>1, <6>1
          <6>2. \A i \in 1..(old.next - 1) : i \in Msgs => rows[i] # Absent
            BY <1>0, <3>0 DEF ReaderOK
          <6> QED
            BY <4>4, <6>1, <6>2
        <5> QED
          BY <4>r, <1>0, <1>1, <3>0, <4>1, <5>1 DEF ReaderOK
      <4>6. Progress
        BY <1>0, <1>1, <3>0, <4>4 DEF Progress
      <4>7. CompletedIsFinal'
        BY <1>0, <3>0, <4>6, CompletedFrame
      <4> QED
        BY <4>r, <1>0, <3>0, <4>1, <4>2, <4>4, <4>5, <4>6, <4>7
    <3> QED
      BY <3>1, <3>2
  <2>5. CASE Conclude(w)
    <3>0. old.pc = "conclude" /\ rows' = rows
      BY <2>5 DEF Conclude
    <3>1. ASSUME NEW s \in {old.st, "error"}, Result(w, s), s = "completed" => AllSaved'
          PROVE  \E r \in Read : read' = [read EXCEPT ![w] = r] /\ ReaderOK(r)'
      <4>r. PICK r \in Read : r = [old EXCEPT !.pc = "result", !.st = s]
        BY <1>0 DEF Read
      <4>1. r.pc = "result" /\ r.st = s /\ r.upto = old.upto
        BY <1>0, <4>r DEF Read
      <4>2. read' = [read EXCEPT ![w] = r]
        BY <4>r, <1>0, <3>1 DEF Result
      <4>3. ReaderOK(r)'
        BY <4>r, <1>0, <1>1, <3>1, <4>1 DEF ReaderOK
      <4> QED
        BY <4>r, <4>2, <4>3
    <3>2. CASE RunEnded
      <4>1. run' = run /\ Progress
        BY <1>0, <1>1, <2>5, <3>0, <3>2 DEF Conclude, Progress
      <4>2. CompletedIsFinal'
        BY <1>0, <4>1, CompletedFrame
      <4>3. PICK s \in {old.st, "error"} :
                Result(w, s) /\ (s = "completed" => run.st = "completed")
        BY <2>5, <3>2, StatusOfTyped DEF Conclude
      <4>4. s = "completed" => AllSaved'
        BY <4>1, <4>2, <4>3 DEF CompletedIsFinal
      <4> QED
        BY <1>0, <3>0, <3>1, <4>1, <4>2, <4>3, <4>4
    <3>3. CASE ~RunEnded
      <4>1. run' = [st |-> StatusOf(old.st), reconciling |-> FALSE] /\ Result(w, old.st)
        BY <2>5, <3>3 DEF Conclude
      <4>2. /\ run' \in RunStates
            /\ run'.st = "completed" => old.st = "completed"
        BY <4>1, StatusOfTyped DEF RunStates
      <4>3. Progress
        BY <1>0, <1>1, <3>0, <3>3 DEF Progress
      <4>4. ASSUME old.st = "completed" PROVE AllSaved
        <5>1. codex.st = "completed" /\ old.upto = codex.made /\ old.next > old.upto
          BY <1>0, <3>0, <4>4 DEF ReaderOK
        <5>2. \A i \in 1..codex.made : i \in Msgs /\ i \in 1..(old.next - 1)
          BY <1>0, <5>1 DEF Msgs
        <5> QED
          BY <1>0, <3>0, <5>1, <5>2 DEF ReaderOK, AllSaved
      <4>5. old.st = "completed" => AllSaved'
        BY <1>1, <3>0, <4>4 DEF AllSaved
      <4>6. CompletedIsFinal'
        BY <4>2, <4>5 DEF CompletedIsFinal
      <4> QED
        BY <1>0, <3>0, <3>1, <4>1, <4>2, <4>3, <4>5, <4>6
    <3> QED
      BY <3>2, <3>3
  <2> QED
    BY <2>1, <2>2, <2>3, <2>4, <2>5 DEF ReadStep
<1>3. /\ ReadersInOrder' /\ read' \in [Readers -> Read]
      /\ \A v \in Readers : read'[v].upto <= codex'.made
  BY <1>0, <1>1, <1>2, ReadersFrame DEF TurnInv
<1>4. CollectorInOrder' /\ CollectorHasAll'
  BY <1>0, <1>1, <1>2, CollectorFrame DEF TurnInv
<1>5. QueueInOrder'
  BY <1>1, QueueFrame DEF TurnInv, Received, Listening
<1>6. TurnTypeOK'
  BY <1>0, <1>1, <1>2, <1>3 DEF TurnTypeOK
<1> QED
  BY <1>2, <1>3, <1>4, <1>5, <1>6 DEF TurnInv

LEMMA ReadersSame ==
    ASSUME TurnTypeOK, ReadersInOrder, codex'.made \in 0..N, Progress, read' = read
    PROVE  /\ ReadersInOrder' /\ read' \in [Readers -> Read]
           /\ \A v \in Readers : read'[v].upto <= codex'.made
<1>1. "cancel" \in Readers /\ read \in [Readers -> Read]
  BY DEF Readers, TurnTypeOK
<1>2. PICK r \in Read : r = read["cancel"]
  BY <1>1
<1>3. read' = [read EXCEPT !["cancel"] = r]
  BY <1>1, <1>2
<1>4. ReaderOK(r)
  BY <1>1, <1>2 DEF ReadersInOrder
<1>5. ReaderOK(r)'
  BY <1>4, ReaderFrame
<1> QED
  BY <1>1, <1>3, <1>5, ReadersFrame

\* The parts of the invariant are enough.
Shapes ==
    /\ codex \in [st: Terminal \cup {"running"}, made: 0..N, phased: Phases]
    /\ open \in BOOLEAN /\ active \in BOOLEAN
    /\ coll \in Collector
    /\ rows \in [Msgs -> {"commentary", "final_answer", Absent}]
    /\ run \in RunStates
    /\ crashes \in 0..MaxCrashes /\ cancels \in 0..MaxCancels

LEMMA ShapesOfInv ==
    ASSUME TurnInv
    PROVE  /\ Shapes /\ TurnTypeOK /\ read \in [Readers -> Read]
           /\ queue \in Seq(Notifications)
           /\ codex.made \in 0..N /\ N \in Nat
           /\ coll.count \in 0..N /\ coll.observed \in Seq(Msgs) /\ coll.legacy \in Seq(Msgs)
           /\ Received \in Nat /\ Received <= codex.made
BY TranscriptAssumption
   DEF TurnInv, TurnTypeOK, Shapes, QueueInOrder, CollectorInOrder, Collector, Received

LEMMA InvOfShapes ==
    ASSUME Shapes', read' \in [Readers -> Read], QueueInOrder', CollectorInOrder',
           CollectorHasAll', ReadersInOrder', CompletedIsFinal'
    PROVE  TurnInv'
<1>1. \A k \in DOMAIN queue' : queue'[k] \in Notifications
  BY DEF QueueInOrder
<1>2. \A w \in Readers : read'[w].upto <= codex'.made
  BY DEF ReadersInOrder, ReaderOK
<1>3. TurnTypeOK'
  BY <1>1, <1>2 DEF Shapes, TurnTypeOK, Notifications
<1> QED
  BY <1>3 DEF TurnInv

-----------------------------------------------------------------------------
(* Codex. *)

\* The end of a turn takes its place behind the last message.
LEMMA EndTurn ==
    ASSUME TurnInv, NEW st \in Terminal, codex.st = "running",
           codex' = [codex EXCEPT !.st = st], Notify(End(st)), open' = open,
           Received' = Received, Listening' => Listening
    PROVE  /\ QueueInOrder'
           /\ codex' \in [st: Terminal \cup {"running"}, made: 0..N, phased: Phases]
           /\ codex'.made = codex.made
<1>0. Shapes /\ QueueInOrder /\ queue \in Seq(Notifications) /\ Received \in Nat /\ codex.made \in 0..N
  BY ShapesOfInv DEF TurnInv
<1>1. /\ codex'.st = st /\ codex'.made = codex.made
      /\ codex' \in [st: Terminal \cup {"running"}, made: 0..N, phased: Phases]
  BY <1>0 DEF Shapes
<1>2. End(st) \in Notifications /\ st # "running"
  BY DEF Notifications, Terminal
<1>3. CASE ~open
  <2>1. queue' = queue
    BY <1>3 DEF Notify
  <2>2. QueueInOrder'
    BY <1>0, <1>1, <1>2, <1>3, <2>1 DEF QueueInOrder, Terminal
  <2> QED
    BY <1>1, <2>2
<1>4. CASE open
  <2>1. queue' = Append(queue, End(st))
    BY <1>4 DEF Notify
  <2>2. /\ queue' \in Seq(Notifications) /\ Len(queue') = Len(queue) + 1
        /\ \A k \in 1..Len(queue) : queue'[k] = queue[k]
        /\ queue'[Len(queue) + 1] = End(st)
    BY <1>0, <1>2, <2>1
  <2>3. ASSUME Listening, NEW k \in 1..Len(queue')
        PROVE  \/ queue'[k] = Item(Received + k) /\ Received + k <= codex'.made
               \/ /\ k = Len(queue') /\ queue'[k] = End(st)
                  /\ Received + k - 1 = codex'.made
    <3>1. /\ Received + Len(queue) = codex.made
          /\ \A l \in 1..Len(queue) : queue[l] = Item(Received + l) /\ Received + l <= codex.made
      BY <1>0, <1>4, <2>3 DEF QueueInOrder, Terminal
    <3>2. Len(queue) \in Nat
      BY <1>0
    <3>3. k \in 1..Len(queue) \/ k = Len(queue) + 1
      BY <2>2, <3>2
    <3> QED
      BY <1>0, <1>1, <2>2, <3>1, <3>2, <3>3
  <2>4. QueueInOrder'
    BY <1>1, <1>2, <2>2, <2>3 DEF QueueInOrder
  <2> QED
    BY <1>1, <2>4
<1> QED
  BY <1>3, <1>4

LEMMA CodexInv ==
    ASSUME TurnInv, CompleteItem \/ (\E st \in Terminal : CompleteTurn(st)) \/ Lose
    PROVE  TurnInv' /\ Progress
<1>0. /\ Shapes /\ TurnTypeOK /\ queue \in Seq(Notifications)
      /\ codex.made \in 0..N /\ N \in Nat /\ Received \in Nat
      /\ QueueInOrder /\ CollectorInOrder /\ CollectorHasAll /\ ReadersInOrder /\ CompletedIsFinal
  BY ShapesOfInv DEF TurnInv
<1>1. UNCHANGED <<coll, read, rows, run, active, crashes, cancels>>
  BY DEF CompleteItem, CompleteTurn, Lose
<1>2. Received' = Received /\ Listening' = Listening
  BY <1>1 DEF Received, Listening
<1>3. /\ QueueInOrder'
      /\ Progress
      /\ codex' \in [st: Terminal \cup {"running"}, made: 0..N, phased: Phases]
      /\ open' \in BOOLEAN
  <2>1. CASE CompleteItem
    <3>1. /\ codex.st = "running" /\ codex'.st = "running" /\ codex'.made = codex.made + 1
          /\ codex' \in [st: Terminal \cup {"running"}, made: 0..N, phased: Phases]
          /\ open' = open /\ codex.made + 1 \in Msgs
      BY <1>0, <2>1 DEF CompleteItem, Shapes, Msgs
    <3>2. Progress
      BY <1>0, <1>1, <3>1 DEF Progress
    <3>3. Item(codex.made + 1) \in Notifications
      BY <3>1 DEF Notifications
    <3>4. CASE ~open
      <4>1. queue' = queue
        BY <2>1, <3>4 DEF CompleteItem, Notify
      <4>2. QueueInOrder'
        BY <1>0, <1>2, <3>1, <3>4, <4>1 DEF QueueInOrder, Terminal
      <4> QED
        BY <1>0, <3>1, <3>2, <4>2 DEF Shapes
    <3>5. CASE open
      <4>1. queue' = Append(queue, Item(codex.made + 1))
        BY <2>1, <3>5 DEF CompleteItem, Notify
      <4>2. /\ queue' \in Seq(Notifications) /\ Len(queue') = Len(queue) + 1
            /\ \A k \in 1..Len(queue) : queue'[k] = queue[k]
            /\ queue'[Len(queue) + 1] = Item(codex.made + 1)
        BY <1>0, <3>3, <4>1
      <4>3. ASSUME Listening
            PROVE  /\ \A k \in 1..Len(queue') :
                        queue'[k] = Item(Received + k) /\ Received + k <= codex'.made
                   /\ Received + Len(queue') = codex'.made
        <5>1. /\ Received + Len(queue) = codex.made
              /\ \A k \in 1..Len(queue) : queue[k] = Item(Received + k) /\ Received + k <= codex.made
          BY <1>0, <3>1, <3>5, <4>3 DEF QueueInOrder, Terminal
        <5>2. Len(queue) \in Nat
          BY <1>0
        <5>3. ASSUME NEW k \in 1..Len(queue')
              PROVE  queue'[k] = Item(Received + k) /\ Received + k <= codex'.made
          <6>1. CASE k \in 1..Len(queue)
            BY <1>0, <3>1, <4>2, <5>1, <6>1
          <6>2. CASE k \notin 1..Len(queue)
            <7>1. k = Len(queue) + 1
              <8>1. k \in 1..(Len(queue) + 1)
                BY <4>2, <5>3
              <8> QED
                BY <5>2, <6>2, <8>1
            <7>2. Received + k = codex.made + 1
              <8>1. Received \in Nat /\ Received + Len(queue) = codex.made
                BY <1>0, <5>1
              <8> QED
                BY <5>2, <7>1, <8>1
            <7> QED
              BY <1>0, <3>1, <4>2, <7>1, <7>2
          <6> QED
            BY <6>1, <6>2
        <5>4. Received + Len(queue') = codex'.made
          <6>1. Len(queue') = Len(queue) + 1
            BY <4>2
          <6>2. codex'.made = codex.made + 1
            BY <3>1
          <6>3. Received \in Nat /\ Received + Len(queue) = codex.made
            BY <1>0, <5>1
          <6> QED
            BY <5>2, <6>1, <6>2, <6>3
        <5> QED
          BY <5>3, <5>4
      <4>4. QueueInOrder'
        BY <1>2, <4>2, <4>3 DEF QueueInOrder
      <4> QED
        BY <1>0, <3>1, <3>2, <4>4 DEF Shapes
    <3> QED
      BY <3>4, <3>5
  <2>2. ASSUME NEW st \in Terminal, CompleteTurn(st)
        PROVE  /\ QueueInOrder'
               /\ Progress
               /\ codex' \in [st: Terminal \cup {"running"}, made: 0..N, phased: Phases]
               /\ open' \in BOOLEAN
    <3>1. /\ codex.st = "running" /\ codex' = [codex EXCEPT !.st = st]
          /\ Notify(End(st)) /\ open' = open
      BY <2>2 DEF CompleteTurn
    <3>2. Progress
      BY <1>0, <1>1, <3>1 DEF Progress, Shapes
    <3> QED
      BY <1>0, <1>2, <3>1, <3>2, EndTurn DEF Shapes
  <2>3. CASE Lose
    <3>1. UNCHANGED <<codex, queue>> /\ open' = FALSE
      BY <2>3 DEF Lose
    <3> QED
      <4>1. QueueInOrder'
        BY <1>0, <1>2, <3>1, QueueFrame
      <4>2. Progress
        BY <1>0, <1>1, <3>1 DEF Progress
      <4> QED
        BY <1>0, <3>1, <4>1, <4>2 DEF Shapes
  <2> QED
    BY <2>1, <2>2, <2>3
<1>4. codex'.made \in 0..N /\ Shapes'
  BY <1>0, <1>1, <1>3 DEF Shapes
<1>5. CollectorInOrder' /\ CollectorHasAll'
  BY <1>0, <1>1, <1>3, <1>4, CollectorFrame
<1>6. ReadersInOrder' /\ read' \in [Readers -> Read]
  BY <1>0, <1>1, <1>3, <1>4, ReadersSame
<1>7. CompletedIsFinal'
  BY <1>0, <1>1, <1>3, CompletedFrame
<1> QED
  BY <1>3, <1>4, <1>5, <1>6, <1>7, InvOfShapes

-----------------------------------------------------------------------------
(* The collector. *)

\* What is at the head of the route: the next message, or the end of the turn
\* after the last one.
LEMMA HeadInOrder ==
    ASSUME TurnInv, Listening, queue # <<>>
    PROVE  /\ Tail(queue) \in Seq(Notifications)
           /\ \/ /\ Head(queue) = Item(Received + 1)
                 /\ Received + 1 \in Msgs /\ Received + 1 <= codex.made
              \/ Head(queue) = End(codex.st) /\ codex.st \in Terminal /\ Received = codex.made
<1>0. queue \in Seq(Notifications) /\ Received \in Nat /\ codex.made \in 0..N /\ N \in Nat /\ QueueInOrder
  BY ShapesOfInv DEF TurnInv
<1>1. Len(queue) \in Nat /\ 1 \in 1..Len(queue) /\ Head(queue) = queue[1]
  BY <1>0
<1>2. \/ queue[1] = Item(Received + 1) /\ Received + 1 <= codex.made
      \/ /\ codex.st \in Terminal /\ queue[1] = End(codex.st)
         /\ Received + 1 - 1 = codex.made
  BY <1>0, <1>1 DEF QueueInOrder
<1>3. Received + 1 <= codex.made => Received + 1 \in Msgs
  BY <1>0 DEF Msgs
<1> QED
  BY <1>0, <1>1, <1>2, <1>3

\* Taking a message leaves the rest in order.
LEMMA TailInOrder ==
    ASSUME TurnInv, Listening, queue # <<>>, queue' = Tail(queue),
           UNCHANGED <<codex, open>>, Received' = Received + 1
    PROVE  QueueInOrder'
<1>0. queue \in Seq(Notifications) /\ Received \in Nat /\ codex.made \in 0..N /\ QueueInOrder
  BY ShapesOfInv DEF TurnInv
<1>1. /\ queue' \in Seq(Notifications) /\ Len(queue) \in Nat /\ Len(queue') = Len(queue) - 1
      /\ \A k \in 1..Len(queue') : queue'[k] = queue[k + 1]
  BY <1>0
<1>2. ASSUME NEW k \in 1..Len(queue')
      PROVE  \/ queue'[k] = Item(Received' + k) /\ Received' + k <= codex'.made
             \/ /\ k = Len(queue') /\ codex'.st \in Terminal /\ queue'[k] = End(codex'.st)
                /\ Received' + k - 1 = codex'.made
  <2>1. k + 1 \in 1..Len(queue) /\ Received' + k = Received + (k + 1)
    BY <1>0, <1>1
  <2>2. \/ queue[k + 1] = Item(Received + (k + 1)) /\ Received + (k + 1) <= codex.made
        \/ /\ k + 1 = Len(queue) /\ codex.st \in Terminal /\ queue[k + 1] = End(codex.st)
           /\ Received + (k + 1) - 1 = codex.made
    BY <1>0, <2>1 DEF QueueInOrder
  <2>3. k + 1 = Len(queue) => k = Len(queue')
    <3>1. PICK m \in Nat : m = Len(queue) /\ Len(queue') = m - 1
      BY <1>1
    <3>3. k \in Nat
      BY <2>1
    <3>2. k + 1 = m => k = m - 1
      BY <3>1, <3>3
    <3> QED
      BY <3>1, <3>2
  <2>4. Received + (k + 1) - 1 = codex.made => Received' + k - 1 = codex.made
    BY <1>0, <2>1
  <2> QED
    BY <1>1, <2>1, <2>2, <2>3, <2>4
<1>3. open' /\ codex'.st = "running" => Received' + Len(queue') = codex'.made
  <2>1. open /\ codex.st = "running" => Received + Len(queue) = codex.made
    BY <1>0 DEF QueueInOrder
  <2>2. Received' + Len(queue') = Received + Len(queue)
    BY <1>0, <1>1
  <2> QED
    BY <2>1, <2>2
<1> QED
  BY <1>1, <1>2, <1>3 DEF QueueInOrder

\* A collector that moves on, keeping the messages it has.
LEMMA CollMove ==
    ASSUME TurnInv, UNCHANGED <<codex, open, rows>>, active' => active,
           queue' = queue, coll' \in Collector,
           coll'.count = coll.count, coll'.observed = coll.observed, coll'.legacy = coll.legacy,
           coll'.pc \in {"collect", "install", "interrupt", "drain"} =>
              /\ Listening
              /\ coll'.pc # "drain" => coll.pc # "drain"
    PROVE  QueueInOrder' /\ CollectorInOrder'
<1>0. QueueInOrder /\ CollectorInOrder
  BY DEF TurnInv
<1>1. Received' = Received /\ (Listening' => Listening)
  BY DEF Received, Listening
<1>2. QueueInOrder'
  BY <1>0, <1>1, QueueFrame
<1>3. CollectorInOrder'
  BY <1>0, <1>1 DEF CollectorInOrder, Listening
<1> QED
  BY <1>2, <1>3

\* Ingesting the next message saves it or holds it back.
LEMMA IngestEffect ==
    ASSUME TurnInv, NEW i \in Msgs, i = coll.count + 1, NEW rest \in Seq(Msgs),
           Ingest(i, rest), active' = active
    PROVE  /\ coll' \in Collector
           /\ coll'.pc = coll.pc /\ coll'.then = coll.then /\ coll'.why = coll.why
           /\ coll'.count = coll.count + 1 /\ coll'.observed = rest
           /\ rows' \in [Msgs -> {"commentary", "final_answer", Absent}]
           /\ \A j \in Msgs : rows[j] # Absent => rows'[j] # Absent
           /\ active' => \A j \in 1..coll'.count :
                            rows'[j] # Absent \/ \E k \in 1..Len(coll'.legacy) : coll'.legacy[k] = j
<1>0. /\ coll \in Collector /\ coll.legacy \in Seq(Msgs) /\ coll.count \in 0..N /\ N \in Nat
      /\ i \in 1..N
      /\ rows \in [Msgs -> {"commentary", "final_answer", Absent}]
      /\ active => \A j \in 1..coll.count :
                      rows[j] # Absent \/ \E k \in 1..Len(coll.legacy) : coll.legacy[k] = j
  BY ShapesOfInv DEF Shapes, TurnInv, CollectorInOrder, Msgs
<1>1. coll.count + 1 \in 0..N
  BY <1>0
<1>4. \A j \in 1..(coll.count + 1) : j \in 1..coll.count \/ j = i
  BY <1>0
<1>2. CASE codex.phased
  <2>1. /\ coll' = [coll EXCEPT !.count = coll.count + 1, !.observed = rest, !.legacy = coll.legacy]
        /\ Sink(i, PhaseOf(i, N))
    BY <1>2 DEF Ingest
  <2>2. /\ coll' \in Collector
        /\ coll'.pc = coll.pc /\ coll'.then = coll.then /\ coll'.why = coll.why
        /\ coll'.count = coll.count + 1 /\ coll'.observed = rest /\ coll'.legacy = coll.legacy
    BY <1>0, <1>1, <2>1 DEF Collector
  <2>3. PICK p \in {"commentary", "final_answer"} :
           IF active THEN rows' = [rows EXCEPT ![i] = p] ELSE rows' = rows
    BY <2>1 DEF Sink, Upsert, PhaseOf
  <2>4. /\ rows' \in [Msgs -> {"commentary", "final_answer", Absent}]
        /\ \A j \in Msgs : rows[j] # Absent => rows'[j] # Absent
        /\ active => rows'[i] # Absent
    BY <1>0, <2>3 DEF Absent
  <2>5. \A j \in 1..coll.count : j \in Msgs
    BY <1>0 DEF Msgs
  <2> QED
    BY <1>0, <1>4, <2>2, <2>4, <2>5
<1>3. CASE ~codex.phased
  <2>1. /\ coll' = [coll EXCEPT !.count = coll.count + 1, !.observed = rest,
                                !.legacy = Append(coll.legacy, i)]
        /\ rows' = rows
    BY <1>3 DEF Ingest
  <2>2. /\ Append(coll.legacy, i) \in Seq(Msgs)
        /\ Len(Append(coll.legacy, i)) = Len(coll.legacy) + 1 /\ Len(coll.legacy) \in Nat
        /\ \A k \in 1..Len(coll.legacy) : Append(coll.legacy, i)[k] = coll.legacy[k]
        /\ Append(coll.legacy, i)[Len(coll.legacy) + 1] = i
    BY <1>0
  <2>3. /\ coll' \in Collector
        /\ coll'.pc = coll.pc /\ coll'.then = coll.then /\ coll'.why = coll.why
        /\ coll'.count = coll.count + 1 /\ coll'.observed = rest
        /\ coll'.legacy = Append(coll.legacy, i)
    BY <1>0, <1>1, <2>1, <2>2 DEF Collector
  <2>4. ASSUME active, NEW j \in 1..coll'.count
        PROVE  rows'[j] # Absent \/ \E k \in 1..Len(coll'.legacy) : coll'.legacy[k] = j
    <3>1. CASE j = i
      <4>1. Len(coll.legacy) + 1 \in 1..Len(coll'.legacy)
        BY <2>2, <2>3
      <4> QED
        BY <2>2, <2>3, <3>1, <4>1
    <3>2. CASE j \in 1..coll.count
      <4>1. \A k \in 1..Len(coll.legacy) : k \in 1..Len(coll'.legacy)
        BY <2>2, <2>3
      <4> QED
        BY <1>0, <2>1, <2>2, <2>3, <2>4, <3>2, <4>1
    <3> QED
      BY <1>4, <2>3, <2>4, <3>1, <3>2
  <2> QED
    BY <1>0, <2>1, <2>3, <2>4
<1> QED
  BY <1>2, <1>3

LEMMA ReceiveInv ==
    ASSUME TurnInv, Receive
    PROVE  TurnInv' /\ Progress
<1>0. /\ Shapes /\ TurnTypeOK /\ queue \in Seq(Notifications) /\ queue # <<>>
      /\ codex.made \in 0..N /\ N \in Nat /\ Received \in Nat /\ coll.count \in 0..N
      /\ QueueInOrder /\ CollectorInOrder /\ CollectorHasAll /\ ReadersInOrder /\ CompletedIsFinal
      /\ coll.pc = "collect" /\ Listening /\ coll.observed = <<>> /\ Received = coll.count
      /\ queue' = Tail(queue)
  BY ShapesOfInv DEF TurnInv, Receive, Listening, CollectorInOrder, Received
<1>1. UNCHANGED <<codex, open, read, run, active, crashes, cancels>>
  BY DEF Receive
<1>2. /\ Progress /\ Shapes' /\ QueueInOrder' /\ CollectorInOrder' /\ CollectorHasAll'
  <2>1. CASE Head(queue) = Item(Received + 1) /\ Received + 1 \in Msgs /\ Received + 1 <= codex.made
    <3>1. Ingest(coll.count + 1, <<>>) /\ coll.count + 1 \in Msgs
      BY <1>0, <2>1 DEF Receive, Item, Msgs
    <3>2. PICK i \in Msgs : i = coll.count + 1 /\ Ingest(i, <<>>)
      BY <3>1
    <3>a. <<>> \in Seq(Msgs)
      OBVIOUS
    <3>3. /\ coll' \in Collector /\ coll'.pc = coll.pc
          /\ coll'.count = coll.count + 1 /\ coll'.observed = <<>>
          /\ rows' \in [Msgs -> {"commentary", "final_answer", Absent}]
          /\ \A j \in Msgs : rows[j] # Absent => rows'[j] # Absent
          /\ active' => \A j \in 1..coll'.count :
                            rows'[j] # Absent \/ \E k \in 1..Len(coll'.legacy) : coll'.legacy[k] = j
      BY <1>1, <3>2, <3>a, IngestEffect
    <3>4. Received' = Received + 1
      BY <1>0, <3>3 DEF Received
    <3>5. QueueInOrder'
      BY <1>0, <1>1, <3>4, TailInOrder
    <3>6. CollectorInOrder'
      BY <1>1, <2>1, <3>3, <3>4 DEF CollectorInOrder
    <3>7. CollectorHasAll'
      BY <1>0, <3>3 DEF CollectorHasAll
    <3>8. Progress
      BY <1>0, <1>1, <3>3 DEF Progress
    <3> QED
      BY <1>0, <1>1, <3>3, <3>5, <3>6, <3>7, <3>8 DEF Shapes
  <2>2. CASE Head(queue) = End(codex.st) /\ codex.st \in Terminal /\ Received = codex.made
    <3>1. /\ coll' = [coll EXCEPT !.pc = IF codex.st = "completed" THEN "check" ELSE "fail"]
          /\ rows' = rows
      BY <2>2 DEF Receive, End, GoColl
    <3>2. /\ coll' \in Collector /\ coll'.pc = IF codex.st = "completed" THEN "check" ELSE "fail"
          /\ coll'.count = coll.count /\ coll'.observed = coll.observed /\ coll'.legacy = coll.legacy
      BY <1>0, <3>1 DEF Shapes, Collector
    <3>3. Received' = Received /\ ~Listening'
      BY <3>2 DEF Received, Listening
    <3>4. QueueInOrder'
      BY <1>0, <3>3, HeadInOrder DEF QueueInOrder
    <3>5. CollectorInOrder'
      BY <1>0, <1>1, <3>1, <3>2, <3>3 DEF CollectorInOrder
    <3>6. CollectorHasAll'
      BY <1>0, <1>1, <2>2, <3>2 DEF CollectorHasAll
    <3>7. Progress
      BY <1>0, <1>1, <3>1 DEF Progress
    <3> QED
      BY <1>0, <1>1, <3>1, <3>2, <3>4, <3>5, <3>6, <3>7 DEF Shapes
  <2> QED
    BY <1>0, <2>1, <2>2, HeadInOrder
<1>3. ReadersInOrder' /\ read' \in [Readers -> Read]
  BY <1>0, <1>1, <1>2, ReadersSame
<1>4. CompletedIsFinal'
  BY <1>0, <1>1, <1>2, CompletedFrame
<1> QED
  BY <1>2, <1>3, <1>4, InvOfShapes

LEMMA IngestObservedInv ==
    ASSUME TurnInv, IngestObserved
    PROVE  TurnInv' /\ Progress
<1>0. /\ Shapes /\ TurnTypeOK /\ queue \in Seq(Notifications)
      /\ codex.made \in 0..N /\ N \in Nat /\ Received \in Nat /\ Received <= codex.made
      /\ coll.count \in 0..N /\ coll.observed \in Seq(Msgs)
      /\ QueueInOrder /\ CollectorInOrder /\ CollectorHasAll /\ ReadersInOrder /\ CompletedIsFinal
      /\ coll.pc = "ingest"
  BY ShapesOfInv DEF TurnInv, IngestObserved
<1>1. UNCHANGED <<codex, queue, open, read, run, active, crashes, cancels>>
  BY DEF IngestObserved
<1>2. /\ Progress /\ Shapes' /\ QueueInOrder' /\ CollectorInOrder' /\ CollectorHasAll'
  <2>1. CASE coll.observed = <<>>
    <3>1. coll' = [coll EXCEPT !.pc = coll.then] /\ rows' = rows
      BY <2>1 DEF IngestObserved, GoColl
    <3>2. /\ coll' \in Collector /\ coll'.pc = coll.then /\ coll.then \in {"check", "fail"}
          /\ coll'.count = coll.count /\ coll'.observed = coll.observed /\ coll'.legacy = coll.legacy
      BY <1>0, <3>1 DEF Shapes, Collector
    <3>3. QueueInOrder' /\ CollectorInOrder'
      BY <1>0, <1>1, <3>1, <3>2, CollMove
    <3>4. Received = coll.count
      BY <1>0, <2>1 DEF Received
    <3>6. Progress
      BY <1>0, <1>1, <3>1 DEF Progress
    <3>5. CollectorHasAll'
      BY <1>0, <1>1, <3>2, <3>4, <3>6, SavedStays DEF CollectorHasAll
    <3> QED
      BY <1>0, <1>1, <3>1, <3>2, <3>3, <3>5, <3>6 DEF Shapes
  <2>2. CASE coll.observed # <<>>
    <3>0. /\ Head(coll.observed) \in Msgs /\ Head(coll.observed) = coll.count + 1
          /\ Tail(coll.observed) \in Seq(Msgs)
          /\ Len(coll.observed) \in Nat /\ Len(Tail(coll.observed)) = Len(coll.observed) - 1
          /\ \A k \in 1..Len(Tail(coll.observed)) : Tail(coll.observed)[k] = coll.observed[k + 1]
      <4>1. 1 \in 1..Len(coll.observed) /\ Head(coll.observed) = coll.observed[1]
        BY <1>0, <2>2
      <4>2. coll.observed[1] = coll.count + 1
        BY <1>0, <4>1 DEF CollectorInOrder
      <4> QED
        BY <1>0, <2>2, <4>1, <4>2
    <3>1. PICK i \in Msgs, rest \in Seq(Msgs) :
             i = coll.count + 1 /\ rest = Tail(coll.observed) /\ Ingest(i, rest)
      BY <2>2, <3>0 DEF IngestObserved
    <3>2. /\ coll' \in Collector /\ coll'.pc = coll.pc /\ coll'.then = coll.then
          /\ coll'.count = coll.count + 1 /\ coll'.observed = Tail(coll.observed)
          /\ rows' \in [Msgs -> {"commentary", "final_answer", Absent}]
          /\ \A j \in Msgs : rows[j] # Absent => rows'[j] # Absent
          /\ active' => \A j \in 1..coll'.count :
                            rows'[j] # Absent \/ \E k \in 1..Len(coll'.legacy) : coll'.legacy[k] = j
      BY <1>1, <3>1, IngestEffect
    <3>3. Received' = Received /\ ~Listening'
      BY <1>0, <3>0, <3>2 DEF Received, Listening
    <3>4. QueueInOrder'
      BY <1>0, <1>1, <3>3 DEF QueueInOrder
    <3>5. \A k \in 1..Len(coll'.observed) : coll'.observed[k] = coll'.count + k
      <4>1. ASSUME NEW k \in 1..Len(coll'.observed)
            PROVE  coll'.observed[k] = coll'.count + k
        <5>1. k + 1 \in 1..Len(coll.observed) /\ coll'.observed[k] = coll.observed[k + 1]
          BY <3>0, <3>2
        <5>2. coll.observed[k + 1] = coll.count + (k + 1)
          BY <1>0, <5>1 DEF CollectorInOrder
        <5> QED
          BY <1>0, <3>2, <5>1, <5>2
      <4> QED
        BY <4>1
    <3>6. CollectorInOrder'
      BY <1>0, <1>1, <3>2, <3>3, <3>5 DEF CollectorInOrder
    <3>8. Progress
      BY <1>0, <1>1, <3>2 DEF Progress
    <3>7. CollectorHasAll'
      BY <1>0, <1>1, <3>2, <3>3, <3>8, SavedStays DEF CollectorHasAll
    <3> QED
      BY <1>0, <1>1, <3>2, <3>4, <3>6, <3>7, <3>8 DEF Shapes
  <2> QED
    BY <2>1, <2>2
<1>3. ReadersInOrder' /\ read' \in [Readers -> Read]
  BY <1>0, <1>1, <1>2, ReadersSame
<1>4. CompletedIsFinal'
  BY <1>0, <1>1, <1>2, CompletedFrame
<1> QED
  BY <1>2, <1>3, <1>4, InvOfShapes

\* The outcome is only marked as being looked up, or given up on.
LEMMA RunMove ==
    ASSUME Shapes, (CanReconcile /\ MarkReconciling) \/ MarkUnknown \/ run' = run
    PROVE  /\ run' \in RunStates
           /\ run'.st = "completed" => run.st = "completed"
           /\ RunEnded => run' = run
<1>0. run \in RunStates
  BY DEF Shapes
<1>1. CASE run' = run
  BY <1>0, <1>1
<1>2. CASE ~RunEnded /\ run' = [run EXCEPT !.reconciling = TRUE]
  BY <1>0, <1>2 DEF RunStates
<1>3. CASE ~RunEnded /\ run' = [st |-> "failed", reconciling |-> FALSE]
  BY <1>3 DEF RunStates
<1> QED
  BY <1>1, <1>2, <1>3 DEF CanReconcile, MarkReconciling, MarkUnknown

\* A reader starts, stops or waits: nothing is claimed about the history.
LEMMA ReadMove ==
    ASSUME TurnInv, Progress, codex'.made = codex.made, NEW w \in Readers, NEW r \in Read,
           read' = [read EXCEPT ![w] = r], r.upto \in {0, read[w].upto},
           r.pc \in {"idle", "interrupt", "read"} \/ (r.pc = "result" /\ r.st # "completed")
    PROVE  ReadersInOrder' /\ read' \in [Readers -> Read]
<1>0. TurnTypeOK /\ ReadersInOrder /\ codex.made \in 0..N /\ codex.made \in Nat
  BY ShapesOfInv, TranscriptAssumption DEF TurnInv
<1>1. r.upto <= codex.made
  BY <1>0 DEF ReadersInOrder, ReaderOK
<1>2. ReaderOK(r)'
  BY <1>1 DEF ReaderOK
<1> QED
  BY <1>0, <1>2, ReadersFrame

LEMMA WaitInv ==
    ASSUME TurnInv, Closed \/ TurnTimeout
    PROVE  TurnInv' /\ Progress
<1>0. /\ Shapes /\ TurnTypeOK /\ codex.made \in 0..N /\ coll.pc = "collect" /\ Listening
      /\ ReadersInOrder /\ CompletedIsFinal
  BY ShapesOfInv DEF TurnInv, Closed, TurnTimeout, Listening
<1>1. UNCHANGED <<codex, queue, open, read, rows, run, active, crashes, cancels>>
  BY DEF Closed, TurnTimeout
<1>2. PICK pc \in {"lost", "interrupt"} : coll' = [coll EXCEPT !.pc = pc]
  BY DEF Closed, TurnTimeout, GoColl
<1>3. /\ coll' \in Collector /\ coll'.pc = pc
      /\ coll'.count = coll.count /\ coll'.observed = coll.observed /\ coll'.legacy = coll.legacy
  BY <1>0, <1>2 DEF Shapes, Collector
<1>4. QueueInOrder' /\ CollectorInOrder'
  BY <1>0, <1>1, <1>3, CollMove
<1>5. CollectorHasAll'
  BY <1>3 DEF CollectorHasAll
<1>6. Progress
  BY <1>0, <1>1 DEF Progress
<1>7. CompletedIsFinal'
  BY <1>0, <1>1, <1>6, CompletedFrame
<1>8. ReadersInOrder' /\ read' \in [Readers -> Read]
  BY <1>0, <1>1, <1>6, ReadersSame
<1>9. Shapes'
  BY <1>0, <1>1, <1>3 DEF Shapes
<1> QED
  BY <1>4, <1>5, <1>6, <1>7, <1>8, <1>9, InvOfShapes

\* The record of a reader that starts to read.
LEMMA StartTyped ==
    /\ [NoRead EXCEPT !.pc = "read"] \in Read
    /\ [NoRead EXCEPT !.pc = "read"].pc = "read" /\ [NoRead EXCEPT !.pc = "read"].upto = 0
    /\ NoRead \in Read /\ NoRead.pc = "idle" /\ NoRead.upto = 0
BY TranscriptAssumption DEF NoRead, Read

\* The collector turns to the history, or to its end without a success.
LEMMA LookUp ==
    ASSUME TurnInv, UNCHANGED <<codex, queue, open, rows, active, crashes, cancels>>,
           coll.pc \in {"lost", "check"},
           (CanReconcile /\ MarkReconciling) \/ run' = run,
           (\E why \in {"lost", "nomsg"} : StartRead(why)) \/ (GoColl("fail") /\ read' = read)
    PROVE  TurnInv' /\ Progress
<1>0. /\ Shapes /\ TurnTypeOK /\ codex.made \in 0..N
      /\ ReadersInOrder /\ CompletedIsFinal /\ "collector" \in Readers
  BY ShapesOfInv DEF TurnInv, Readers
<1>1. /\ run' \in RunStates
      /\ run'.st = "completed" => run.st = "completed"
      /\ RunEnded => run' = run
  BY <1>0, RunMove
<1>2. /\ coll' \in Collector /\ coll'.pc \in {"reading", "fail"}
      /\ coll'.count = coll.count /\ coll'.observed = coll.observed /\ coll'.legacy = coll.legacy
  <2>1. CASE \E why \in {"lost", "nomsg"} : StartRead(why)
    BY <1>0, <2>1 DEF Shapes, Collector, StartRead
  <2>2. CASE GoColl("fail")
    BY <1>0, <2>2 DEF Shapes, Collector, GoColl
  <2> QED
    BY <2>1, <2>2
<1>3. QueueInOrder' /\ CollectorInOrder'
  BY <1>0, <1>2, CollMove
<1>4. CollectorHasAll'
  BY <1>2 DEF CollectorHasAll
<1>5. Progress
  BY <1>0, <1>1 DEF Progress
<1>6. ReadersInOrder' /\ read' \in [Readers -> Read]
  <2>1. CASE read' = read
    BY <1>0, <1>5, <2>1, ReadersSame
  <2>2. CASE read' = [read EXCEPT !["collector"] = [NoRead EXCEPT !.pc = "read"]]
    <3>1. PICK r \in Read : r = [NoRead EXCEPT !.pc = "read"]
      BY StartTyped
    <3>2. r.pc = "read" /\ r.upto = 0
      BY <3>1, StartTyped
    <3> QED
      BY <1>0, <1>5, <2>2, <3>1, <3>2, ReadMove
  <2> QED
    BY <2>1, <2>2 DEF StartRead
<1>7. CompletedIsFinal'
  BY <1>0, <1>1, <1>5, CompletedFrame
<1>8. Shapes'
  BY <1>0, <1>1, <1>2 DEF Shapes
<1> QED
  BY <1>3, <1>4, <1>5, <1>6, <1>7, <1>8, InvOfShapes

LEMMA CheckMessagesInv ==
    ASSUME TurnInv, CheckMessages
    PROVE  TurnInv' /\ Progress
<1>0. /\ Shapes /\ TurnTypeOK /\ codex.made \in 0..N /\ coll.pc = "check"
      /\ CollectorHasAll /\ ReadersInOrder /\ CompletedIsFinal
  BY ShapesOfInv DEF TurnInv, CheckMessages
<1>1. UNCHANGED <<codex, queue, open, rows, run, active, crashes, cancels>>
  BY DEF CheckMessages
<1>2. CASE StartRead("nomsg")
  BY <1>0, <1>1, <1>2, LookUp
<1>3. CASE GoColl("finalize") /\ read' = read
  <2>1. /\ coll' \in Collector /\ coll'.pc = "finalize"
        /\ coll'.count = coll.count /\ coll'.observed = coll.observed /\ coll'.legacy = coll.legacy
    BY <1>0, <1>3 DEF Shapes, Collector, GoColl
  <2>2. QueueInOrder' /\ CollectorInOrder'
    BY <1>0, <1>1, <2>1, CollMove
  <2>3. CollectorHasAll'
    BY <1>0, <1>1, <2>1 DEF CollectorHasAll, AllSaved
  <2>4. Progress
    BY <1>0, <1>1 DEF Progress
  <2>5. CompletedIsFinal'
    BY <1>0, <1>1, <2>4, CompletedFrame
  <2>6. ReadersInOrder' /\ read' \in [Readers -> Read]
    BY <1>0, <1>1, <1>3, <2>4, ReadersSame
  <2>7. Shapes'
    BY <1>0, <1>1, <2>1 DEF Shapes
  <2> QED
    BY <2>2, <2>3, <2>4, <2>5, <2>6, <2>7, InvOfShapes
<1> QED
  BY <1>2, <1>3 DEF CheckMessages

LEMMA ReconcileLossInv ==
    ASSUME TurnInv, ReconcileLoss
    PROVE  TurnInv' /\ Progress
<1>1. /\ UNCHANGED <<codex, queue, open, rows, active, crashes, cancels>>
      /\ coll.pc = "lost"
  BY DEF ReconcileLoss
<1>2. \/ CanReconcile /\ MarkReconciling /\ StartRead("lost")
      \/ GoColl("fail") /\ run' = run /\ read' = read
  BY DEF ReconcileLoss
<1> QED
  BY <1>1, <1>2, LookUp

LEMMA InterruptInv ==
    ASSUME TurnInv, Interrupt
    PROVE  TurnInv' /\ Progress
<1>0. /\ Shapes /\ TurnTypeOK /\ codex.made \in 0..N /\ coll.pc = "interrupt" /\ Listening
      /\ CollectorInOrder /\ ReadersInOrder /\ CompletedIsFinal
  BY ShapesOfInv DEF TurnInv, Interrupt, Listening
<1>1. UNCHANGED <<open, read, rows, run, active, crashes, cancels>>
  BY DEF Interrupt
<1>2. PICK pc \in {"fail", "drain"} : coll' = [coll EXCEPT !.pc = pc]
  BY DEF Interrupt, GoColl
<1>3. /\ coll' \in Collector /\ coll'.pc = pc
      /\ coll'.count = coll.count /\ coll'.observed = coll.observed /\ coll'.legacy = coll.legacy
  BY <1>0, <1>2 DEF Shapes, Collector
<1>4. /\ QueueInOrder' /\ CollectorInOrder'
      /\ codex' \in [st: Terminal \cup {"running"}, made: 0..N, phased: Phases]
      /\ codex'.made = codex.made
      /\ codex.st # "running" => codex' = codex
  <2>1. CASE UNCHANGED <<codex, queue>>
    <3>1. QueueInOrder' /\ CollectorInOrder'
      BY <1>0, <1>1, <1>3, <2>1, CollMove
    <3> QED
      BY <1>0, <2>1, <3>1 DEF Shapes
  <2>2. CASE codex.st = "running" /\ codex' = [codex EXCEPT !.st = "interrupted"] /\ Notify(End("interrupted"))
    <3>1. Received' = Received /\ (Listening' => Listening) /\ "interrupted" \in Terminal
      BY <1>0, <1>3 DEF Received, Listening, Terminal
    <3>2. /\ QueueInOrder' /\ codex'.made = codex.made
          /\ codex' \in [st: Terminal \cup {"running"}, made: 0..N, phased: Phases]
      BY <1>1, <2>2, <3>1, EndTurn
    <3>3. CollectorInOrder'
      BY <1>0, <1>1, <1>3, <3>1, <3>2 DEF CollectorInOrder
    <3> QED
      BY <2>2, <3>2, <3>3
  <2> QED
    BY <2>1, <2>2 DEF Interrupt
<1>5. CollectorHasAll'
  BY <1>3 DEF CollectorHasAll
<1>6. Progress
  BY <1>0, <1>1, <1>4 DEF Progress
<1>7. CompletedIsFinal'
  BY <1>0, <1>1, <1>6, CompletedFrame
<1>8. ReadersInOrder' /\ read' \in [Readers -> Read]
  BY <1>0, <1>1, <1>4, <1>6, ReadersSame
<1>9. Shapes'
  BY <1>0, <1>1, <1>3, <1>4 DEF Shapes
<1> QED
  BY <1>3, <1>4, <1>5, <1>6, <1>7, <1>8, <1>9, InvOfShapes

LEMMA DrainInv ==
    ASSUME TurnInv, Drain
    PROVE  TurnInv' /\ Progress
<1>0. /\ Shapes /\ TurnTypeOK /\ codex.made \in 0..N /\ coll.pc = "drain" /\ Listening
      /\ coll.observed \in Seq(Msgs) /\ Received \in Nat /\ coll.count \in 0..N /\ N \in Nat
      /\ Received <= codex.made
      /\ CollectorInOrder /\ ReadersInOrder /\ CompletedIsFinal /\ "collector" \in Readers
  BY ShapesOfInv DEF TurnInv, Drain, Listening, Readers
<1>1. UNCHANGED <<codex, open, rows, run, active, crashes, cancels>>
  BY DEF Drain
<1>2. Progress
  BY <1>0, <1>1 DEF Progress
<1>3. /\ coll' \in Collector /\ QueueInOrder' /\ CollectorInOrder' /\ CollectorHasAll'
      /\ ReadersInOrder' /\ read' \in [Readers -> Read]
  <2>1. CASE StartRead("drain") /\ queue' = queue
    <3>1. /\ coll' \in Collector /\ coll'.pc = "reading"
          /\ coll'.count = coll.count /\ coll'.observed = coll.observed /\ coll'.legacy = coll.legacy
      BY <1>0, <2>1 DEF Shapes, Collector, StartRead
    <3>2. QueueInOrder' /\ CollectorInOrder'
      BY <1>0, <1>1, <2>1, <3>1, CollMove
    <3>3. CollectorHasAll'
      BY <3>1 DEF CollectorHasAll
    <3>4. PICK r \in Read : r = [NoRead EXCEPT !.pc = "read"]
      BY StartTyped
    <3>5. r.pc = "read" /\ r.upto = 0
      BY <3>4, StartTyped
    <3>6. ReadersInOrder' /\ read' \in [Readers -> Read]
      BY <1>0, <1>1, <1>2, <2>1, <3>4, <3>5, ReadMove DEF StartRead
    <3> QED
      BY <3>1, <3>2, <3>3, <3>6
  <2>2. CASE /\ queue # <<>> /\ queue' = Tail(queue) /\ read' = read
             /\ coll' = IF Head(queue).item # 0
                          THEN [coll EXCEPT !.observed = Append(@, Head(queue).item)]
                          ELSE [coll EXCEPT !.pc = "ingest",
                                            !.then = IF Head(queue).st = "completed" THEN "check" ELSE "fail"]
    <3>0. ReadersInOrder' /\ read' \in [Readers -> Read]
      BY <1>0, <1>1, <1>2, <2>2, ReadersSame
    <3>1. CASE Head(queue) = Item(Received + 1) /\ Received + 1 \in Msgs /\ Received + 1 <= codex.made
      <4>0. Head(queue).item = Received + 1 /\ Received + 1 # 0
        BY <1>0, <3>1 DEF Item
      <4>1. coll' = [coll EXCEPT !.observed = Append(coll.observed, Received + 1)]
        BY <2>2, <4>0
      <4>2. /\ Append(coll.observed, Received + 1) \in Seq(Msgs)
            /\ Len(Append(coll.observed, Received + 1)) = Len(coll.observed) + 1
            /\ \A k \in 1..Len(coll.observed) : Append(coll.observed, Received + 1)[k] = coll.observed[k]
            /\ Append(coll.observed, Received + 1)[Len(coll.observed) + 1] = Received + 1
            /\ Len(coll.observed) \in Nat
        BY <1>0, <3>1
      <4>3. /\ coll' \in Collector /\ coll'.pc = "drain" /\ coll'.count = coll.count
            /\ coll'.observed = Append(coll.observed, Received + 1) /\ coll'.legacy = coll.legacy
        BY <1>0, <4>1, <4>2 DEF Shapes, Collector
      <4>4. Received' = Received + 1
        BY <1>0, <4>2, <4>3 DEF Received
      <4>5. QueueInOrder'
        BY <1>0, <1>1, <2>2, <4>4, TailInOrder
      <4>6. ASSUME NEW k \in 1..Len(coll'.observed)
            PROVE  coll'.observed[k] = coll'.count + k
        <5>1. k \in 1..Len(coll.observed) \/ k = Len(coll.observed) + 1
          BY <4>2, <4>3
        <5>2. CASE k \in 1..Len(coll.observed)
          BY <1>0, <4>2, <4>3, <5>2 DEF CollectorInOrder
        <5>3. CASE k = Len(coll.observed) + 1
          <6>1. Received + 1 = coll.count + k
            BY <1>0, <4>2, <5>3 DEF Received
          <6> QED
            BY <4>2, <4>3, <5>3, <6>1
        <5> QED
          BY <5>1, <5>2, <5>3
      <4>7. CollectorInOrder'
        BY <1>0, <1>1, <3>1, <4>3, <4>4, <4>6 DEF CollectorInOrder
      <4>8. CollectorHasAll'
        BY <4>3 DEF CollectorHasAll
      <4> QED
        BY <3>0, <4>3, <4>5, <4>7, <4>8
    <3>2. CASE Head(queue) = End(codex.st) /\ codex.st \in Terminal /\ Received = codex.made
      <4>1. coll' = [coll EXCEPT !.pc = "ingest",
                                 !.then = IF codex.st = "completed" THEN "check" ELSE "fail"]
        <5>1. Head(queue).item = 0 /\ Head(queue).st = codex.st
          BY <3>2 DEF End
        <5> QED
          BY <2>2, <5>1
      <4>2. /\ coll' \in Collector /\ coll'.pc = "ingest"
            /\ coll'.then = IF codex.st = "completed" THEN "check" ELSE "fail"
            /\ coll'.count = coll.count /\ coll'.observed = coll.observed /\ coll'.legacy = coll.legacy
        BY <1>0, <4>1 DEF Shapes, Collector
      <4>3. Received' = Received /\ ~Listening'
        BY <4>2 DEF Received, Listening
      <4>4. QueueInOrder'
        BY <1>0, <2>2, <4>3, HeadInOrder DEF QueueInOrder
      <4>5. CollectorInOrder'
        BY <1>0, <1>1, <4>2, <4>3 DEF CollectorInOrder
      <4>6. CollectorHasAll'
        BY <1>1, <3>2, <4>2, <4>3 DEF CollectorHasAll
      <4> QED
        BY <3>0, <4>2, <4>4, <4>5, <4>6
    <3> QED
      BY <1>0, <2>2, <3>1, <3>2, HeadInOrder
  <2> QED
    BY <2>1, <2>2 DEF Drain
<1>4. CompletedIsFinal'
  BY <1>0, <1>1, <1>2, CompletedFrame
<1>5. Shapes'
  BY <1>0, <1>1, <1>3 DEF Shapes
<1> QED
  BY <1>2, <1>3, <1>4, <1>5, InvOfShapes

\* What the collector concludes from the history it has read.
LEMMA ReadDoneInv ==
    ASSUME TurnInv, ReadDone
    PROVE  TurnInv' /\ Progress
<1>0. /\ Shapes /\ TurnTypeOK /\ codex.made \in 0..N /\ coll.pc = "reading"
      /\ ReadersInOrder /\ CompletedIsFinal /\ "collector" \in Readers
      /\ read["collector"].pc = "result"
  BY ShapesOfInv DEF TurnInv, ReadDone, Readers
<1>1. UNCHANGED <<codex, queue, open, rows, active, crashes, cancels>>
  BY DEF ReadDone
<1>2. /\ run' = run \/ (read["collector"].st = "running" /\ MarkUnknown)
      /\ read' = [read EXCEPT !["collector"] = NoRead]
  BY DEF ReadDone
<1>3. /\ run' \in RunStates
      /\ run'.st = "completed" => run.st = "completed"
      /\ RunEnded => run' = run
  BY <1>0, <1>2, RunMove
<1>4. PICK pc \in {"ingest", "fail", "finalize", "check"}, then \in {"check", "fail"} :
         /\ coll' = [coll EXCEPT !.pc = pc, !.then = then]
         /\ then = "check" => read["collector"].st = "completed"
         /\ pc \in {"finalize", "check"} => read["collector"].st = "completed"
  BY DEF ReadDone
<1>5. /\ coll' \in Collector /\ coll'.pc = pc /\ coll'.then = then
      /\ coll'.count = coll.count /\ coll'.observed = coll.observed /\ coll'.legacy = coll.legacy
  BY <1>0, <1>4 DEF Shapes, Collector
<1>6. QueueInOrder' /\ CollectorInOrder'
  BY <1>0, <1>1, <1>5, CollMove
<1>7. read["collector"].st = "completed" => AllSaved'
  BY <1>0, <1>1 DEF ReadersInOrder, ReaderOK, AllSaved
<1>8. CollectorHasAll'
  BY <1>4, <1>5, <1>7 DEF CollectorHasAll
<1>9. Progress
  BY <1>0, <1>1, <1>3 DEF Progress
<1>10. ReadersInOrder' /\ read' \in [Readers -> Read]
  <2>1. PICK r \in Read : r = NoRead
    BY StartTyped
  <2>2. r.pc = "idle" /\ r.upto = 0
    BY <2>1, StartTyped
  <2> QED
    BY <1>0, <1>1, <1>2, <1>9, <2>1, <2>2, ReadMove
<1>11. CompletedIsFinal'
  BY <1>0, <1>3, <1>9, CompletedFrame
<1>12. Shapes'
  BY <1>0, <1>1, <1>3, <1>5 DEF Shapes
<1> QED
  BY <1>6, <1>8, <1>9, <1>10, <1>11, <1>12, InvOfShapes

LEMMA FinalizeLegacyInv ==
    ASSUME TurnInv, FinalizeLegacy
    PROVE  TurnInv' /\ Progress
<1>0. /\ Shapes /\ TurnTypeOK /\ codex.made \in 0..N /\ coll.pc = "finalize" /\ N \in Nat
      /\ coll.legacy \in Seq(Msgs) /\ coll.count \in 0..N
      /\ rows \in [Msgs -> {"commentary", "final_answer", Absent}]
      /\ QueueInOrder /\ CollectorInOrder /\ CollectorHasAll /\ ReadersInOrder /\ CompletedIsFinal
  BY ShapesOfInv DEF TurnInv, FinalizeLegacy, Shapes
<1>1. UNCHANGED <<codex, queue, open, read, run, active, crashes, cancels>>
  BY DEF FinalizeLegacy
<1>2. /\ coll' \in Collector /\ QueueInOrder' /\ CollectorInOrder' /\ CollectorHasAll'
      /\ rows' \in [Msgs -> {"commentary", "final_answer", Absent}]
      /\ Progress
  <2>1. CASE coll.legacy = <<>>
    <3>1. coll' = [coll EXCEPT !.pc = "ok"] /\ rows' = rows
      BY <2>1 DEF FinalizeLegacy, GoColl
    <3>2. /\ coll' \in Collector /\ coll'.pc = "ok"
          /\ coll'.count = coll.count /\ coll'.observed = coll.observed /\ coll'.legacy = coll.legacy
      BY <1>0, <3>1 DEF Shapes, Collector
    <3>3. QueueInOrder' /\ CollectorInOrder'
      BY <1>0, <1>1, <3>1, <3>2, CollMove
    <3>5. Progress
      BY <1>0, <1>1, <3>1 DEF Progress
    <3>4. CollectorHasAll'
      BY <1>0, <1>1, <2>1, <3>2, <3>5, SavedStays DEF CollectorHasAll
    <3> QED
      BY <1>0, <3>1, <3>2, <3>3, <3>4, <3>5
  <2>2. CASE coll.legacy # <<>>
    <3>1. /\ Head(coll.legacy) \in Msgs /\ Head(coll.legacy) = coll.legacy[1]
          /\ Tail(coll.legacy) \in Seq(Msgs)
          /\ Len(coll.legacy) \in Nat /\ Len(Tail(coll.legacy)) = Len(coll.legacy) - 1
          /\ \A k \in 1..(Len(coll.legacy) - 1) : Tail(coll.legacy)[k] = coll.legacy[k + 1]
      BY <1>0, <2>2
    <3>2. PICK i \in Msgs : i = Head(coll.legacy)
      BY <3>1
    <3>3. PICK p \in {"commentary", "final_answer"} :
             IF active THEN rows' = [rows EXCEPT ![i] = p] ELSE rows' = rows
      BY <2>2, <3>2 DEF FinalizeLegacy, Sink, Upsert
    <3>4. /\ rows' \in [Msgs -> {"commentary", "final_answer", Absent}]
          /\ \A j \in Msgs : rows[j] # Absent => rows'[j] # Absent
          /\ active => rows'[i] # Absent
      BY <1>0, <3>3 DEF Absent
    <3>5. coll' = [coll EXCEPT !.legacy = Tail(coll.legacy)]
      BY <2>2 DEF FinalizeLegacy
    <3>6. /\ coll' \in Collector /\ coll'.pc = "finalize"
          /\ coll'.count = coll.count /\ coll'.observed = coll.observed
          /\ coll'.legacy = Tail(coll.legacy)
      BY <1>0, <3>1, <3>5 DEF Shapes, Collector
    <3>7. Received' = Received /\ ~Listening'
      BY <3>6 DEF Received, Listening
    <3>8. QueueInOrder'
      BY <1>0, <1>1, <3>7 DEF QueueInOrder
    <3>9. ASSUME active, NEW j \in 1..coll.count
          PROVE  rows'[j] # Absent \/ \E k \in 1..Len(coll'.legacy) : coll'.legacy[k] = j
      <4>1. j \in Msgs
        BY <1>0 DEF Msgs
      <4>2. CASE rows[j] # Absent
        BY <3>4, <4>1, <4>2
      <4>3. CASE \E k \in 1..Len(coll.legacy) : coll.legacy[k] = j
        <5>1. PICK k \in 1..Len(coll.legacy) : coll.legacy[k] = j
          BY <4>3
        <5>2. CASE k = 1
          BY <3>1, <3>2, <3>4, <3>9, <5>1, <5>2
        <5>3. CASE k # 1
          <6>1. PICK l \in 1..(Len(coll.legacy) - 1) : k = l + 1
            <7>1. k - 1 \in 1..(Len(coll.legacy) - 1) /\ k = (k - 1) + 1
              BY <3>1, <5>3
            <7> QED
              BY <7>1
          <6>2. coll'.legacy[l] = j /\ l \in 1..Len(coll'.legacy)
            BY <3>1, <3>6, <5>1, <6>1
          <6> QED
            BY <6>2
        <5> QED
          BY <5>2, <5>3
      <4> QED
        BY <1>0, <3>9, <4>2, <4>3 DEF CollectorInOrder
    <3>10. CollectorInOrder'
      BY <1>0, <1>1, <3>6, <3>7, <3>9 DEF CollectorInOrder
    <3>11. Progress
      BY <1>0, <1>1, <3>4 DEF Progress
    <3>12. CollectorHasAll'
      BY <1>0, <1>1, <3>6, <3>11, SavedStays DEF CollectorHasAll
    <3> QED
      BY <3>4, <3>6, <3>8, <3>10, <3>11, <3>12
  <2> QED
    BY <2>1, <2>2
<1>3. CompletedIsFinal'
  BY <1>0, <1>1, <1>2, CompletedFrame
<1>4. ReadersInOrder' /\ read' \in [Readers -> Read]
  BY <1>0, <1>1, <1>2, ReadersSame
<1>5. Shapes'
  BY <1>0, <1>1, <1>2 DEF Shapes
<1> QED
  BY <1>2, <1>3, <1>4, <1>5, InvOfShapes

\* The collector that finds its run still open has saved all messages of a success.
LEMMA FinishInv ==
    ASSUME TurnInv, Finish
    PROVE  TurnInv' /\ Progress
<1>0. /\ Shapes /\ TurnTypeOK /\ codex.made \in 0..N /\ coll.pc \in {"ok", "fail"}
      /\ CollectorInOrder /\ CollectorHasAll /\ ReadersInOrder /\ CompletedIsFinal
  BY ShapesOfInv DEF TurnInv, Finish
<1>1. /\ UNCHANGED <<codex, queue, open, read, rows, run, crashes, cancels>>
      /\ active' = FALSE \/ active' = active
  BY DEF Finish
<1>2. PICK pc \in {"end", "complete", "failrun"} :
         coll' = [coll EXCEPT !.pc = pc] /\ (pc = "complete" => coll.pc = "ok" /\ active)
  BY DEF Finish, GoColl
<1>3. /\ coll' \in Collector /\ coll'.pc = pc
      /\ coll'.count = coll.count /\ coll'.observed = coll.observed /\ coll'.legacy = coll.legacy
  BY <1>0, <1>2 DEF Shapes, Collector
<1>4. QueueInOrder' /\ CollectorInOrder'
  BY <1>0, <1>1, <1>3, CollMove
<1>5. pc = "complete" => AllSaved
  <2>1. ASSUME coll.pc = "ok", active, coll.count = codex.made, codex.st = "completed"
        PROVE  AllSaved
    <3>1. coll.legacy = <<>>
      BY <1>0, <2>1 DEF CollectorHasAll
    <3>2. \A j \in 1..coll.count : rows[j] # Absent
      BY <1>0, <2>1, <3>1 DEF CollectorInOrder
    <3> QED
      BY <2>1, <3>2 DEF AllSaved
  <2> QED
    BY <1>0, <1>2, <2>1 DEF CollectorHasAll
<1>6. CollectorHasAll'
  BY <1>1, <1>3, <1>5 DEF CollectorHasAll, AllSaved
<1>7. Progress
  BY <1>0, <1>1 DEF Progress
<1>8. CompletedIsFinal'
  BY <1>0, <1>1, <1>7, CompletedFrame
<1>9. ReadersInOrder' /\ read' \in [Readers -> Read]
  BY <1>0, <1>1, <1>7, ReadersSame
<1>10. Shapes'
  BY <1>0, <1>1, <1>3 DEF Shapes
<1> QED
  BY <1>4, <1>6, <1>7, <1>8, <1>9, <1>10, InvOfShapes

\* Whatever it overwrites, a success is written with all messages saved.
LEMMA OutcomeInv ==
    ASSUME TurnInv, Outcome
    PROVE  TurnInv' /\ Progress
<1>0. /\ Shapes /\ TurnTypeOK /\ codex.made \in 0..N /\ coll.pc \in {"complete", "failrun"}
      /\ CollectorHasAll /\ ReadersInOrder
  BY ShapesOfInv DEF TurnInv, Outcome
<1>1. UNCHANGED <<codex, queue, open, read, rows, crashes, cancels>> /\ active' = FALSE
  BY DEF Outcome
<1>2. /\ coll' \in Collector /\ coll'.pc = "end"
      /\ coll'.count = coll.count /\ coll'.observed = coll.observed /\ coll'.legacy = coll.legacy
  BY <1>0 DEF Outcome, GoColl, Shapes, Collector
<1>3. QueueInOrder' /\ CollectorInOrder'
  BY <1>0, <1>1, <1>2, CollMove
<1>4. CollectorHasAll'
  BY <1>2 DEF CollectorHasAll
<1>5. run' \in RunStates /\ (run'.st = "completed" => coll.pc = "complete")
  BY <1>0 DEF Outcome, Shapes, RunStates
<1>6. Progress
  BY <1>0, <1>1, <1>2 DEF Progress, Overwriting
<1>7. CompletedIsFinal'
  BY <1>0, <1>1, <1>5 DEF CompletedIsFinal, CollectorHasAll, AllSaved
<1>8. ReadersInOrder' /\ read' \in [Readers -> Read]
  BY <1>0, <1>1, <1>6, ReadersSame
<1>9. Shapes'
  BY <1>0, <1>1, <1>2, <1>5 DEF Shapes
<1> QED
  BY <1>3, <1>4, <1>6, <1>7, <1>8, <1>9, InvOfShapes

-----------------------------------------------------------------------------
(* The refresh. *)

\* The collector goes to a refresh and comes back from it: of the turn and its
\* readers nothing changes, and a completed run has all messages saved.
LEMMA RefreshMove ==
    ASSUME TurnInv, UNCHANGED <<codex, queue, open, read, rows, active, crashes, cancels>>,
           coll.pc \in {"collect", "install"}, NEW pc \in {"collect", "install"}, GoColl(pc),
           run' \in RunStates, run'.st = "completed" => AllSaved,
           RunEnded /\ ~Overwriting => run' = run
    PROVE  TurnInv' /\ Progress
<1>0. Shapes /\ TurnTypeOK /\ codex.made \in 0..N /\ ReadersInOrder
  BY ShapesOfInv DEF TurnInv
<1>1. /\ coll' \in Collector /\ coll'.pc = pc
      /\ coll'.count = coll.count /\ coll'.observed = coll.observed /\ coll'.legacy = coll.legacy
  BY <1>0 DEF Shapes, Collector, GoColl
<1>2. QueueInOrder' /\ CollectorInOrder'
  BY <1>0, <1>1, CollMove DEF Listening
<1>3. CollectorHasAll'
  BY <1>1 DEF CollectorHasAll
<1>4. Progress
  BY <1>0 DEF Progress
<1>5. CompletedIsFinal'
  BY DEF CompletedIsFinal, AllSaved
<1>6. ReadersInOrder' /\ read' \in [Readers -> Read]
  BY <1>0, <1>4, ReadersSame
<1>7. Shapes'
  BY <1>0, <1>1 DEF Shapes
<1> QED
  BY <1>2, <1>3, <1>4, <1>5, <1>6, <1>7, InvOfShapes

LEMMA RefreshInv ==
    ASSUME TranscriptIInv, Refresh
    PROVE  TranscriptIInv' /\ Progress
<1>0. /\ TurnInv /\ CompletedIsFinal /\ RowInv /\ coll \in Collector /\ run \in RunStates
      /\ refreshes \in 0..MaxRefreshes /\ MaxRefreshes \in Nat
  BY TranscriptAssumption DEF TranscriptIInv, TurnInv, TurnTypeOK, RowInv
<1>1. /\ UNCHANGED <<codex, queue, open, read, rows, run, active, crashes, cancels>>
      /\ row' = run /\ snap' = run /\ refreshes' = refreshes + 1 /\ refreshes < MaxRefreshes
      /\ coll.pc = "collect" /\ GoColl("install")
  BY DEF Refresh
<1>2. TurnInv' /\ Progress
  BY <1>0, <1>1, RefreshMove DEF CompletedIsFinal
<1>3. refreshes' \in 0..MaxRefreshes
  BY <1>0, <1>1
<1>4. RowInv'
  BY <1>0, <1>1, <1>3 DEF RowInv, CompletedIsFinal, AllSaved, RunEnded, Over
<1> QED
  BY <1>2, <1>4 DEF TranscriptIInv

LEMMA InstallRunInv ==
    ASSUME TranscriptIInv, InstallRun
    PROVE  TranscriptIInv' /\ Progress
<1>0. TurnInv /\ RowInv /\ coll \in Collector
  BY DEF TranscriptIInv, TurnInv, TurnTypeOK
<1>1. /\ UNCHANGED <<codex, queue, open, read, rows, active, row, refreshes, crashes, cancels>>
      /\ run' = snap /\ snap' = NewRun /\ coll.pc = "install" /\ GoColl("collect")
  BY DEF InstallRun
<1>2. RunEnded /\ ~Overwriting => run' = run
  BY <1>0, <1>1 DEF RowInv, Overwriting, GoColl, Collector
<1>3. run' \in RunStates /\ (run'.st = "completed" => AllSaved)
  BY <1>0, <1>1 DEF RowInv
<1>4. TurnInv' /\ Progress
  BY <1>0, <1>1, <1>2, <1>3, RefreshMove
<1>5. coll'.pc = "collect"
  BY <1>0, <1>1 DEF GoColl, Collector
<1>6. RunEnded' => row' = run'
  BY <1>0, <1>1 DEF RowInv, RunEnded, Over
<1>7. RowInv'
  BY <1>0, <1>1, <1>5, <1>6 DEF RowInv, AllSaved, NewRun, RunStates
<1> QED
  BY <1>4, <1>7 DEF TranscriptIInv

\* Saving the cached run changes its row only.
LEMMA ProgressedInv ==
    ASSUME TranscriptIInv, Progressed
    PROVE  TranscriptIInv' /\ Progress
<1>0. TurnInv /\ RowInv /\ TurnTypeOK /\ CompletedIsFinal /\ codex.made \in 0..N /\ N \in Nat
  BY ShapesOfInv DEF TranscriptIInv, TurnInv
<1>1. /\ UNCHANGED <<codex, queue, open, coll, read, rows, run, active, snap, refreshes, crashes, cancels>>
      /\ row' = run
  BY DEF Progressed, refreshVars
<1>2. TurnInv' /\ Progress
  BY <1>0, <1>1 DEF TurnInv, TurnTypeOK, QueueInOrder, CollectorInOrder, CollectorHasAll,
     ReadersInOrder, ReaderOK, CompletedIsFinal, AllSaved, Received, Listening, Progress
<1>3. RowInv'
  BY <1>0, <1>1 DEF RowInv, TurnTypeOK, CompletedIsFinal, AllSaved, RunEnded, Over
<1> QED
  BY <1>2, <1>3 DEF TranscriptIInv

-----------------------------------------------------------------------------
(* Cancellation, startup and restart. *)

\* A task other than the collector moves on.
LEMMA TaskMove ==
    ASSUME TurnInv, UNCHANGED <<queue, open, coll, rows, crashes>>, codex' = codex,
           active' \in BOOLEAN, active' => active, cancels' \in 0..MaxCancels,
           (CanReconcile /\ MarkReconciling) \/ MarkUnknown \/ run' = run,
           NEW w \in Readers, NEW r \in Read, read' = [read EXCEPT ![w] = r],
           r.upto \in {0, read[w].upto},
           r.pc \in {"idle", "interrupt", "read"} \/ (r.pc = "result" /\ r.st # "completed")
    PROVE  TurnInv' /\ Progress
<1>0. /\ Shapes /\ TurnTypeOK /\ codex.made \in 0..N
      /\ QueueInOrder /\ CollectorInOrder /\ CollectorHasAll /\ CompletedIsFinal
  BY ShapesOfInv DEF TurnInv
<1>1. /\ run' \in RunStates
      /\ run'.st = "completed" => run.st = "completed"
      /\ RunEnded => run' = run
  BY <1>0, RunMove
<1>2. Progress
  BY <1>0, <1>1 DEF Progress
<1>3. ReadersInOrder' /\ read' \in [Readers -> Read]
  BY <1>2, ReadMove
<1>4. CollectorInOrder' /\ CollectorHasAll'
  BY <1>0, <1>2, CollectorFrame
<1>5. QueueInOrder'
  BY <1>0, QueueFrame DEF Received, Listening
<1>6. CompletedIsFinal'
  BY <1>0, <1>1, <1>2, CompletedFrame
<1>7. Shapes'
  BY <1>0, <1>1 DEF Shapes
<1> QED
  BY <1>2, <1>3, <1>4, <1>5, <1>6, <1>7, InvOfShapes

LEMMA CancelInv ==
    ASSUME TurnInv, Cancel
    PROVE  TurnInv' /\ Progress
<1>0. /\ "cancel" \in Readers /\ read["cancel"] \in Read /\ read \in [Readers -> Read]
      /\ active \in BOOLEAN /\ cancels \in 0..MaxCancels /\ MaxCancels \in Nat
  BY ShapesOfInv, TranscriptAssumption DEF Readers, Shapes
<1>1. /\ UNCHANGED <<codex, queue, open, coll, rows, active, crashes>>
      /\ cancels < MaxCancels /\ cancels' = cancels + 1
      /\ CanReconcile /\ MarkReconciling /\ GoRead("cancel", "interrupt")
  BY DEF Cancel
<1>2. PICK r \in Read : r = [read["cancel"] EXCEPT !.pc = "interrupt"]
  BY <1>0 DEF Read
<1>3. r.pc = "interrupt" /\ r.upto = read["cancel"].upto
  BY <1>0, <1>2 DEF Read
<1>4. read' = [read EXCEPT !["cancel"] = r]
  BY <1>0, <1>1, <1>2 DEF GoRead
<1>5. cancels' \in 0..MaxCancels
  BY <1>0, <1>1
<1> QED
  BY <1>0, <1>1, <1>3, <1>4, <1>5, TaskMove

LEMMA CancelDoneInv ==
    ASSUME TurnInv, CancelDone
    PROVE  TurnInv' /\ Progress
<1>0. /\ "cancel" \in Readers /\ read["cancel"] \in Read /\ read \in [Readers -> Read]
      /\ active \in BOOLEAN /\ cancels \in 0..MaxCancels
  BY ShapesOfInv DEF Readers, Shapes
<1>1. UNCHANGED <<codex, queue, open, coll, rows, crashes, cancels>>
  BY DEF CancelDone
<1>2. CASE GoRead("cancel", "read") /\ UNCHANGED <<run, active>>
  <2>1. PICK r \in Read : r = [read["cancel"] EXCEPT !.pc = "read"]
    BY <1>0 DEF Read
  <2>2. r.pc = "read" /\ r.upto = read["cancel"].upto
    BY <1>0, <2>1 DEF Read
  <2>3. read' = [read EXCEPT !["cancel"] = r]
    BY <1>0, <1>2, <2>1 DEF GoRead
  <2> QED
    BY <1>0, <1>1, <1>2, <2>2, <2>3, TaskMove
<1>3. CASE (MarkUnknown \/ run' = run) /\ active' = FALSE /\ read' = [read EXCEPT !["cancel"] = NoRead]
  <2>1. PICK r \in Read : r = NoRead
    BY StartTyped
  <2>2. r.pc = "idle" /\ r.upto = 0
    BY <2>1, StartTyped
  <2> QED
    BY <1>0, <1>1, <1>3, <2>1, <2>2, TaskMove
<1> QED
  BY <1>2, <1>3 DEF CancelDone

LEMMA StartupDoneInv ==
    ASSUME TurnInv, StartupDone
    PROVE  TurnInv' /\ Progress
<1>0. "startup" \in Readers /\ active \in BOOLEAN /\ cancels \in 0..MaxCancels
  BY ShapesOfInv DEF Readers, Shapes
<1>1. /\ UNCHANGED <<codex, queue, open, coll, rows, active, crashes, cancels>>
      /\ MarkUnknown \/ run' = run
      /\ read' = [read EXCEPT !["startup"] = NoRead]
  BY DEF StartupDone
<1>2. PICK r \in Read : r = NoRead
  BY StartTyped
<1>3. r.pc = "idle" /\ r.upto = 0
  BY <1>2, StartTyped
<1> QED
  BY <1>0, <1>1, <1>2, <1>3, TaskMove

LEMMA CancelInterruptInv ==
    ASSUME TurnInv, CancelInterrupt
    PROVE  TurnInv' /\ Progress
<1>0. /\ "cancel" \in Readers /\ read["cancel"] \in Read /\ read \in [Readers -> Read]
      /\ Shapes /\ TurnTypeOK /\ codex.made \in 0..N
      /\ QueueInOrder /\ CollectorInOrder /\ CollectorHasAll /\ CompletedIsFinal
      /\ active \in BOOLEAN /\ cancels \in 0..MaxCancels
  BY ShapesOfInv DEF TurnInv, Readers, Shapes
<1>1. UNCHANGED <<open, coll, rows, run, active, crashes, cancels>>
  BY DEF CancelInterrupt
<1>2. PICK r \in Read :
         /\ read' = [read EXCEPT !["cancel"] = r] /\ r.upto = read["cancel"].upto
         /\ r.pc = "read" \/ (r.pc = "result" /\ r.st = "error")
  <2>1. CASE Result("cancel", "error")
    <3>1. PICK r \in Read : r = [read["cancel"] EXCEPT !.pc = "result", !.st = "error"]
      BY <1>0 DEF Read
    <3>2. r.pc = "result" /\ r.st = "error" /\ r.upto = read["cancel"].upto
      BY <1>0, <3>1 DEF Read
    <3>3. read' = [read EXCEPT !["cancel"] = r]
      BY <1>0, <2>1, <3>1 DEF Result
    <3> QED
      BY <3>2, <3>3
  <2>2. CASE GoRead("cancel", "read")
    <3>1. PICK r \in Read : r = [read["cancel"] EXCEPT !.pc = "read"]
      BY <1>0 DEF Read
    <3>2. r.pc = "read" /\ r.upto = read["cancel"].upto
      BY <1>0, <3>1 DEF Read
    <3>3. read' = [read EXCEPT !["cancel"] = r]
      BY <1>0, <2>2, <3>1 DEF GoRead
    <3> QED
      BY <3>2, <3>3
  <2> QED
    BY <2>1, <2>2 DEF CancelInterrupt
<1>3. CASE UNCHANGED <<codex, queue>>
  BY <1>0, <1>1, <1>2, <1>3, TaskMove
<1>4. CASE codex.st = "running" /\ codex' = [codex EXCEPT !.st = "interrupted"] /\ Notify(End("interrupted"))
  <2>1. Received' = Received /\ Listening' = Listening /\ "interrupted" \in Terminal
    BY <1>1 DEF Received, Listening, Terminal
  <2>2. /\ QueueInOrder' /\ codex'.made = codex.made
        /\ codex' \in [st: Terminal \cup {"running"}, made: 0..N, phased: Phases]
    BY <1>1, <1>4, <2>1, EndTurn
  <2>3. Progress
    BY <1>0, <1>1, <1>4, <2>2 DEF Progress
  <2>4. ReadersInOrder' /\ read' \in [Readers -> Read]
    BY <1>0, <1>2, <2>2, <2>3, ReadMove
  <2>5. CollectorInOrder' /\ CollectorHasAll'
    BY <1>0, <1>1, <2>2, <2>3, CollectorFrame
  <2>6. CompletedIsFinal'
    BY <1>0, <1>1, <2>3, CompletedFrame
  <2>7. Shapes'
    BY <1>0, <1>1, <2>2 DEF Shapes
  <2> QED
    BY <2>2, <2>3, <2>4, <2>5, <2>6, <2>7, InvOfShapes
<1> QED
  BY <1>3, <1>4 DEF CancelInterrupt

LEMMA CrashInv ==
    ASSUME TranscriptIInv, Crash
    PROVE  TranscriptIInv' /\ Progress
<1>0. /\ Shapes /\ TurnTypeOK /\ codex.made \in 0..N /\ CompletedIsFinal /\ N \in Nat
      /\ crashes \in 0..MaxCrashes /\ MaxCrashes \in Nat /\ RowInv
  BY ShapesOfInv, TranscriptAssumption DEF TranscriptIInv, TurnInv, Shapes
<1>1. /\ UNCHANGED <<codex, rows, cancels>> /\ queue' = <<>> /\ open' = FALSE /\ active' = FALSE
      /\ crashes' = crashes + 1 /\ crashes < MaxCrashes
      /\ coll' = [NewCollector EXCEPT !.pc = "end"]
  BY DEF Crash
<1>2. /\ coll' \in Collector /\ coll'.pc = "end" /\ coll'.count = 0 /\ coll'.observed = <<>>
  <2>1. coll' = [pc |-> "end", legacy |-> <<>>, observed |-> <<>>, count |-> 0,
                 why |-> "none", then |-> "check"]
    BY <1>1 DEF NewCollector
  <2>2. <<>> \in Seq(Msgs) /\ 0 \in 0..N
    BY <1>0
  <2> QED
    BY <2>1, <2>2 DEF Collector
<1>3. Received' = 0 /\ ~Listening'
  BY <1>2 DEF Received, Listening
<1>4. QueueInOrder'
  BY <1>1, <1>3 DEF QueueInOrder
<1>5. CollectorInOrder'
  BY <1>0, <1>1, <1>2, <1>3 DEF CollectorInOrder
<1>6. CollectorHasAll'
  BY <1>2 DEF CollectorHasAll
<1>7. /\ run' \in RunStates
      /\ run'.st = "completed" => row.st = "completed"
      /\ RunEnded => run' = run
  <2>1. run' = IF Over(row) THEN row ELSE [row EXCEPT !.reconciling = TRUE]
    BY DEF Crash
  <2>2. row \in RunStates /\ (RunEnded => row = run)
    BY <1>0 DEF RowInv
  <2> QED
    BY <2>1, <2>2 DEF RunStates, RunEnded, Over
<1>8. Progress
  BY <1>0, <1>1, <1>7 DEF Progress
<1>9. CompletedIsFinal'
  BY <1>0, <1>1, <1>7 DEF CompletedIsFinal, RowInv, AllSaved
<1>10. /\ read' \in [Readers -> Read]
       /\ \A w \in Readers : read'[w].pc \in {"read", "idle"} /\ read'[w].upto = 0
  <2>1. \A w \in Readers : read'[w] \in {NoRead, [NoRead EXCEPT !.pc = "read"]}
    BY DEF Crash
  <2>2. read' = [w \in Readers |-> read'[w]]
    BY DEF Crash
  <2>3. \A w \in Readers : read'[w] \in Read /\ read'[w].pc \in {"read", "idle"} /\ read'[w].upto = 0
    BY <2>1, StartTyped
  <2> QED
    BY <2>2, <2>3
<1>11. ReadersInOrder'
  BY <1>0, <1>1, <1>10 DEF ReadersInOrder, ReaderOK
<1>12. Shapes'
  <2>1. crashes' \in 0..MaxCrashes
    BY <1>0, <1>1
  <2> QED
    BY <1>0, <1>1, <1>2, <1>7, <2>1 DEF Shapes
<1>13. RowInv'
  <2>1. row' = run' /\ snap' = NewRun /\ refreshes' = refreshes
    BY DEF Crash
  <2> QED
    BY <1>0, <1>2, <1>7, <1>9, <2>1 DEF RowInv, CompletedIsFinal, NewRun, RunStates
<1> QED
  BY <1>4, <1>5, <1>6, <1>8, <1>9, <1>10, <1>11, <1>12, <1>13, InvOfShapes DEF TranscriptIInv

-----------------------------------------------------------------------------
(* The theorems. *)

LEMMA TurnStepInv ==
    ASSUME TurnInv, TranscriptStep
    PROVE  TurnInv' /\ Progress
<1>1. CASE Turn
  BY <1>1, CodexInv DEF Turn
<1>2. CASE Receive
  BY <1>2, ReceiveInv
<1>3. CASE Closed \/ TurnTimeout
  BY <1>3, WaitInv
<1>4. CASE ReconcileLoss
  BY <1>4, ReconcileLossInv
<1>5. CASE Interrupt
  BY <1>5, InterruptInv
<1>6. CASE Drain
  BY <1>6, DrainInv
<1>7. CASE IngestObserved
  BY <1>7, IngestObservedInv
<1>8. CASE ReadDone
  BY <1>8, ReadDoneInv
<1>9. CASE CheckMessages
  BY <1>9, CheckMessagesInv
<1>10. CASE FinalizeLegacy
  BY <1>10, FinalizeLegacyInv
<1>11. CASE Finish
  BY <1>11, FinishInv
<1>12. CASE Outcome
  BY <1>12, OutcomeInv
<1>13. CASE \E w \in Readers : ReadStep(w)
  BY <1>13, ReadStepInv
<1>14. CASE Cancel
  BY <1>14, CancelInv
<1>15. CASE CancelInterrupt
  BY <1>15, CancelInterruptInv
<1>16. CASE CancelDone
  BY <1>16, CancelDoneInv
<1>17. CASE StartupDone
  BY <1>17, StartupDoneInv
<1> QED
  BY <1>1, <1>2, <1>3, <1>4, <1>5, <1>6, <1>7, <1>8, <1>9, <1>10, <1>11, <1>12, <1>13, <1>14,
     <1>15, <1>16, <1>17 DEF TranscriptStep, Collect

\* Only a refresh brings the collector to its installation.
LEMMA NoInstall ==
    ASSUME TurnInv, TranscriptStep, coll'.pc = "install"
    PROVE  coll.pc = "install"
<1>0. coll \in Collector /\ N \in Nat
  BY TranscriptAssumption DEF TurnInv, TurnTypeOK
<1>1. ASSUME NEW pc \in {"lost", "interrupt", "drain", "ingest", "check", "finalize", "ok",
                         "complete", "fail", "failrun", "end"}, GoColl(pc)
      PROVE  coll'.pc # "install"
  BY <1>0, <1>1 DEF GoColl, Collector
<1>2. ASSUME NEW why, StartRead(why) PROVE coll'.pc # "install"
  BY <1>0, <1>2 DEF StartRead, Collector
<1>3. ASSUME NEW i, NEW rest, Ingest(i, rest) PROVE coll'.pc = coll.pc
  BY <1>0, <1>3 DEF Ingest, Collector
<1>4. CASE coll' = coll
  BY <1>4
<1>5. CASE Receive \/ IngestObserved
  <2>1. coll.pc \in {"collect", "ingest"} /\ coll.then \in {"check", "fail"}
    BY <1>0, <1>5 DEF Receive, IngestObserved, Collector
  <2> QED
    BY <1>1, <1>3, <1>5, <2>1 DEF Receive, IngestObserved
<1>6. CASE Drain
  BY <1>0, <1>2, <1>6 DEF Drain, Collector
<1>7. CASE ReadDone
  BY <1>0, <1>7 DEF ReadDone, Collector
<1>8. CASE Closed \/ TurnTimeout \/ ReconcileLoss \/ Interrupt \/ CheckMessages \/ Finish \/ Outcome
  BY <1>1, <1>2, <1>8 DEF Closed, TurnTimeout, ReconcileLoss, Interrupt, CheckMessages, Finish, Outcome
<1>9. CASE FinalizeLegacy
  BY <1>0, <1>1, <1>9 DEF FinalizeLegacy, Collector
<1>10. CASE Turn \/ Cancel \/ CancelInterrupt \/ CancelDone \/ StartupDone \/ \E w \in Readers : ReadStep(w)
  BY <1>4, <1>10 DEF Turn, CompleteItem, CompleteTurn, Lose, Cancel, CancelInterrupt, CancelDone,
     StartupDone, ReadStep, ReadHistory, FoundRunning, BeginApply, ApplyMessage, Conclude
<1> QED
  BY <1>5, <1>6, <1>7, <1>8, <1>9, <1>10 DEF TranscriptStep, Collect

\* Whoever changes the cached run saves it in the same step.
LEMMA AloneInv ==
    ASSUME TranscriptIInv, TranscriptStep, Alone
    PROVE  TranscriptIInv' /\ Progress
<1>0. TurnInv /\ RowInv /\ TurnTypeOK
  BY DEF TranscriptIInv, TurnInv
<1>1. TurnInv' /\ Progress
  BY <1>0, TurnStepInv
<1>2. CompletedIsFinal' /\ run' \in RunStates
  BY <1>1 DEF TurnInv, TurnTypeOK
<1>3. snap' = snap /\ refreshes' = refreshes /\ row' = IF run' = run THEN row ELSE run'
  BY DEF Alone, Saved, refreshVars
<1>4. AllSaved => AllSaved'
  BY <1>0, <1>1, SavedStays
<1>5. row' \in RunStates /\ (row'.st = "completed" \/ snap'.st = "completed" => AllSaved')
  BY <1>0, <1>2, <1>3, <1>4 DEF RowInv, CompletedIsFinal
<1>6. RunEnded' => row' = run'
  BY <1>0, <1>3 DEF RowInv, RunEnded
<1>7. ASSUME coll'.pc = "install", Over(snap) PROVE run' = snap
  <2>1. coll.pc = "install"
    BY <1>0, <1>7, NoInstall
  <2>2. run = snap /\ RunEnded /\ ~Overwriting
    BY <1>0, <1>7, <2>1 DEF RowInv, RunEnded, Overwriting
  <2> QED
    BY <1>1, <2>2 DEF Progress
<1>8. RowInv'
  BY <1>0, <1>3, <1>5, <1>6, <1>7 DEF RowInv, Over
<1> QED
  BY <1>1, <1>8 DEF TranscriptIInv

LEMMA TranscriptStepInv ==
    ASSUME TranscriptIInv, TranscriptNext
    PROVE  TranscriptIInv' /\ Progress
BY AloneInv, ProgressedInv, RefreshInv, InstallRunInv, CrashInv DEF TranscriptNext

LEMMA TranscriptStutter ==
    ASSUME TranscriptIInv, UNCHANGED vars
    PROVE  TranscriptIInv'
BY DEF vars, refreshVars, TranscriptIInv, TurnInv, TurnTypeOK, QueueInOrder, CollectorInOrder,
       CollectorHasAll, ReadersInOrder, ReaderOK, CompletedIsFinal, AllSaved, Received, Listening,
       RowInv, RunEnded

\* In every state the invariant and its parts hold.
LEMMA TranscriptAlways == TranscriptSpec => []TranscriptIInv
<1>1. TranscriptInit => TranscriptIInv
  BY TranscriptInitInv
<1>2. TranscriptIInv /\ [TranscriptNext]_vars => TranscriptIInv'
  BY TranscriptStepInv, TranscriptStutter
<1> QED
  BY <1>1, <1>2, PTL DEF TranscriptSpec

\* The variables have their types, and a run that says completed has every message
\* Codex completed in its turn: the collector and the readers of the history save
\* messages step by step, a refresh installs what it had loaded and the process may die
\* in between, but whoever completes the run has all of them saved.
THEOREM TranscriptSafe == TranscriptSpec => []TranscriptInv
<1>1. TranscriptIInv => TranscriptInv
  <2>1. TurnTypeOK /\ RowInv => TranscriptTypeOK
    BY DEF TurnTypeOK, RowInv, TranscriptTypeOK, Notifications
  <2> QED
    BY <2>1 DEF TranscriptIInv, TurnInv, TranscriptInv, CompletedIsFinal, AllSaved, CompletedHasMessages
<1> QED
  BY <1>1, TranscriptAlways, PTL

\* An ended run keeps its outcome, although the collector, the task of a cancellation
\* and the startup task conclude it and a restart loads it again: only the end of
\* execute_run overwrites it, which had seen the run open before, and a refresh that had
\* loaded it open.
THEOREM TranscriptOutcome == TranscriptSpec => OutcomeStands
<1>1. TranscriptIInv /\ [TranscriptNext]_vars
        => [RunEnded /\ run' # run =>
              \/ coll.pc \in {"complete", "failrun"} /\ coll'.pc = "end"
              \/ coll.pc = "install" /\ coll'.pc = "collect" /\ ~Over(snap)]_vars
  BY TranscriptStepInv DEF Progress, Overwriting
<1> QED
  BY <1>1, TranscriptAlways, PTL DEF TranscriptSpec, OutcomeStands

=============================================================================
