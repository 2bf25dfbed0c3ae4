---------------------------- MODULE SessionGraph ----------------------------
(***************************************************************************)
(* session_service.rs and session_repository.rs: one session, as the       *)
(* database has it and as each process caches it.  The app and the         *)
(* command line processes load the whole session when they start, change   *)
(* their cache first and write back what the cache says; only the app      *)
(* reloads (refresh_session_from_repository), from the thread of a run,    *)
(* while its other threads go on.  A load is a series of SELECTs outside   *)
(* any transaction.                                                        *)
(***************************************************************************)
EXTENDS Naturals

CONSTANTS
    Procs,      \* processes: the app and command line tools
    App,
    Runs,       \* agent runs of the session
    MaxRevs,    \* bound: revisions ever created
    Titles      \* bound: whether a title of the user's is told from a generated one

ASSUME GraphAssumption == App \in Procs /\ MaxRevs \in Nat /\ Titles \in BOOLEAN

VARIABLES
    db,         \* the rows of the session
    cache,      \* cache[p]: ServiceState of p
    up,         \* processes that run
    load,       \* load[p]: what the load of p has read so far
    fresh,      \* fresh[p]: revision p has made and not linked yet; 0: none
    nextRev     \* the next revision identifier

graphVars == <<db, cache, up, load, fresh, nextRev>>

Revs == 1..MaxRevs

\* Revisions are numbered; 0 is no revision.  known says whether the session is there:
\* in a cache, that it has the session at all; in the database, that it is not deleted.
\* title is title_source: "user" once the user has renamed the session.
Graph == [known: BOOLEAN, title: {"auto", "user"}, active: {0} \cup Revs, revs: SUBSET Revs,
          st: [Runs -> {"none", "active", "ended"}], out: [Runs -> {0} \cup Revs]]
Empty == [known |-> FALSE, title |-> "auto", active |-> 0, revs |-> {},
          st |-> [r \in Runs |-> "none"], out |-> [r \in Runs |-> 0]]

Idle == [pc |-> "idle", graph |-> Empty]

GraphInit ==
    /\ db = [Empty EXCEPT !.known = TRUE]
    /\ cache = [p \in Procs |-> Empty]
    /\ up = {}
    /\ load = [p \in Procs |-> Idle]
    /\ fresh = [p \in Procs |-> 0]
    /\ nextRev = 1

Active(g) == {r \in Runs: g.st[r] = "active"}
\* require_session
Has(p) == p \in up /\ cache[p].known

-----------------------------------------------------------------------------
(* Loading: SqliteSessionRepository::load, at start and in a refresh *)

\* load_sessions.  The app refreshes when a tool of a run has completed.
ReadSession(p) ==
    /\ load[p].pc = "idle"
    /\ p \notin up \/ (p = App /\ Active(cache[p]) # {})
    /\ load' = [load EXCEPT ![p] = [pc |-> "session", graph |->
            IF db.known
              THEN [Empty EXCEPT !.known = TRUE, !.title = db.title,
                                 !.active = db.active]
              ELSE Empty]]
    /\ UNCHANGED <<db, cache, up, fresh, nextRev>>

\* load_revisions: none of a session deleted meanwhile
ReadRevisions(p) ==
    /\ load[p].pc = "session"
    /\ load' = [load EXCEPT ![p].pc = "revisions",
                            ![p].graph.revs = IF db.known THEN db.revs ELSE {}]
    /\ UNCHANGED <<db, cache, up, fresh, nextRev>>

\* load_agent_runs, kept for the sessions that were read
ReadRuns(p) ==
    /\ load[p].pc = "revisions"
    /\ load' = [load EXCEPT ![p].pc = "runs",
            ![p].graph.st = IF db.known /\ load[p].graph.known THEN db.st ELSE Empty.st,
            ![p].graph.out = IF db.known /\ load[p].graph.known THEN db.out ELSE Empty.out]
    /\ UNCHANGED <<db, cache, up, fresh, nextRev>>

MutInstallSessionOnly(p) ==
    /\ load[p].pc = "runs"
    /\ cache' = [cache EXCEPT ![p] = [load[p].graph EXCEPT !.revs = IF p \in up THEN cache[p].revs ELSE @]]
    /\ up' = up \cup {p}
    /\ load' = [load EXCEPT ![p] = Idle]
    /\ UNCHANGED <<db, fresh, nextRev>>

\* The end of a load: the whole cache at start; in a refresh, the session, its revisions
\* and its runs, under the lock and whatever the cache has become.
Install(p) ==
    /\ load[p].pc = "runs"
    /\ cache' = IF p \in up /\ ~load[p].graph.known
                  THEN cache                        \* CAD session not found
                  ELSE [cache EXCEPT ![p] = load[p].graph]
    /\ up' = up \cup {p}
    /\ load' = [load EXCEPT ![p] = Idle]
    /\ UNCHANGED <<db, fresh, nextRev>>

MutExitKeepingFresh(p) ==
    /\ p \in up \/ load[p].pc # "idle"
    /\ cache' = [cache EXCEPT ![p] = Empty]
    /\ up' = up \ {p}
    /\ load' = [load EXCEPT ![p] = Idle]
    /\ UNCHANGED <<db, fresh, nextRev>>

\* A process ends, or dies.
Exit(p) ==
    /\ p \in up \/ load[p].pc # "idle"
    /\ cache' = [cache EXCEPT ![p] = Empty]
    /\ up' = up \ {p}
    /\ load' = [load EXCEPT ![p] = Idle]
    /\ fresh' = [fresh EXCEPT ![p] = 0]
    /\ UNCHANGED <<db, nextRev>>

-----------------------------------------------------------------------------
(* Operations that save the whole session graph *)

MutPersistDeleted(p, g) ==
    /\ cache' = [cache EXCEPT ![p] = g]
    /\ db' = [db EXCEPT !.known = g.known, !.title = g.title, !.active = g.active,
                        !.revs = @ \cup g.revs]
    /\ UNCHANGED up

\* persist_session_graph: the cache is g already.  A refused or failed save leaves the
\* app with a cache ahead of the database and ends a command.
Persist(p, g) ==
    \/ /\ db.known
       /\ cache' = [cache EXCEPT ![p] = g]
       /\ db' = [db EXCEPT !.title = g.title, !.active = g.active,
                           !.revs = @ \cup g.revs]
       /\ UNCHANGED up
    \/ /\ cache' = [cache EXCEPT ![p] = IF p = App THEN g ELSE Empty]
       /\ up' = IF p = App THEN up ELSE up \ {p}
       /\ UNCHANGED db

\* update_model_source; restore_revision does the same with an earlier source.
ApplySource(p) ==
    /\ Has(p) /\ nextRev <= MaxRevs /\ fresh[p] = 0
    /\ Persist(p, [cache[p] EXCEPT !.revs = @ \cup {nextRev}, !.active = nextRev])
    /\ fresh' = [fresh EXCEPT ![p] = IF p # App /\ p \in up' THEN nextRev ELSE 0]
    /\ nextRev' = nextRev + 1
    /\ UNCHANGED load

\* set_active_revision
Activate(v) ==
    /\ Has(App) /\ v \in cache[App].revs
    /\ Persist(App, [cache[App] EXCEPT !.active = v])
    /\ UNCHANGED <<load, fresh, nextRev>>

\* rename_session
Rename ==
    /\ Has(App)
    /\ Persist(App, [cache[App] EXCEPT !.title = IF Titles THEN "user" ELSE @])
    /\ UNCHANGED <<load, fresh, nextRev>>

\* mark_session_viewed, render_preview, export_artifact and the like
Touch(p) ==
    /\ Has(p)
    /\ Persist(p, cache[p])
    /\ fresh' = [fresh EXCEPT ![p] = IF p \in up' THEN @ ELSE 0]
    /\ UNCHANGED <<load, nextRev>>

\* delete_session: the row first, then everything of the session in the cache
Delete ==
    /\ Has(App) /\ Active(cache[App]) = {} /\ db.known
    /\ db' = [db EXCEPT !.known = FALSE]
    /\ cache' = [cache EXCEPT ![App] = Empty]
    /\ UNCHANGED <<up, load, fresh, nextRev>>

-----------------------------------------------------------------------------
(* Operations on the runs *)

\* create_agent_run_with_user_message: refused in the database when the session is deleted
CreateRun(r) ==
    /\ Has(App) /\ db.known
    /\ db.st[r] = "none" /\ Active(cache[App]) = {}
    /\ cache' = [cache EXCEPT ![App].st[r] = "active"]
    /\ db' = [db EXCEPT !.st[r] = "active", !.title = cache[App].title]
    /\ UNCHANGED <<up, load, fresh, nextRev>>

MutSaveRunWhole(r, s) ==
    /\ cache' = [cache EXCEPT ![App].st[r] = s]
    /\ db' = [db EXCEPT !.st[r] = s, !.out[r] = cache[App].out[r]]
    /\ UNCHANGED <<up, load, fresh, nextRev>>

\* save_agent_run does not write the output of a run it updates.
SaveRun(r, s) ==
    /\ cache' = [cache EXCEPT ![App].st[r] = s]
    /\ db' = [db EXCEPT !.st[r] = s]
    /\ UNCHANGED <<up, load, fresh, nextRev>>

\* update_agent_run without a status: the cached one is written again
TouchRun(r) == Has(App) /\ r \in Active(cache[App]) /\ SaveRun(r, "active")

\* A run ends: its executor, a cancellation or the coordinator
EndRun(r) == Has(App) /\ r \in Active(cache[App]) /\ SaveRun(r, "ended")

\* cadgen-ax-source-apply links its revision to the run it was called for.
Link(p, r) ==
    /\ Has(p) /\ fresh[p] # 0 /\ cache[p].st[r] = "active"
    /\ db' = [db EXCEPT !.out[r] = fresh[p]]
    /\ cache' = [cache EXCEPT ![p].out[r] = fresh[p]]
    /\ fresh' = [fresh EXCEPT ![p] = 0]
    /\ UNCHANGED <<up, load, nextRev>>

-----------------------------------------------------------------------------
GraphNext ==
    \/ \E p \in Procs:
        ReadSession(p) \/ ReadRevisions(p) \/ ReadRuns(p) \/ Install(p) \/ Exit(p)
    \/ \E p \in Procs: ApplySource(p) \/ Touch(p)
    \/ \E v \in Revs: Activate(v)
    \/ Rename \/ Delete
    \/ \E r \in Runs: CreateRun(r) \/ TouchRun(r) \/ EndRun(r)
    \/ \E p \in Procs, r \in Runs: Link(p, r)

GraphSpec == GraphInit /\ [][GraphNext]_graphVars

-----------------------------------------------------------------------------
(* Properties *)

\* Every variable has its type; a process that does not run has no cache.
GraphTypeOK ==
    /\ db \in Graph
    /\ cache \in [Procs -> Graph]
    /\ up \subseteq Procs
    /\ load \in [Procs -> [pc: {"idle", "session", "revisions", "runs"}, graph: Graph]]
    /\ fresh \in [Procs -> {0} \cup Revs]
    /\ nextRev \in 1..(MaxRevs + 1)
    /\ \A p \in Procs \ up: cache[p] = Empty /\ fresh[p] = 0

\* The active revision is one the same holder knows: the row always points to a stored
\* revision, and so does every cache of a session that still exists, whatever was saved
\* between the SELECTs of its load (revisions are read after the session).
ActiveIsKnown ==
    /\ db.active \in db.revs \cup {0}
    /\ db.known => \A p \in Procs: cache[p].active \in cache[p].revs \cup {0}

\* A deleted session stays deleted and its graph as it was, although processes that
\* loaded it before go on saving it ("cannot be saved from a stale process").
DeletedForever ==
    [][~db.known => /\ ~db'.known
                    /\ db'.title = db.title
                    /\ db'.active = db.active /\ db'.revs = db.revs]_graphVars

\* The output of a run changes only to the revision a live command has just made:
\* no save of a run puts back the output its process had cached.
OutputIsFresh ==
    [][\A r \in Runs: db'.out[r] # db.out[r] =>
            /\ db'.out[r] \in db.revs
            /\ \E p \in up \ {App}: fresh[p] = db'.out[r]]_graphVars

\* Once the user has named the session, the name stands.
UserTitleStands == [][db.title = "user" => db'.title = "user"]_graphVars

\* "Session already has an active agent run": at most one run of a session is active.
OneActiveRun == \A r, s \in Runs: db.st[r] = "active" /\ db.st[s] = "active" => r = s

\* What the rows and the caches satisfy in every state.
GraphInv == GraphTypeOK /\ ActiveIsKnown

=============================================================================
