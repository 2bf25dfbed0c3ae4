------------------------------ MODULE Artifacts ------------------------------
(***************************************************************************)
(* artifact_management.rs: files on disk, their manifests (the rows of     *)
(* artifacts), and what each process remembers of them.  A file is written *)
(* before its row and removed before its row is marked, without a lock     *)
(* from one to the other.  The user's requests are handled one at a time on *)
(* the application's main thread, beside its own tasks (renderings for the *)
(* checks, refreshes) and the agent's commands, processes of their own.    *)
(***************************************************************************)
EXTENDS Naturals

CONSTANTS
    A,              \* artifact identifiers, each with its path
    Desk,           \* the main thread of the application, with the user's requests
    Tasks,          \* the application's background tasks
    Commands,       \* the processes of the agent's commands
    Cleaning,       \* whether cleanup_orphan_artifacts is called
    MaxCrashes,     \* bound: crashes of the application
    MaxRestores     \* bound: files the user brings back

ASSUME ArtifactsAssumption ==
    /\ Desk \notin Tasks \cup Commands /\ Tasks \cap Commands = {}
    /\ Cleaning \in BOOLEAN
    /\ MaxCrashes \in Nat /\ MaxRestores \in Nat

VARIABLES
    file,       \* files under the artifact root
    row,        \* row[a]: none, ok, missing (missing_at) or deleted (deleted_at)
    cache,      \* cache[p][a]: what process p has of it: none, ok or missing
    op,         \* op[x]: what actor x is at
    swept,      \* history variable: the files clean-up has removed
    crashes,
    restores

vars == <<file, row, cache, op, swept, crashes, restores>>

\* The application goes by the name of its main thread.
App == Desk
Actors == {Desk} \cup Tasks \cup Commands
Proc(x) == IF x \in Commands THEN x ELSE App
Procs == {App} \cup Commands

Known == {"none", "ok", "missing"}
Pcs == {"idle", "written", "saved", "deleting", "dropping", "marking", "verify",
        "listing", "removing", "loaded"}
\* art: the artifact it works on; mark: the value it is to get; todo, seen: a snapshot;
\* boot: the application starts
Op == [pc: Pcs, art: SUBSET A, mark: Known, todo: SUBSET A, seen: [A -> Known], boot: BOOLEAN]
Nothing == [a \in A |-> "none"]
NoOp == [pc |-> "idle", art |-> {}, mark |-> "none", todo |-> {}, seen |-> Nothing,
         boot |-> FALSE]

ArtifactsInit ==
    /\ file = {}
    /\ row = [a \in A |-> "none"]
    /\ cache = [p \in Procs |-> Nothing]
    /\ op = [x \in Actors |-> NoOp]
    /\ swept = {} /\ crashes = 0 /\ restores = 0

Live(a) == row[a] \in {"ok", "missing"}
\* load_artifacts: the rows that are not deleted
Loaded == [a \in A |-> IF Live(a) THEN row[a] ELSE "none"]
Listed(c) == {a \in A: c[a] # "none"}

\* A request begins when the start-up of the application is over.
Begins(x) == op[x].pc = "idle" /\ (x \in Tasks => ~op[Desk].boot)
Goes(x, o) == op' = [op EXCEPT ![x] = o]
Ends(x) == Goes(x, NoOp)

-----------------------------------------------------------------------------
(* write_artifact_bytes *)

WriteFile(x) ==
    /\ Begins(x)
    /\ \E a \in A:
        /\ a \notin file /\ row[a] = "none" /\ \A y \in Actors: op[y].art # {a}
        /\ file' = file \cup {a}
        /\ Goes(x, [NoOp EXCEPT !.pc = "written", !.art = {a}])
    /\ UNCHANGED <<row, cache, swept, crashes, restores>>

SaveManifest(x) ==
    /\ op[x].pc = "written"
    /\ \E a \in op[x].art: row' = [row EXCEPT ![a] = "ok"]
    /\ Goes(x, [op[x] EXCEPT !.pc = "saved"])
    /\ UNCHANGED <<file, cache, swept, crashes, restores>>

Remember(x) ==
    /\ op[x].pc = "saved"
    /\ cache' = [cache EXCEPT ![Proc(x)] = [a \in A |-> IF a \in op[x].art THEN "ok" ELSE @[a]]]
    /\ Ends(x)
    /\ UNCHANGED <<file, row, swept, crashes, restores>>

-----------------------------------------------------------------------------
(* delete_artifact: load_artifact_manifest finds deleted rows too *)

MutDeleteForgiving(x, a) ==
    /\ Begins(x) /\ x = Desk
    /\ row[a] # "none"
    /\ file' \in {file, file \ {a}}
    /\ Goes(x, [NoOp EXCEPT !.pc = "deleting", !.art = {a}])
    /\ UNCHANGED <<row, cache, swept, crashes, restores>>

DeleteFile(x, a) ==
    /\ Begins(x) /\ x = Desk
    /\ row[a] # "none"
    /\ file' = file \ {a}
    /\ Goes(x, [NoOp EXCEPT !.pc = "deleting", !.art = {a}])
    /\ UNCHANGED <<row, cache, swept, crashes, restores>>

MarkDeleted(x) ==
    /\ op[x].pc = "deleting"
    /\ row' = [a \in A |-> IF a \in op[x].art THEN "deleted" ELSE row[a]]
    /\ Goes(x, [op[x] EXCEPT !.pc = "dropping"])
    /\ UNCHANGED <<file, cache, swept, crashes, restores>>

Drop(x) ==
    /\ op[x].pc = "dropping"
    /\ cache' = [cache EXCEPT ![Proc(x)] = [a \in A |-> IF a \in op[x].art THEN "none" ELSE @[a]]]
    /\ Ends(x)
    /\ UNCHANGED <<file, row, swept, crashes, restores>>

-----------------------------------------------------------------------------
(* mark_artifact_missing, and who calls it *)

\* The row, unless deleted; then, under the lock, the cache.
MarkRow(x, a, s, todo) ==
    /\ row' = [row EXCEPT ![a] = IF Live(a) THEN s ELSE @]
    /\ Goes(x, [op[x] EXCEPT !.pc = "marking", !.art = {a}, !.mark = s, !.todo = todo])
    /\ UNCHANGED <<file, cache, swept, crashes, restores>>

MutMarkCacheGoingOn(x) ==
    /\ op[x].pc = "marking"
    /\ cache' = [cache EXCEPT ![Proc(x)] =
                    [a \in A |-> IF a \in op[x].art /\ @[a] # "none" THEN op[x].mark ELSE @[a]]]
    /\ Goes(x, [op[x] EXCEPT !.pc = "verify", !.art = {}])
    /\ UNCHANGED <<file, row, swept, crashes, restores>>

MarkCache(x) ==
    /\ op[x].pc = "marking"
    /\ cache' = [cache EXCEPT ![Proc(x)] =
                    [a \in A |-> IF a \in op[x].art /\ @[a] # "none" THEN op[x].mark ELSE @[a]]]
    /\ Goes(x, IF op[x].todo = {} THEN NoOp ELSE [op[x] EXCEPT !.pc = "verify", !.art = {}])
    /\ UNCHANGED <<file, row, swept, crashes, restores>>

\* read_artifact, open_artifact, export_artifact_file of a file that is not there
ReadMissing(x, a) ==
    /\ Begins(x) /\ x = Desk
    /\ Live(a) /\ a \notin file
    /\ MarkRow(x, a, "missing", {})

\* verify_artifact_files_inner walks over the cache as it was when it began.
Verify(x) ==
    /\ Begins(x) /\ x = Desk
    /\ LET c == cache[App] IN
         /\ Listed(c) # {}
         /\ Goes(x, [NoOp EXCEPT !.pc = "verify", !.todo = Listed(c), !.seen = c])
    /\ UNCHANGED <<file, row, cache, swept, crashes, restores>>

\* Its look at one file, which may be out of date when it is marked.
VerifyOne(x, a) ==
    /\ op[x].pc = "verify" /\ a \in op[x].todo
    /\ LET found == IF a \in file THEN "ok" ELSE "missing"
           todo == op[x].todo \ {a}
       IN \/ found # op[x].seen[a] /\ MarkRow(x, a, found, todo)
          \/ /\ found = op[x].seen[a]
             /\ Goes(x, IF todo = {} THEN NoOp ELSE [op[x] EXCEPT !.todo = todo])
             /\ UNCHANGED <<file, row, cache, swept, crashes, restores>>

-----------------------------------------------------------------------------
(* cleanup_orphan_artifacts *)

Cleanup(x) ==
    /\ Cleaning /\ Begins(x) /\ x = Desk
    /\ Goes(x, [NoOp EXCEPT !.pc = "listing", !.seen = cache[App]])
    /\ UNCHANGED <<file, row, cache, swept, crashes, restores>>

ListFiles(x) ==
    /\ op[x].pc = "listing"
    /\ LET todo == file \ Listed(op[x].seen) IN
         Goes(x, IF todo = {} THEN NoOp ELSE [op[x] EXCEPT !.pc = "removing", !.todo = todo])
    /\ UNCHANGED <<file, row, cache, swept, crashes, restores>>

RemoveOne(x, a) ==
    /\ op[x].pc = "removing" /\ a \in op[x].todo
    /\ file' = file \ {a}
    /\ LET todo == op[x].todo \ {a} IN
         Goes(x, IF todo = {} \/ a \notin file THEN NoOp ELSE [op[x] EXCEPT !.todo = todo])
    /\ swept' = swept \cup ({a} \cap file)
    /\ UNCHANGED <<row, cache, crashes, restores>>

-----------------------------------------------------------------------------
(* The caches: refresh_session_from_repository, a command's process, a crash *)

LoadRows(x) ==
    /\ Begins(x) /\ x # Desk
    /\ Goes(x, [NoOp EXCEPT !.pc = "loaded", !.seen = Loaded])
    /\ UNCHANGED <<file, row, cache, swept, crashes, restores>>

InstallRows(x) ==
    /\ op[x].pc = "loaded"
    /\ cache' = [cache EXCEPT ![Proc(x)] = op[x].seen]
    /\ Ends(x)
    /\ UNCHANGED <<file, row, swept, crashes, restores>>

\* A command's process ends, at its end or before.
CommandEnds(x) ==
    /\ x \in Commands /\ op[x].pc # "idle"
    /\ cache' = [cache EXCEPT ![x] = Nothing]
    /\ Ends(x)
    /\ UNCHANGED <<file, row, swept, crashes, restores>>

MutCrashUnverified ==
    /\ crashes < MaxCrashes
    /\ crashes' = crashes + 1
    /\ cache' = [cache EXCEPT ![App] = Loaded]
    /\ op' = [x \in Actors |-> IF x \in Commands THEN op[x] ELSE NoOp]
    /\ UNCHANGED <<file, row, swept, restores>>

\* with_repository loads the rows and verifies their files before anything else.
Crash ==
    /\ crashes < MaxCrashes
    /\ crashes' = crashes + 1
    /\ cache' = [cache EXCEPT ![App] = Loaded]
    /\ op' = [x \in Actors |->
        CASE x \in Commands -> op[x]
          [] x = Desk /\ Listed(Loaded) # {} ->
                [NoOp EXCEPT !.pc = "verify", !.todo = Listed(Loaded), !.seen = Loaded,
                             !.boot = TRUE]
          [] OTHER -> NoOp]
    /\ UNCHANGED <<file, row, swept, restores>>

\* The user brings back the file of an artifact reported missing.
Restore(a) ==
    /\ restores < MaxRestores
    /\ row[a] = "missing" /\ a \notin file
    /\ \A x \in Actors: op[x].pc = "idle"
    /\ restores' = restores + 1
    /\ file' = file \cup {a}
    /\ UNCHANGED <<row, cache, op, swept, crashes>>

-----------------------------------------------------------------------------
ArtifactsNext ==
    \/ \E x \in Actors:
        \/ WriteFile(x) \/ SaveManifest(x) \/ Remember(x)
        \/ MarkDeleted(x) \/ Drop(x) \/ MarkCache(x) \/ Verify(x)
        \/ Cleanup(x) \/ ListFiles(x)
        \/ LoadRows(x) \/ InstallRows(x) \/ CommandEnds(x)
    \/ \E x \in Actors, a \in A:
        DeleteFile(x, a) \/ ReadMissing(x, a) \/ VerifyOne(x, a) \/ RemoveOne(x, a)
    \/ Crash
    \/ \E a \in A: Restore(a)

ArtifactsSpec == ArtifactsInit /\ [][ArtifactsNext]_vars

-----------------------------------------------------------------------------
(* Properties *)

\* Every variable has its type, and an actor that works on one artifact has it.
ArtifactsTypeOK ==
    /\ file \subseteq A
    /\ row \in [A -> Known \cup {"deleted"}]
    /\ cache \in [Procs -> [A -> Known]]
    /\ op \in [Actors -> Op]
    /\ swept \subseteq A
    /\ \A x \in Actors:
        /\ \A a, b \in op[x].art: a = b
        /\ op[x].pc \in {"written", "saved", "deleting", "dropping", "marking"} => op[x].art # {}
        /\ op[x].pc \in {"verify", "removing"} => op[x].todo # {}
    /\ crashes \in 0..MaxCrashes /\ restores \in 0..MaxRestores

\* A deleted artifact leaves no file behind, wherever a deletion, a verification or the
\* process was interrupted.
DeletedIsGone == \A a \in A: row[a] = "deleted" => a \notin file

AtWork(x, a) ==
    \/ op[x].pc \in {"deleting", "marking"} /\ a \in op[x].art
    \/ op[x].pc \in {"verify", "marking"} /\ a \in op[x].todo

\* A manifest that claims a file which is not there is about to be corrected: some
\* request is deleting the artifact or is still to look at its file.  Only clean-up
\* removes a file without looking back at its manifest.
LostIsNoticed ==
    \A a \in A \ swept: row[a] = "ok" /\ a \notin file => \E x \in Actors: AtWork(x, a)

\* "Found artifact file without a SQLite manifest": that is an orphan, and the cleanup
\* of orphans removes no other file.
OrphansOnly ==
    [][\A x \in Actors, a \in A: RemoveOne(x, a) /\ a \in file => ~Live(a)]_vars

\* What files, manifests and caches satisfy in every state.
ArtifactsInv == ArtifactsTypeOK /\ DeletedIsGone /\ LostIsNoticed

=============================================================================
