----------------------------- MODULE RunEvents ------------------------------
(***************************************************************************)
(* events.rs with save.rs and load.rs: the event stream of one agent run.  *)
(* The app and the command line process of a tool both append to it.  Each *)
(* appends to its cache first, under a number of its own, and the database *)
(* numbers the event it stores; the cache is corrected when the two        *)
(* differ.  A save may fail, and the app reloads the stream                *)
(* (refresh_session_from_repository) while commands run.                   *)
(***************************************************************************)
EXTENDS Naturals, SequencesExt

CONSTANTS
    Procs,          \* the app and the command line processes
    App,
    MaxEvents,      \* bound: events ever appended
    MaxFailures     \* bound: saves that fail

ASSUME EventsAssumption == App \in Procs /\ MaxEvents \in Nat /\ MaxFailures \in Nat

VARIABLES
    rows,       \* agent_run_events, in the order they were stored
    cache,      \* cache[p]: the events of the run in ServiceState
    held,       \* held[p]: the event p is saving, under its service lock
    snapshot,   \* snapshot[p]: what a refresh has read and not installed yet
    next,       \* the next event identifier
    failures

eventVars == <<rows, cache, held, snapshot, next, failures>>

Ids == 1..MaxEvents
Event == [id: Ids, seq: 1..MaxEvents]
NoSnapshot == <<[id |-> 0, seq |-> 0]>>

EventsInit ==
    /\ rows = <<>>
    /\ cache = [p \in Procs |-> <<>>]
    /\ held = [p \in Procs |-> <<>>]
    /\ snapshot = [p \in Procs |-> NoSnapshot]
    /\ next = 1
    /\ failures = 0

\* max().unwrap_or(0)
Highest(events) == Max({0} \cup {e.seq: e \in ToSet(events)})

\* sort_by: a stable sort by number; an event's rank is one more than those before it.
Before(events, j, i) ==
    events[j].seq < events[i].seq \/ (events[j].seq = events[i].seq /\ j < i)
Rank(events, i) == Cardinality({j \in DOMAIN events: Before(events, j, i)}) + 1
Sorted(events) ==
    [k \in DOMAIN events |-> events[CHOOSE i \in DOMAIN events: Rank(events, i) = k]]

MutAppend1Again(p) ==
    /\ held[p] = <<>> /\ next <= MaxEvents
    /\ LET e == [id |-> next, seq |-> Highest(cache[p])]
       IN  /\ cache' = [cache EXCEPT ![p] = Append(@, e)]
           /\ held' = [held EXCEPT ![p] = <<e>>]
    /\ next' = next + 1
    /\ UNCHANGED <<rows, snapshot, failures>>

\* append_agent_run_event: the event gets the number after the highest the cache has.
Append1(p) ==
    /\ held[p] = <<>> /\ next <= MaxEvents
    /\ p = App \/ snapshot[p] = NoSnapshot
    /\ LET e == [id |-> next, seq |-> Highest(cache[p]) + 1]
       IN  /\ cache' = [cache EXCEPT ![p] = Append(@, e)]
           /\ held' = [held EXCEPT ![p] = <<e>>]
    /\ next' = next + 1
    /\ UNCHANGED <<rows, snapshot, failures>>

MutCorrectKeepingOwn(p, e, n) == cache[p]
MutCorrectUnsorted(p, e, n) ==
    [i \in DOMAIN cache[p] |-> IF cache[p][i].id = e.id THEN [e EXCEPT !.seq = n] ELSE cache[p][i]]

\* The correction of persist_agent_run_event: nothing when the numbers agree.
Correct(p, e, n) ==
    IF n = e.seq
      THEN cache[p]
      ELSE Sorted([i \in DOMAIN cache[p] |->
                       IF cache[p][i].id = e.id THEN [e EXCEPT !.seq = n] ELSE cache[p][i]])

MutSaveOwnNumber(p) ==
    /\ held[p] # <<>>
    /\ rows' = Append(rows, held[p][1])
    /\ held' = [held EXCEPT ![p] = <<>>]
    /\ UNCHANGED <<cache, snapshot, next, failures>>

\* save_agent_run_event: an immediate transaction allocates MAX(sequence) + 1.
Save(p) ==
    /\ held[p] # <<>>
    /\ LET n == Highest(rows) + 1
       IN  /\ rows' = Append(rows, [held[p][1] EXCEPT !.seq = n])
           /\ cache' = [cache EXCEPT ![p] = Correct(p, held[p][1], n)]
    /\ held' = [held EXCEPT ![p] = <<>>]
    /\ UNCHANGED <<snapshot, next, failures>>

\* The save fails: the event stays in the cache under the number it had given itself.
SaveFails(p) ==
    /\ held[p] # <<>> /\ failures < MaxFailures
    /\ held' = [held EXCEPT ![p] = <<>>]
    /\ failures' = failures + 1
    /\ UNCHANGED <<rows, cache, snapshot, next>>

\* load_agent_run_events, outside the lock: in a refresh, or when a process starts
ReadEvents(p) ==
    /\ snapshot[p] = NoSnapshot
    /\ snapshot' = [snapshot EXCEPT ![p] = rows]
    /\ UNCHANGED <<rows, cache, held, next, failures>>

\* The rest of the refresh, under the lock
InstallEvents(p) ==
    /\ snapshot[p] # NoSnapshot /\ held[p] = <<>>
    /\ cache' = [cache EXCEPT ![p] = snapshot[p]]
    /\ snapshot' = [snapshot EXCEPT ![p] = NoSnapshot]
    /\ UNCHANGED <<rows, held, next, failures>>

EventsNext ==
    \E p \in Procs:
        Append1(p) \/ Save(p) \/ SaveFails(p) \/ ReadEvents(p) \/ InstallEvents(p)

EventsSpec == EventsInit /\ [][EventsNext]_eventVars

-----------------------------------------------------------------------------
(* Properties *)

\* Every variable has its type, and a process holds the last event of its cache.
EventsTypeOK ==
    /\ rows \in Seq(Event)
    /\ cache \in [Procs -> Seq(Event)]
    /\ held \in [Procs -> Seq(Event)]
    /\ snapshot \in [Procs -> Seq(Event) \cup {NoSnapshot}]
    /\ \A p \in Procs:
        held[p] # <<>> => cache[p] # <<>> /\ held[p] = <<cache[p][Len(cache[p])]>>
    /\ next \in 1..(MaxEvents + 1)
    /\ failures \in 0..MaxFailures

\* The stored events of a run are numbered 1, 2, 3, ... without a gap and without a number
\* used twice, whichever processes append and whatever their caches say.
StreamContiguous == \A i \in DOMAIN rows: rows[i].seq = i

\* A cached event that is stored has the number it is stored under, except the one that
\* is being saved.
CacheCarriesStored ==
    \A p \in Procs:
        \A e \in ToSet(cache[p]), s \in ToSet(rows): e.id = s.id => e = s

\* The cached events of a run are in the order of their numbers, those that failed to be
\* saved included.
CacheInOrder ==
    \A p \in Procs: held[p] = <<>> =>
        \A i, j \in DOMAIN cache[p]: i < j => cache[p][i].seq <= cache[p][j].seq

\* What the caches of the two processes satisfy in every state.
EventsInv == EventsTypeOK /\ CacheCarriesStored /\ CacheInOrder

=============================================================================
