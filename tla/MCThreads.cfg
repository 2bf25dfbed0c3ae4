\* Three threads, one run with its refinements, one check; one connection loss or
\* restart. No symmetry: one property is temporal.
SPECIFICATION FairThreadsSpec
CONSTANTS
    r1 = r1
    k1 = k1
    User = User
    None = None
    Threads <- MCThreadIds
    Runs <- MCRunIds
    Checks <- MCCheckIds
    MaxGens = 2
    MaxCrashes = 1
INVARIANTS
    ThreadsInv
    BoundOnActiveThread
PROPERTIES
    LeaseIsReleased
\* Every run has ended and every budget is spent.
CHECK_DEADLOCK FALSE
