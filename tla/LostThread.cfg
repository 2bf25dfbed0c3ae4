SPECIFICATION ThreadsSpec
CONSTANTS
    r1 = r1
    k1 = k1
    User = User
    None = None
    Threads <- MCThreadIds
    Runs <- MCRunIds
    Checks <- MCCheckIds
    MaxGens = 2
    MaxCrashes = 0
CHECK_DEADLOCK FALSE
INVARIANTS
    MissingThreadIsReplaced
