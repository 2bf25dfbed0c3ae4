CONSTANTS
    b1 = b1
    r1 = r1
    structural = structural
    vlm = vlm
    s1 = s1
    t1 = t1
    t2 = t2
    turn1 = turn1
    None = None
    Batches <- MCBatches
    Revs <- MCRevs
    Kinds <- MCKinds
    Vlm = vlm
    Stamps <- MCStamps
    Tokens <- MCTokens
    Turns <- MCTurns
    MaxAttempt = 2
SPECIFICATION CoordSpec
INVARIANT CoordTypeOK
INVARIANT VerdictMatchesChecks
INVARIANT ExecutorOwns
PROPERTY ImplementsStore
SYMMETRY MCSymmetry
VIEW MCView
