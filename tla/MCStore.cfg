\* Two batches, two revisions: two attempts on one revision, or one on each.
\* Two checks per batch, one of them the VLM check: the structural and the DFM
\* check take part in the same operations under the same guards.
CONSTANTS
    b1 = b1
    b2 = b2
    r1 = r1
    r2 = r2
    structural = structural
    vlm = vlm
    s1 = s1
    t1 = t1
    t2 = t2
    t3 = t3
    turn1 = turn1
    None = None
    Batches <- MCBatches
    Revs <- MCRevs
    Kinds <- MCKinds
    Vlm = vlm
    Stamps <- MCStamps
    Tokens <- MCTokens
    Turns <- MCTurns
    MaxAttempt = 2
SPECIFICATION StoreSpec
INVARIANT StoreInv
PROPERTY VerdictIsFinal
PROPERTY AppliedIsFinal
PROPERTY OwnerStaysLatest
PROPERTY LostClaimIsDead
PROPERTY ImplementsLifecycle
SYMMETRY MCSymmetry
