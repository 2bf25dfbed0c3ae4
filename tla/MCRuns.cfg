\* Two turns, the first one and a refinement, with any two of: a second batch (on
\* another revision or another attempt on the same one), a crash of the process
\* anywhere, a cancellation anywhere.
CONSTANTS
    b1 = b1
    b2 = b2
    r1 = r1
    r2 = r2
    vlm = vlm
    s1 = s1
    t1 = t1
    t2 = t2
    t3 = t3
    turn1 = turn1
    turn2 = turn2
    None = None
    Batches <- MCBatches
    Revs <- MCRevs
    Kinds <- MCKinds
    Vlm = vlm
    Stamps <- MCStamps
    Tokens <- MCTokens
    Turns <- MCTurns
    MaxAttempt = 2
    MaxCrashes = 1
    MaxCancels = 1
    MaxExtras = 2
SPECIFICATION AgentSpec
INVARIANT AgentTypeOK
INVARIANT ActsOnLatest
INVARIANT AnsweredByLaterTurn
INVARIANT OneRefinementTask
INVARIANT SaveNeverConflicts
PROPERTY RejectionIsAnswered
PROPERTY CompletionIsEarned
PROPERTY CancelledAtRestStays
PROPERTY ImplementsCoordinator
SYMMETRY MCSymmetry
\* A run that has ended stays as it is.
CHECK_DEADLOCK FALSE
