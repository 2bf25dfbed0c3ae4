\* A crash while the run waits for its validation.
CONSTANTS
    Batches = {b1}
    Revs = {r1}
    Kinds = {vlm}
    Vlm = vlm
    Stamps = {s1}
    Tokens = {t1, t2}
    Turns = {turn1, turn2}
    None = None
    MaxAttempt = 2
    MaxCrashes = 1
    MaxCancels = 0
    MaxExtras = 2
SPECIFICATION AgentSpec
INVARIANT CompletedOnlyAfterPass
\* A run that has ended stays as it is.
CHECK_DEADLOCK FALSE
