\* A second batch, on another revision, or a crash anywhere.
\* No symmetry: the properties are temporal.
CONSTANTS
    Batches = {b1, b2}
    Revs = {r1, r2}
    Kinds = {vlm}
    Vlm = vlm
    Stamps = {s1}
    Tokens = {t1, t2}
    Turns = {turn1, turn2}
    None = None
    MaxAttempt = 1
    MaxCrashes = 1
    MaxCancels = 0
    MaxExtras = 1
SPECIFICATION FairAgentSpec
PROPERTY BatchesAreConcluded
PROPERTY VerdictEndsRun
\* A run that has ended stays as it is.
CHECK_DEADLOCK FALSE
