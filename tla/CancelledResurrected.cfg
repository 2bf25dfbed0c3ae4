\* The user cancels while the refinement of a rejected batch is about to start.
CONSTANTS
    Batches = {b1}
    Revs = {r1}
    Kinds = {vlm}
    Vlm = vlm
    Stamps = {s1}
    Tokens = {t1}
    Turns = {turn1, turn2}
    None = None
    MaxAttempt = 2
    MaxCrashes = 0
    MaxCancels = 1
    MaxExtras = 2
SPECIFICATION AgentSpec
PROPERTY CancelledStaysCancelled
\* A run that has ended stays as it is.
CHECK_DEADLOCK FALSE
