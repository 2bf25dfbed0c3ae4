SPECIFICATION TranscriptSpec
CONSTANTS
    N = 2
    Phases = {FALSE}
    MaxCrashes = 0
    MaxCancels = 0
    MaxRefreshes = 0
CHECK_DEADLOCK FALSE
INVARIANTS
    OneFinalAnswer
