\* A turn of two messages, one restart, one cancellation, one refresh.
SPECIFICATION TranscriptLive
CONSTANTS
    N = 2
    Phases = {TRUE, FALSE}
    MaxCrashes = 1
    MaxCancels = 1
    MaxRefreshes = 1
\* The run has ended.
CHECK_DEADLOCK FALSE
INVARIANTS
    TranscriptInv
PROPERTIES
    OutcomeStands
    RunEnds
