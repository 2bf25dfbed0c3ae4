SPECIFICATION TranscriptLive
CONSTANTS
    N = 1
    Phases = {TRUE}
    MaxCrashes = 1
    MaxCancels = 0
    MaxRefreshes = 0
CHECK_DEADLOCK FALSE
PROPERTY EveryRunEnds
