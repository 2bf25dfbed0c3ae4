\* Turns of up to three notifications and one restart.
SPECIFICATION FairVlmSpec
CONSTANTS
    MaxItems = 3
    MaxCrashes = 1
CHECK_DEADLOCK FALSE
INVARIANTS
    VlmInv
PROPERTIES
    CheckConcludes
