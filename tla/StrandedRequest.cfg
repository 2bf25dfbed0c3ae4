SPECIFICATION ProcSpec
CONSTANTS
    c1 = c1
    c2 = c2
    Initializer = Initializer
    None = None
    Clients <- MCClients
    MaxCalls = 1
    MaxGens = 2
CHECK_DEADLOCK FALSE
INVARIANTS
    ExitFailsPending
