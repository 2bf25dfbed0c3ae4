\* Two callers with a call each over two generations of the process; the third
\* client is the task that initializes. No symmetry: one property is temporal.
SPECIFICATION FairProcSpec
CONSTANTS
    c1 = c1
    c2 = c2
    Initializer = Initializer
    None = None
    Clients <- MCClients
    MaxCalls = 1
    MaxGens = 2
INVARIANTS
    ProcInv
PROPERTIES
    CallsReturn
CHECK_DEADLOCK FALSE
