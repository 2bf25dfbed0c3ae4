\* Two turns on one thread and one on another, three notifications each, buffers of
\* two.
SPECIFICATION FairRouterSpec
CONSTANTS
    t1 = t1
    t2 = t2
    u1 = u1
    u2 = u2
    u3 = u3
    None = None
    Threads <- MCThreads
    Turns <- MCTurns
    ThreadOf <- MCThreadOf
    RouteCapacity = 2
    PendingCapacity = 2
    MaxItems = 3
    MaxBegins = 2
INVARIANTS
    RouterInv
PROPERTIES
    ImplementsStream
    CollectorsWake
