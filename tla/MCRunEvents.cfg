SPECIFICATION EventsSpec
CONSTANTS
    Procs = {app, cli}
    App = app
    MaxEvents = 4
    MaxFailures = 2
CHECK_DEADLOCK FALSE
INVARIANTS
    EventsInv
    StreamContiguous
