SPECIFICATION GraphSpec
CONSTANTS
    app = app
    c1 = c1
    r1 = r1
    r2 = r2
    r3 = r3
    App <- app
    Procs <- MCAppOnly
    Runs <- MCThreeRuns
    MaxRevs = 0
    Titles = FALSE
SYMMETRY MCSymmetry
INVARIANT OneActiveRun
