SPECIFICATION GraphSpec
CONSTANTS
    app = app
    c1 = c1
    r1 = r1
    r2 = r2
    r3 = r3
    App <- app
    Procs <- MCProcs
    Runs <- MCOneRun
    MaxRevs = 1
    Titles = TRUE
SYMMETRY MCSymmetry
PROPERTY UserTitleStands
