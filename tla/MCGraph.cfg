\* The app and one command, one run, two revisions; titles are not told apart.
SPECIFICATION GraphSpec
CONSTANTS
    app = app
    c1 = c1
    r1 = r1
    r2 = r2
    r3 = r3
    App <- app
    Procs <- MCProcs
    Runs <- MCOneRun
    MaxRevs = 2
    Titles = FALSE
SYMMETRY MCSymmetry
INVARIANTS
    GraphInv
PROPERTIES
    OutputIsFresh
    DeletedForever
