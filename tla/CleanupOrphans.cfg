SPECIFICATION ArtifactsSpec
CONSTANTS
    a1 = a1
    a2 = a2
    u = u
    t1 = t1
    c1 = c1
    A <- MCArts
    Desk = u
    Tasks <- MCTasks
    Commands <- MCCommands
    Cleaning = TRUE
    MaxCrashes = 2
    MaxRestores = 1
PROPERTY OrphansOnly
