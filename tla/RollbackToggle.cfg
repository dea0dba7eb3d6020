CONSTANTS
    Parts = {"registry"}
    MaxVersion = 3
    MaxTrail = 5
    Scores <- MCNoScores
    MinImprovement = 1
    BundleKeep = 1
    AutoPromote = FALSE
    Crashes = FALSE
    NwpEvery = 3
    StationEvery = 2
    Night = 4
    ReviewAt = 1
    Grace = 2
    MaxStation = 2
    MaxSignals = 1
    MayCancel = TRUE
    Nothing = Nothing
    Spots <- MCSpots
    SmokePoints = 1
    MaxFaults = 1
    MaxRuns = 2
SPECIFICATION MCSpec
INVARIANT RollbackRestoresPrevious
