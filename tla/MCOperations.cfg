CONSTANTS
    Parts = {"registry", "loop", "harness"}
    MaxVersion = 2
    MaxTrail = 3
    Scores <- MCScores
    MinImprovement = 1
    BundleKeep = 1
    AutoPromote = TRUE
    Crashes = TRUE
    NwpEvery = 3
    StationEvery = 2
    Night = 4
    ReviewAt = 1
    Grace = 2
    MaxStation = 2
    MaxSignals = 1
    MayCancel = TRUE
    Nothing = Nothing
    Spots <- MCSpots
    SmokePoints = 1
    MaxFaults = 1
    MaxRuns = 2
SPECIFICATION MCSpec
INVARIANTS
    TypeOK
    AtMostOneProduction
    AuditExplainsProduction
    GateGuardsProduction
    RollbackUndoesPromotion
    LoopSound
    CloseWaitsForCycle
    HarnessSound
PROPERTIES
    GcSparesProduction
    JobsRecur
    ReportComes
