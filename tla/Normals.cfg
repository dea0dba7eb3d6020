CONSTANTS
    None = None
    Parts = {"building"}
    Lake = "lake"
    AuxPoints = {"zurich"}
    Models = {"ecmwf", "icon"}
    RefModel = "ecmwf"
    AuxModel = "icon"
    Ensembles = {}
    Sources = {"station", "era5"}
    Tier <- MCTier
    Distance <- MCDistance
    LastHour = 2
    Cadence = 2
    Horizon = 3
    StitchLead = 2
    BaseWindow = 0
    LagWindow = 1
    AuxWindow = 2
    Lags = {1, 3}
    History = {0, 1}
    Ramp = {1}
    Lookback = 1
    ObsLags = {1, 2}
    ObsTolerance = 0
    BiasWindow = 3
    Year = 2
    Season = 0
    NormalsBack = 2
    MaxWrites = 2
    MaxSamples = 2
    PathSamples = 9
    MaxGroups = 4
    MaxHours = 3
    MaxRows = 6
    MaxValue = 3
    MinTrain = 2
    MinVal = 2
SPECIFICATION MCSpec
INVARIANT NormalsArePast
CHECK_DEADLOCK FALSE
