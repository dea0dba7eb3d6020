CONSTANTS
    Cycle = cycle
    Requests = {c1}
    MaxVersion = 2
    MaxFit = 2
    LakeOrder <- MCLakeOrder
    SpotsOf <- MCSpotsOf
    MinGoHours = 2
    Rows <- MCRows
    MaxHours = 2
    NoReport = NoReport
    Users = {"ada", "bob"}
    Admins = {"ada"}
    Lakes = {"como", "garda"}
    Points = {"dongo", "torbole"}
    LakeOf <- MCLakeOf
    Configs <- MCConfigs
    First <- MCFirst
    Languages = {"en"}
    Units = {"kn"}
    Hours = {"0"}
    Thresholds = {"8"}
    Limit = 1
    Hour = 2
    MaxMessages <- MCMaxMessages
    MaxAlerts = 1
    NoPoint = "none"
SPECIFICATION MCSpec
INVARIANT RecalibrationServed
