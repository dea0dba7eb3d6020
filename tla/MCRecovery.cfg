SPECIFICATION Spec
CONSTANTS
  p1 = p1
  p2 = p2
  m1 = m1
  Points <- MCPoints
  OpPoints <- MCOpPoints
  Models <- MCModels
  Station = Station
  NoDay = NoDay
  NoJob = NoJob
  LastDay = 5
  Horizon = 2
  EraLive = 1
  EraDelay = 1
  Chunk = 2
  MaxDays = 4
  ClimDays = 4
  BootDays = 2
  Lookback = 4
  Retain = 3
  Retries = 1
  MaxFaults = 2
INVARIANTS
  TypeOK
  WindowsFilled
PROPERTIES
  OnlyLiveRowsExpire
  RecoveryEnds
