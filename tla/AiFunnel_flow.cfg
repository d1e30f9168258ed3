SPECIFICATION Spec
CONSTANTS
  News = {n1, n2}
  BatchSize = 2
  ScreenBatches = 1
  PerCycle = 2
  DailyLimit = 2
  MaxAttempts = 2
  Budget = 2
  FlushAt = 2
  MaxCorrected = 1
  MaxFaults = 1
PROPERTIES
    UserRowsStay
    FunnelSettles
