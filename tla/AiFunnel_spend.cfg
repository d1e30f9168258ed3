SPECIFICATION Spec
CONSTANTS
  News = {n1, n2}
  BatchSize = 2
  ScreenBatches = 1
  PerCycle = 2
  DailyLimit = 2
  MaxAttempts = 2
  Budget = 1
  FlushAt = 2
  MaxCorrected = 0
  MaxFaults = 0
PROPERTY PausesOverBudget
