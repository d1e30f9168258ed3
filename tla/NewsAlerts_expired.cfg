SPECIFICATION Spec
CONSTANTS
  News = {h}
  DigestMinutes = 2
  Timeout = 2
  DailyLimit = 1
  MaxAttempts = 1
  LastArrival = 1
  MaxClock = 4
  MaxFaults = 1
  HeldAtStart = TRUE
  MaxTrades = 0
CHECK_DEADLOCK FALSE
INVARIANT ExpiredIsAlerted
