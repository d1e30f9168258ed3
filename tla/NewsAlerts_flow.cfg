SPECIFICATION Spec
CONSTANTS
  News = {n1, n2}
  DigestMinutes = 2
  Timeout = 2
  DailyLimit = 1
  MaxAttempts = 1
  LastArrival = 0
  MaxClock = 3
  MaxFaults = 1
  HeldAtStart = FALSE
  MaxTrades = 1
CHECK_DEADLOCK FALSE
INVARIANT WindowsAreSafe
PROPERTY HitsComeToAnEnd
