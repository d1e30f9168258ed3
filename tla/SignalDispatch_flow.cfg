SPECIFICATION Spec
CONSTANTS
  NewsIds = {1, 2}
  BatchSize = 1
  BacklogSize = 2
  LeaseTicks = 2
  ScanTicks = 1
  MaxQueue = 2
  MaxFailures = 1
  MaxCrashes = 1
INVARIANTS
  TypeOK
  LeaseCoversBatch
  MemoryFollowsDatabase
PROPERTIES
  NoRedeliveryInProgress
  WorkIsDone
  ImplementsLifecycle
