SPECIFICATION Spec
CONSTANTS
  Procs <- MCProcs
  MaxLen = 2
  Count = 2
  MaxEvents = 3
  MaxStarts <- MCStarts
  MaxOutages = 1
CHECK_DEADLOCK FALSE
INVARIANT RelayedInOrder
PROPERTY EventuallyRelayed
