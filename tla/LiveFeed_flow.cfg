SPECIFICATION Spec
CONSTANTS
  Rows = {1, 2}
  Limit = 1
  QueueSize = 1
  MaxVersion = 2
  MaxWrites = 2
  MaxUpsets = 1
INVARIANT PageIsConsistent
PROPERTY FeedSettles
CHECK_DEADLOCK FALSE
