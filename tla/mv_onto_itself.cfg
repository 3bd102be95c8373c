CONSTANTS
  Sessions <- OntoItself
  MaxWorkers = 2
  MaxItems = 2
  RemoveCap = 1
  CopyFailures = {}
SPECIFICATION CopySpec
CHECK_DEADLOCK FALSE
INVARIANT NothingLost
