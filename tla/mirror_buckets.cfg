CONSTANTS
  Keys = {k1}
  Options <- WatchRemove
  Changes = {"put", "delete", "makeBucket", "removeBucket"}
  MaxChanges = 3
  Failures = {"bucket"}
  MaxWatchErrors = 0
  MaxWorkers = 2
  maxRetries = 1
  NoTask = NoTask
SPECIFICATION Spec
CHECK_DEADLOCK FALSE
INVARIANT
  BucketBeforeObjects
