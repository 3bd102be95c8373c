CONSTANTS
  Keys = {k1}
  Options <- WatchRemove
  Changes = {"put", "delete"}
  MaxChanges = 2
  Failures = {}
  MaxWatchErrors = 0
  MaxWorkers = 1
  maxRetries = 1
  NoTask = NoTask
SPECIFICATION Spec
CHECK_DEADLOCK FALSE
INVARIANT QuietMeansInSync
