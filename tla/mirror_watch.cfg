CONSTANTS
  Keys = {k1}
  Options <- WatchPlain
  Changes = {"put", "delete"}
  MaxChanges = 3
  Failures = {"watch", "denied"}
  MaxWatchErrors = 1
  MaxWorkers = 1
  maxRetries = 1
  NoTask = NoTask
SPECIFICATION Spec
CHECK_DEADLOCK FALSE
INVARIANT QuietMeansInSync
