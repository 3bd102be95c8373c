CONSTANTS
  Keys = {k1}
  Options <- WatchPlain
  Changes = {"put"}
  MaxChanges = 2
  Failures = {"copy"}
  MaxWatchErrors = 0
  MaxWorkers = 1
  maxRetries = 1
  NoTask = NoTask
SPECIFICATION Spec
CHECK_DEADLOCK FALSE
INVARIANT StopStops
