CONSTANTS
  Keys = {k1, k2}
  Options <- OnceOrWatch
  Changes = {}
  MaxChanges = 0
  Failures = {"copy", "remove", "listing", "denied"}
  MaxWatchErrors = 0
  MaxWorkers = 2
  maxRetries = 1
  NoTask = NoTask
SPECIFICATION FairSpec
CHECK_DEADLOCK FALSE

  
PROPERTY MirrorEnds
