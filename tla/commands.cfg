CONSTANTS
  Invocations = {"mirror", "watch", "cp", "rm", "put", "update", "start", "share", "undo", "twins", "ls", "perf", "report", "cat", "od", "restore"}
  Names <- ThreeNames
  Plain <- PlainOf
  Slash <- SlashOf
  Kind <- AllDirs
  Excluded <- LastName
  Sources <- OnlyS3
  Options <- BucketOptions
  MaxRuns = 2
  NoName = NoName
  Files = {"g", "f"}
  Dirs = {"d"}
  Root = "root"
  ParentOf <- ParentsOf
  Origins = {"fs", "s3"}
  Consumers = {"mirror", "watch"}
  WatchFailures = {"drop", "stat", "server"}
  MaxFsChanges = 3
  Sessions <- SomeSessions
  MaxWorkers = 2
  MaxItems = 3
  RemoveCap = 1
  CopyFailures = {"ignored", "copy", "client", "permission", "remove", "interrupt"}
  RmListings <- SomeListings
  RemoveOptions <- SomeRemoveOptions
  BatchSize = 2
  RemoveErrors = {"permission", "worm", "notEmpty", "other"}
  Puts = {w1, w2}
  Deletes = {r1}
  Streams <- SomeStreams
  PutErrors = {"mkdir", "open", "read", "rename", "times", "remove", "kill", "power"}
  Updates = {1, 2, 3}
  UpdateErrors = {"write", "rename", "kill"}
  Configs <- SomeConfigs
  Clouds <- CloudNames
  UserKeys = {"k1", "k2"}
  MaxStarts = 3
  Sharers = {s1, s2}
  MaxUrls = 2
  VersionListings <- SomeVersionListings
  UndoOptions <- SomeUndoOptions
  ObjectSizes = {1, 2}
  LargeSize = 2
  ClockSkews = {0, 1}
  MaxUserChanges = 2
  MaxMirrorStarts = 2
  MaxEchoes = 1
  VersionedKeys <- ThreeVersionedKeys
  RewindCommands = {"ls", "cp"}
  RewindFailures = {"error", "notImplemented"}
  MaxVersions = 3
  PerfPlans <- SomePerfPlans
  StreamTests = {"drive", "object"}
  MaxPartials = 1
  SupportKinds = {"perf", "inspect", "profile", "diag"}
  SupportErrors = {"fetch", "create", "copy", "remove", "upload", "reply", "close", "kill"}
  CatArgs <- TwoCatArgs
  CatOptions <- SomeCatOptions
  CatSizes = {1, 3}
  MaxCatPuts = 1
  OdSources = {0, 1, 2, 3, 5}
  OdNumbers = {0, 1, 2, 3}
  RestoreNames = {"x", "y"}
  MaxRestoreChanges = 1
  RestoreErrors = {"list", "tier"}
SPECIFICATION CommandsSpec
CHECK_DEADLOCK FALSE
INVARIANTS
  CommandsTypeOK
  SharedBucketsKept
  SyncedOrReported
  QuietMeansTold
  NewDirIsWatched
  PanicNeedsStop
  NothingLost
  SuccessMeansCopied
  MovedMeansRemoved
  PanicNeedsInterrupt
  RmExact
  PutAllOrNothing
  BinaryKept
  KeysKept
  SharesKept
  UndoneAreLast
  SitesAgree
  RewindShowsThePast
  ResultsInOrder
  ReportKept
  CatShowsOneVersion
  OdPutsItsRange
  RestoreTold
PROPERTY CommandEnds
