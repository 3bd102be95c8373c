CONSTANTS
  Producers = {p1, p2}
  Workers = {w1, w2, w3}
  NumCPU = 1
  MaxWorkers = 2
  defaultWorkerFactor = 2
  MaxTasks = 1
  NoTask = NoTask
  capacity = 2
  ChainCap = 2
  MaxElements = 7
  None = None
SPECIFICATION MachineSpec
CHECK_DEADLOCK FALSE
INVARIANTS
  BarrierExclusion
  NoSendOnClosedChannel
  WorkerCap
  CapacityBounded
PROPERTIES
  ImplementsTaskPool
  QueuedIsDelivered
  StopAndWaitEnds
  ImplementsEventQueue
  PipeEnds
