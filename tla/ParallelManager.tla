--------------------------- MODULE ParallelManager ---------------------------
(***************************************************************************)
(* The pool of worker goroutines of cmd/parallel-manager.go, which runs    *)
(* every transfer of "mc mirror" and "mc cp".                              *)
(*                                                                         *)
(* Producers are the goroutines that call queueTask/queueTaskWithBarrier.  *)
(* A producer takes barrierSync (shared, or exclusive for a barrier task)  *)
(* and hands the task to a worker over the unbuffered queueCh; the WORKER  *)
(* releases the lock after it has delivered the result on the unbuffered   *)
(* resultCh.  The lock counts its holders, it does not know them.  A       *)
(* monitor goroutine adds workers while the bandwidth grows, and           *)
(* stopAndWait closes queueCh, waits for the workers and then stops the    *)
(* monitor.                                                                *)
(***************************************************************************)
EXTENDS Integers, FiniteSets

CONSTANTS
  Producers,            \* goroutines that queue tasks
  Workers,              \* identities for the worker goroutines
  NumCPU,               \* workers the constructor asks for
  MaxWorkers,           \* the cap: maxWorkers, or maxParallelWorkers
  defaultWorkerFactor,  \* workers the monitor asks for per tick
  MaxTasks,             \* bound: tasks one producer queues
  NoTask                \* value of a task slot that holds nothing

ASSUME PoolAssumption ==
  /\ IsFiniteSet(Producers) /\ IsFiniteSet(Workers)
  /\ Producers \cap Workers = {}
  /\ NumCPU \in Nat \ {0} /\ MaxWorkers \in Nat \ {0}
  /\ defaultWorkerFactor \in Nat \ {0} /\ MaxTasks \in Nat

TaskIds == Producers \X (1..MaxTasks)
Task == [id: TaskIds, barrier: BOOLEAN]
ASSUME NoTaskAssumption == NoTask \notin Task

VARIABLES
  producer,     \* producer -> where it is in doQueueTask
  queued,       \* producer -> number of tasks it has passed to doQueueTask
  holding,      \* producer or worker -> the task it carries, or NoTask
  readers,      \* barrierSync: number of shared holders
  writer,       \* barrierSync: "free", "pending" (announced) or "held"
  worker,       \* worker -> where it is in its loop
  workersNum,   \* the counter addWorker compares with the cap
  wg,           \* the counter of the WaitGroup
  queueClosed,  \* queueCh has been closed
  results,      \* task id -> results delivered for it on resultCh
  stop,         \* where the caller of stopAndWait is
  monitor,      \* where newParallelManager and then its monitor are
  adding,       \* addWorker calls left in the current loop
  retry,        \* ticks in a row without a better bandwidth
  sent          \* bytes were accounted since the last tick

producerVars == <<producer, queued>>
lockVars == <<readers, writer>>
monitorVars == <<monitor, adding, retry, sent>>
vars == <<producerVars, holding, lockVars, worker, workersNum, wg,
          queueClosed, results, stop, monitorVars>>

ProducerStates ==
  {"idle", "rlock", "rwait", "lock", "drain", "send", "done"}
WorkerStates == {"none", "recv", "run", "deliver", "unlock", "exit"}
StopStates ==
  {"run", "wait", "waiting", "woken", "stopMonitor", "stopped", "closed",
   "panicked"}

\* Tasks between queueTask and the worker's Unlock or RUnlock.
Busy(w) == worker[w] \in {"run", "deliver", "unlock"}
Queueing(p) == producer[p] \in {"rlock", "rwait", "lock", "drain", "send"}

-----------------------------------------------------------------------------
\* newParallelManager: nothing runs, the constructor's loop is about to start.
Init ==
  /\ producer = [p \in Producers |-> "idle"]
  /\ queued = [p \in Producers |-> 0]
  /\ holding = [x \in Producers \cup Workers |-> NoTask]
  /\ readers = 0 /\ writer = "free"
  /\ worker = [w \in Workers |-> "none"]
  /\ workersNum = 0 /\ wg = 0
  /\ queueClosed = FALSE
  /\ results = [t \in TaskIds |-> 0]
  /\ stop = "run"
  /\ monitor = "create" /\ adding = NumCPU /\ retry = 0 /\ sent = FALSE

(***************************************************************************)
(* Adding workers.                                                         *)
(***************************************************************************)

\* Mutant: the cap is compared with <= instead of <.
AddWorkerPastCap(w) ==
  /\ adding > 0 /\ workersNum <= MaxWorkers
  /\ worker[w] = "none"
  /\ workersNum' = workersNum + 1 /\ wg' = wg + 1 /\ adding' = adding - 1
  /\ worker' = [worker EXCEPT ![w] = "recv"]
  /\ UNCHANGED <<producerVars, holding, lockVars, queueClosed, results, stop,
                 monitor, retry, sent>>

\* addWorker below the cap.  Only the constructor and then the monitor call
\* it, one call after the other, so its check and its update are one step.
AddWorker(w) ==
  /\ adding > 0 /\ workersNum < MaxWorkers
  /\ worker[w] = "none"
  /\ workersNum' = workersNum + 1 /\ wg' = wg + 1 /\ adding' = adding - 1
  /\ worker' = [worker EXCEPT ![w] = "recv"]
  /\ UNCHANGED <<producerVars, holding, lockVars, queueClosed, results, stop,
                 monitor, retry, sent>>

\* addWorker at the cap: the early return.
AddWorkerAtCap ==
  /\ adding > 0 /\ workersNum >= MaxWorkers
  /\ adding' = adding - 1
  /\ UNCHANGED <<producerVars, holding, lockVars, worker, workersNum, wg,
                 queueClosed, results, stop, monitor, retry, sent>>

\* The constructor returns with the monitor started.
StartMonitor ==
  /\ monitor = "create" /\ adding = 0
  /\ monitor' = "select"
  /\ UNCHANGED <<producerVars, holding, lockVars, worker, workersNum, wg,
                 queueClosed, results, stop, adding, retry, sent>>

\* Mutant: the monitor goes on after the third tick without improvement.
MonitorTickNoReturn(improved) ==
  /\ monitor = "select" /\ adding = 0
  /\ improved => sent
  /\ sent' = FALSE
  /\ retry' = IF improved THEN 0 ELSE retry + 1
  /\ adding' = defaultWorkerFactor
  /\ UNCHANGED <<producerVars, holding, lockVars, worker, workersNum, wg,
                 queueClosed, results, stop, monitor>>

\* A tick of the monitor.  The bandwidth can only exceed the maximum when
\* bytes were sent since the last tick; the third tick in a row without
\* improvement ends the monitor.
MonitorTick(improved) ==
  /\ monitor = "select" /\ adding = 0
  /\ improved => sent
  /\ sent' = FALSE
  /\ retry' = IF improved THEN 0 ELSE retry + 1
  /\ IF retry' > 2
     THEN monitor' = "exit" /\ UNCHANGED adding
     ELSE adding' = defaultWorkerFactor /\ UNCHANGED monitor
  /\ UNCHANGED <<producerVars, holding, lockVars, worker, workersNum, wg,
                 queueClosed, results, stop>>

\* The monitor sees stopMonitorCh closed.
MonitorStop ==
  /\ monitor = "select" /\ adding = 0
  /\ stop \in {"stopped", "closed"}
  /\ monitor' = "exit"
  /\ UNCHANGED <<producerVars, holding, lockVars, worker, workersNum, wg,
                 queueClosed, results, stop, adding, retry, sent>>

(***************************************************************************)
(* Producers: doQueueTask.                                                 *)
(***************************************************************************)

\* queueTask or queueTaskWithBarrier enters doQueueTask with a task of some
\* or no upload size.  Not enough memory (it depends on what the process has
\* allocated, so it may be either for a sized upload) makes it a barrier.
DoQueueTask(p, wantsBarrier, sized, enoughMem) ==
  /\ monitor # "create"
  /\ producer[p] = "idle" /\ queued[p] < MaxTasks
  /\ sized \/ enoughMem
  /\ LET barrier == wantsBarrier \/ ~enoughMem IN
       /\ queued' = [queued EXCEPT ![p] = @ + 1]
       /\ holding' = [holding EXCEPT ![p] =
                        [id |-> <<p, queued[p] + 1>>, barrier |-> barrier]]
       /\ producer' = [producer EXCEPT ![p] =
                         IF barrier THEN "lock" ELSE "rlock"]
  /\ UNCHANGED <<lockVars, worker, workersNum, wg, queueClosed, results, stop,
                 monitorVars>>

\* barrierSync.RLock with no writer announced.
RLock(p) ==
  /\ producer[p] = "rlock" /\ writer = "free"
  /\ readers' = readers + 1
  /\ producer' = [producer EXCEPT ![p] = "send"]
  /\ UNCHANGED <<queued, holding, writer, worker, workersNum, wg, queueClosed,
                 results, stop, monitorVars>>

\* barrierSync.RLock behind an announced writer: it sleeps until the Unlock.
RLockWait(p) ==
  /\ producer[p] = "rlock" /\ writer # "free"
  /\ producer' = [producer EXCEPT ![p] = "rwait"]
  /\ UNCHANGED <<queued, holding, lockVars, worker, workersNum, wg,
                 queueClosed, results, stop, monitorVars>>

\* barrierSync.Lock: the only writer announces itself to new readers ...
LockAnnounce(p) ==
  /\ producer[p] = "lock" /\ writer = "free"
  /\ writer' = "pending"
  /\ producer' = [producer EXCEPT ![p] = "drain"]
  /\ UNCHANGED <<queued, holding, readers, worker, workersNum, wg,
                 queueClosed, results, stop, monitorVars>>

\* Mutant: the writer does not wait for the readers that are inside.
LockWithoutDrain(p) ==
  /\ producer[p] = "drain"
  /\ writer' = "held"
  /\ producer' = [producer EXCEPT ![p] = "send"]
  /\ UNCHANGED <<queued, holding, readers, worker, workersNum, wg,
                 queueClosed, results, stop, monitorVars>>

\* ... and has the lock when the last reader has left.
LockAcquire(p) ==
  /\ producer[p] = "drain" /\ readers = 0
  /\ writer' = "held"
  /\ producer' = [producer EXCEPT ![p] = "send"]
  /\ UNCHANGED <<queued, holding, readers, worker, workersNum, wg,
                 queueClosed, results, stop, monitorVars>>

\* queueCh <- t meets a worker at its receive.
Send(p, w) ==
  /\ producer[p] = "send" /\ worker[w] = "recv" /\ ~queueClosed
  /\ producer' = [producer EXCEPT ![p] = "idle"]
  /\ worker' = [worker EXCEPT ![w] = "run"]
  /\ holding' = [holding EXCEPT ![p] = NoTask, ![w] = holding[p]]
  /\ UNCHANGED <<queued, lockVars, workersNum, wg, queueClosed, results, stop,
                 monitorVars>>

\* A producer has no more tasks, or its context was cancelled.
Quit(p) ==
  /\ monitor # "create" /\ producer[p] = "idle"
  /\ producer' = [producer EXCEPT ![p] = "done"]
  /\ UNCHANGED <<queued, holding, lockVars, worker, workersNum, wg,
                 queueClosed, results, stop, monitorVars>>

(***************************************************************************)
(* Workers: the goroutine of addWorker.                                    *)
(***************************************************************************)

\* Read: the progress hook of a running upload accounts some bytes.
Read(w) ==
  /\ worker[w] = "run" /\ ~sent
  /\ sent' = TRUE
  /\ UNCHANGED <<producerVars, holding, lockVars, worker, workersNum, wg,
                 queueClosed, results, stop, monitor, adding, retry>>

\* t.fn() returns; its result is to be sent on resultCh.
Return(w) ==
  /\ worker[w] = "run"
  /\ worker' = [worker EXCEPT ![w] = "deliver"]
  /\ UNCHANGED <<producerVars, holding, lockVars, workersNum, wg, queueClosed,
                 results, stop, monitorVars>>

\* resultCh <- result meets its receiver (external: it drains the channel).
Deliver(w) ==
  /\ worker[w] = "deliver" /\ stop # "closed"
  /\ results' = [results EXCEPT ![holding[w].id] = @ + 1]
  /\ worker' = [worker EXCEPT ![w] = "unlock"]
  /\ UNCHANGED <<producerVars, holding, lockVars, workersNum, wg, queueClosed,
                 stop, monitorVars>>

\* Mutant: RUnlock whatever the kind of the task.
UnlockAlwaysShared(w) ==
  /\ worker[w] = "unlock"
  /\ readers' = readers - 1
  /\ worker' = [worker EXCEPT ![w] = "recv"]
  /\ holding' = [holding EXCEPT ![w] = NoTask]
  /\ UNCHANGED <<producerVars, writer, workersNum, wg, queueClosed, results,
                 stop, monitorVars>>

\* Unlock after a barrier task admits every reader that slept meanwhile;
\* RUnlock after any other.  The worker then waits for its next task.
Unlock(w) ==
  /\ worker[w] = "unlock"
  /\ \/ /\ holding[w].barrier
        /\ writer' = "free"
        /\ readers' = Cardinality({p \in Producers : producer[p] = "rwait"})
        /\ producer' = [p \in Producers |->
                          IF producer[p] = "rwait" THEN "send" ELSE producer[p]]
     \/ /\ ~holding[w].barrier
        /\ readers' = readers - 1
        /\ UNCHANGED <<writer, producer>>
  /\ worker' = [worker EXCEPT ![w] = "recv"]
  /\ holding' = [holding EXCEPT ![w] = NoTask]
  /\ UNCHANGED <<queued, workersNum, wg, queueClosed, results, stop,
                 monitorVars>>

\* Mutant: the worker returns without wg.Done.
ExitWithoutDone(w) ==
  /\ worker[w] = "recv" /\ queueClosed
  /\ worker' = [worker EXCEPT ![w] = "exit"]
  /\ UNCHANGED <<producerVars, holding, lockVars, workersNum, wg, queueClosed,
                 results, stop, monitorVars>>

\* The receive finds queueCh closed: wg.Done.  The Done that reaches zero
\* releases the goroutine that sleeps in wg.Wait.
Exit(w) ==
  /\ worker[w] = "recv" /\ queueClosed
  /\ worker' = [worker EXCEPT ![w] = "exit"]
  /\ wg' = wg - 1
  /\ stop' = IF wg' = 0 /\ stop = "waiting" THEN "woken" ELSE stop
  /\ UNCHANGED <<producerVars, holding, lockVars, workersNum, queueClosed,
                 results, monitorVars>>

(***************************************************************************)
(* stopAndWait, and the caller that closes resultCh after it.              *)
(***************************************************************************)

\* Mutant: stopAndWait while a producer may still be sending.
CloseQueueEarly ==
  /\ stop = "run" /\ monitor # "create"
  /\ \A p \in Producers : producer[p] \in {"idle", "send", "done"}
  /\ queueClosed' = TRUE /\ stop' = "wait"
  /\ UNCHANGED <<producerVars, holding, lockVars, worker, workersNum, wg,
                 results, monitorVars>>

\* close(p.queueCh): the callers do it when all their producers are done.
CloseQueue ==
  /\ stop = "run" /\ monitor # "create"
  /\ \A p \in Producers : producer[p] = "done"
  /\ queueClosed' = TRUE /\ stop' = "wait"
  /\ UNCHANGED <<producerVars, holding, lockVars, worker, workersNum, wg,
                 results, monitorVars>>

\* p.wg.Wait() returns at once when the counter is zero, else it sleeps.
Wait ==
  /\ stop = "wait"
  /\ stop' = IF wg = 0 THEN "stopMonitor" ELSE "waiting"
  /\ UNCHANGED <<producerVars, holding, lockVars, worker, workersNum, wg,
                 queueClosed, results, monitorVars>>

\* The released waiter checks the counter again: an Add in between makes the
\* WaitGroup panic ("WaitGroup is reused before previous Wait has returned").
WaitReturns ==
  /\ stop = "woken"
  /\ stop' = IF wg = 0 THEN "stopMonitor" ELSE "panicked"
  /\ UNCHANGED <<producerVars, holding, lockVars, worker, workersNum, wg,
                 queueClosed, results, monitorVars>>

\* close(p.stopMonitorCh), and stopAndWait returns.
StopMonitor ==
  /\ stop = "stopMonitor"
  /\ stop' = "stopped"
  /\ UNCHANGED <<producerVars, holding, lockVars, worker, workersNum, wg,
                 queueClosed, results, monitorVars>>

\* The caller closes resultCh (mirror and doCopySession do it right after).
CloseResults ==
  /\ stop = "stopped"
  /\ stop' = "closed"
  /\ UNCHANGED <<producerVars, holding, lockVars, worker, workersNum, wg,
                 queueClosed, results, monitorVars>>

-----------------------------------------------------------------------------
\* The process runs until the panic of a WaitGroup takes it down.
Running ==
  \/ \E w \in Workers :
       \/ AddWorker(w) \/ Read(w) \/ Return(w) \/ Deliver(w) \/ Unlock(w)
       \/ Exit(w)
  \/ \E p \in Producers :
       \/ \E b, s, e \in BOOLEAN : DoQueueTask(p, b, s, e)
       \/ RLock(p) \/ RLockWait(p) \/ LockAnnounce(p) \/ LockAcquire(p)
       \/ \E w \in Workers : Send(p, w)
       \/ Quit(p)
  \/ AddWorkerAtCap \/ StartMonitor \/ MonitorStop
  \/ \E improved \in BOOLEAN : MonitorTick(improved)
  \/ CloseQueue \/ Wait \/ WaitReturns \/ StopMonitor \/ CloseResults

Finished == stop \in {"closed", "panicked"} /\ UNCHANGED vars

Next == (stop # "panicked" /\ Running) \/ Finished

Spec == Init /\ [][Next]_vars

\* What a producer waits for: a lock, or a worker that receives.
ProducerWaits(p) ==
  \/ RLock(p) \/ RLockWait(p) \/ LockAnnounce(p) \/ LockAcquire(p)
  \/ \E w \in Workers : Send(p, w)

-----------------------------------------------------------------------------
(***************************************************************************)
(* Properties.                                                             *)
(***************************************************************************)

TypeOK ==
  /\ producer \in [Producers -> ProducerStates]
  /\ queued \in [Producers -> 0..MaxTasks]
  /\ holding \in [Producers \cup Workers -> Task \cup {NoTask}]
  /\ readers \in Int
  /\ writer \in {"free", "pending", "held"}
  /\ worker \in [Workers -> WorkerStates]
  /\ workersNum \in Nat /\ wg \in Int
  /\ queueClosed \in BOOLEAN
  /\ results \in [TaskIds -> Nat]
  /\ stop \in StopStates
  /\ monitor \in {"create", "select", "exit"}
  /\ adding \in Nat
  /\ retry \in 0..3 /\ (monitor # "exit" => retry < 3)
  /\ sent \in BOOLEAN

\* The promise of queueTaskWithBarrier ("ensure no tasks are executed in
\* parallel to this one"), for explicit barriers and for uploads that did not
\* fit in memory: from the hand-over to the Unlock, a barrier task is the only
\* task any worker carries.
BarrierExclusion ==
  \A v, w \in Workers :
    Busy(v) /\ Busy(w) /\ holding[v].barrier => v = w

\* Those inside barrierSync: a producer that has the lock and offers its task,
\* or the worker that took the task over.
Inside(x) ==
  \/ x \in Producers /\ producer[x] = "send"
  \/ x \in Workers /\ Busy(x)
SharedHolders ==
  {x \in Producers \cup Workers : Inside(x) /\ ~holding[x].barrier}
SoloHolders ==
  {x \in Producers \cup Workers : Inside(x) /\ holding[x].barrier}

\* The anonymous counters of the RWMutex agree with who is really inside,
\* across the hand-over from the producer that locked to the worker that
\* unlocks: no unlock of the wrong kind, none missed, none done twice.
LockMatchesHolders ==
  /\ readers = Cardinality(SharedHolders)
  /\ Cardinality(SoloHolders) = IF writer = "held" THEN 1 ELSE 0
  /\ writer = "held" => readers = 0

\* What makes the above inductive: who carries a task, of which kind, and who
\* is the announced writer.
CarriersMatch ==
  /\ \A p \in Producers :
       /\ holding[p] # NoTask <=> Queueing(p)
       /\ producer[p] \in {"rlock", "rwait"} => ~holding[p].barrier
       /\ producer[p] \in {"lock", "drain"} => holding[p].barrier
  /\ \A w \in Workers : holding[w] # NoTask <=> Busy(w)
  /\ \A p, q \in Producers :
       producer[p] = "drain" /\ producer[q] = "drain" => p = q
  /\ writer = "pending" <=> \E p \in Producers : producer[p] = "drain"

\* The hand-over of barrierSync, locked in doQueueTask by the producer and
\* unlocked in addWorker by the worker, never leaves a lock that nobody will
\* release and never releases a lock that nobody has.
LockInv == LockMatchesHolders /\ CarriersMatch

\* Nobody is about to send on queueCh or resultCh once it is closed (Go would
\* panic).
NoSendOnClosedChannel ==
  /\ queueClosed => \A p \in Producers : producer[p] # "send"
  /\ stop = "closed" => \A w \in Workers : worker[w] # "deliver"

\* There are never more worker goroutines than the cap of addWorker, whoever
\* asks for them and however often; workersNum counts them and the WaitGroup
\* counts those that have not exited.
WorkerCap ==
  /\ Cardinality({w \in Workers : worker[w] # "none"}) <= MaxWorkers
  /\ workersNum = Cardinality({w \in Workers : worker[w] # "none"})
  /\ wg = Cardinality({w \in Workers : worker[w] \notin {"none", "exit"}})

\* Every task that a producer passes to doQueueTask is eventually run and its
\* result delivered, barrier or not, also while others keep the lock busy.
QueuedIsDelivered ==
  \A p \in Producers, n \in 1..MaxTasks :
    queued[p] >= n ~> results[<<p, n>>] = 1

\* Once the producers are done, stopAndWait comes to an end and the results
\* are closed, with the monitor goroutine gone, unless the WaitGroup panics.
StopAndWaitEnds ==
  (\A p \in Producers : producer[p] = "done")
    ~> (stop = "closed" /\ monitor = "exit") \/ stop = "panicked"

\* The pool implements TaskPool: a task waits while its producer holds it, is
\* in hand while a worker holds it, and is over after the Unlock.
Carried(t, S) == {x \in S : holding[x] # NoTask /\ holding[x].id = t}
StatusOf(t) ==
  IF Carried(t, Producers) # {} THEN "waiting"
  ELSE IF Carried(t, Workers) = {}
       THEN IF results[t] = 0 THEN "new" ELSE "over"
       ELSE IF \E w \in Carried(t, Workers) : worker[w] = "unlock"
            THEN "delivered" ELSE "running"
SoloIds ==
  {t \in TaskIds :
     \E x \in Carried(t, Producers \cup Workers) : holding[x].barrier}
Pool == INSTANCE TaskPool WITH
          Ids <- TaskIds,
          status <- [t \in TaskIds |-> StatusOf(t)],
          solo <- SoloIds,
          closed <- stop = "closed"
ImplementsTaskPool == Pool!Spec

===============================================================================
