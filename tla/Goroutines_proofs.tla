--------------------------- MODULE Goroutines_proofs ---------------------------
(***************************************************************************)
(* Theorems about the machinery of every transfer: ParallelManager, for    *)
(* any finite sets of producers and workers and any number of tasks, and   *)
(* the chain of channels of a PipeChan, which stays within its bounds for  *)
(* every capacity and every number of elements.                            *)
(***************************************************************************)
EXTENDS ParallelManager, PipeChan, FiniteSetTheorems, TLAPS

-----------------------------------------------------------------------------
(***************************************************************************)
(* Type correctness.                                                       *)
(***************************************************************************)

LEMMA TypeInit == Init => TypeOK
<1> SUFFICES ASSUME Init PROVE TypeOK
  OBVIOUS
<1>1. /\ producer \in [Producers -> ProducerStates]
      /\ worker \in [Workers -> WorkerStates]
      /\ holding \in [Producers \cup Workers -> Task \cup {NoTask}]
  BY DEF Init, ProducerStates, WorkerStates
<1>2. queued \in [Producers -> 0..MaxTasks]
  BY PoolAssumption DEF Init
<1>3. results \in [TaskIds -> Nat]
  BY DEF Init
<1>4. queueClosed \in BOOLEAN /\ sent \in BOOLEAN
  BY Zenon DEF Init
<1> QED
  BY <1>1, <1>2, <1>3, <1>4, PoolAssumption DEF Init, TypeOK, StopStates

\* Counting one more keeps a function of counters one.
LEMMA CountUp ==
  ASSUME NEW S, NEW f \in [S -> Nat], NEW x
  PROVE  [f EXCEPT ![x] = f[x] + 1] \in [S -> Nat]
<1>1. CASE x \in S
  <2>1. f[x] + 1 \in Nat
    BY <1>1
  <2> QED
    BY <2>1
<1>2. CASE x \notin S
  BY <1>2
<1> QED
  BY <1>1, <1>2

\* One step per action; every action assigns values of the right type.
LEMMA TypeStep == TypeOK /\ [Next]_vars => TypeOK'
<1> SUFFICES ASSUME TypeOK, [Next]_vars PROVE TypeOK'
  OBVIOUS
<1> USE PoolAssumption
        DEF TypeOK, ProducerStates, WorkerStates, StopStates, producerVars,
            lockVars, monitorVars
<1>1. ASSUME NEW w \in Workers, AddWorker(w) PROVE TypeOK'
  BY <1>1 DEF AddWorker
<1>2. ASSUME NEW w \in Workers, Read(w) \/ Return(w) PROVE TypeOK'
  <2>1. sent' \in BOOLEAN
    BY Zenon, <1>2 DEF Read, Return
  <2>2. worker' \in [Workers -> WorkerStates]
    BY <1>2 DEF Read, Return
  <2>3. UNCHANGED <<producer, queued, holding, readers, writer, workersNum, wg,
                    queueClosed, results, stop, monitor, adding, retry>>
    BY Zenon, <1>2 DEF Read, Return
  <2> QED
    BY <2>1, <2>2, <2>3
<1>3. ASSUME NEW w \in Workers, Deliver(w) PROVE TypeOK'
  <2> DEFINE t == holding[w].id
  <2>1. results' = [results EXCEPT ![t] = results[t] + 1]
    BY <1>3 DEF Deliver
  <2>2. results' \in [TaskIds -> Nat]
    BY <2>1, CountUp
  <2> QED
    BY <1>3, <2>2 DEF Deliver
<1>4. ASSUME NEW w \in Workers, Unlock(w) PROVE TypeOK'
  <2>1. Cardinality({p \in Producers : producer[p] = "rwait"}) \in Nat
    BY FS_Subset, FS_CardinalityType
  <2> QED
    BY <1>4, <2>1 DEF Unlock
<1>5. ASSUME NEW w \in Workers, Exit(w) PROVE TypeOK'
  BY <1>5 DEF Exit
<1>6. ASSUME NEW p \in Producers, NEW b \in BOOLEAN, NEW s \in BOOLEAN,
             NEW e \in BOOLEAN, DoQueueTask(p, b, s, e)
      PROVE TypeOK'
  <2>1. [id |-> <<p, queued[p] + 1>>, barrier |-> b \/ ~e] \in Task
    BY <1>6 DEF DoQueueTask, Task, TaskIds
  <2> QED
    BY <1>6, <2>1 DEF DoQueueTask
<1>7. ASSUME NEW p \in Producers,
             RLock(p) \/ RLockWait(p) \/ LockAnnounce(p) \/ LockAcquire(p)
      PROVE TypeOK'
  BY <1>7 DEF RLock, RLockWait, LockAnnounce, LockAcquire
<1>8. ASSUME NEW p \in Producers, NEW w \in Workers, Send(p, w) PROVE TypeOK'
  BY <1>8 DEF Send
<1>9. ASSUME NEW p \in Producers, Quit(p) PROVE TypeOK'
  BY <1>9 DEF Quit
<1>10. CASE AddWorkerAtCap \/ StartMonitor \/ MonitorStop
  BY <1>10 DEF AddWorkerAtCap, StartMonitor, MonitorStop
<1>11. ASSUME NEW improved \in BOOLEAN, MonitorTick(improved) PROVE TypeOK'
  <2>1. sent' \in BOOLEAN
    BY Zenon, <1>11 DEF MonitorTick
  <2>2. retry' \in 0..3 /\ (monitor' # "exit" => retry' < 3)
        /\ monitor' \in {"create", "select", "exit"} /\ adding' \in Nat
    <3>1. retry < 3 /\ monitor = "select" /\ retry \in 0..3 /\ adding = 0
      BY <1>11 DEF MonitorTick
    <3>2. retry' = 0 \/ retry' = retry + 1
      BY <1>11 DEF MonitorTick
    <3>3. \/ retry' > 2 /\ monitor' = "exit" /\ adding' = adding
          \/ ~(retry' > 2) /\ monitor' = monitor
             /\ adding' = defaultWorkerFactor
      BY <1>11 DEF MonitorTick
    <3> QED
      BY <3>1, <3>2, <3>3
  <2> QED
    BY <1>11, <2>1, <2>2 DEF MonitorTick
<1>12. CASE CloseQueue \/ Wait \/ WaitReturns \/ StopMonitor \/ CloseResults
  BY <1>12 DEF CloseQueue, Wait, WaitReturns, StopMonitor, CloseResults
<1>13. CASE UNCHANGED vars
  BY <1>13 DEF vars
<1> QED
  BY <1>1, <1>2, <1>3, <1>4, <1>5, <1>6, <1>7, <1>8, <1>9, <1>10, <1>11,
     <1>12, <1>13 DEF Next, Running, Finished

\* Every variable of the pool keeps its type, the retries of the monitor stay
\* below their limit while it runs.
THEOREM TypeCorrect == Spec => []TypeOK
<1> QED
  BY TypeInit, TypeStep, PTL DEF Spec

-----------------------------------------------------------------------------
(***************************************************************************)
(* Who is inside barrierSync.                                              *)
(***************************************************************************)

LEMMA CardAdd ==
  ASSUME NEW S, IsFiniteSet(S), NEW x, x \notin S
  PROVE  Cardinality(S \cup {x}) = Cardinality(S) + 1
BY FS_AddElement

LEMMA CardRemove ==
  ASSUME NEW S, IsFiniteSet(S), NEW x \in S
  PROVE  Cardinality(S \ {x}) = Cardinality(S) - 1
BY FS_RemoveElement

\* Handing a place over from one holder to another keeps their number.
LEMMA CardSwap ==
  ASSUME NEW S, IsFiniteSet(S), NEW x \in S, NEW y, y \notin S
  PROVE  Cardinality((S \ {x}) \cup {y}) = Cardinality(S)
<1>1. IsFiniteSet(S \ {x}) /\ Cardinality(S \ {x}) = Cardinality(S) - 1
  BY FS_RemoveElement
<1>2. Cardinality((S \ {x}) \cup {y}) = Cardinality(S \ {x}) + 1
  BY <1>1, CardAdd
<1> QED
  BY <1>1, <1>2, FS_CardinalityType

LEMMA CardOne ==
  ASSUME NEW S, IsFiniteSet(S), Cardinality(S) = 1, NEW x \in S
  PROVE  S = {x}
BY FS_Singleton

LEMMA HoldersFinite ==
  /\ IsFiniteSet(SharedHolders) /\ IsFiniteSet(SoloHolders)
  /\ Cardinality(SharedHolders) \in Nat /\ Cardinality(SoloHolders) \in Nat
<1>1. IsFiniteSet(Producers \cup Workers)
  BY PoolAssumption, FS_Union
<1>2. /\ SharedHolders \in SUBSET (Producers \cup Workers)
      /\ SoloHolders \in SUBSET (Producers \cup Workers)
  BY DEF SharedHolders, SoloHolders
<1> QED
  BY <1>1, <1>2, FS_Subset, FS_CardinalityType

\* A step in which nobody enters or leaves and the carriers inside keep their
\* tasks keeps both sets of holders.
LEMMA SameHolders ==
  ASSUME \A x \in Producers \cup Workers :
           /\ Inside(x)' <=> Inside(x)
           /\ Inside(x) => holding'[x] = holding[x]
  PROVE  SharedHolders' = SharedHolders /\ SoloHolders' = SoloHolders
BY DEF SharedHolders, SoloHolders

\* The lock invariant depends on these values only.
LEMMA LockFrame ==
  ASSUME LockInv,
         SharedHolders' = SharedHolders, SoloHolders' = SoloHolders,
         UNCHANGED lockVars, CarriersMatch'
  PROVE  LockInv'
BY DEF LockInv, LockMatchesHolders, lockVars

LEMMA LockInit == Init => LockInv
<1> SUFFICES ASSUME Init PROVE LockInv
  OBVIOUS
<1>1. \A x \in Producers \cup Workers : ~Inside(x)
  BY DEF Init, Inside, Busy
<1>2. SharedHolders = {} /\ SoloHolders = {}
  BY <1>1 DEF SharedHolders, SoloHolders
<1>3. LockMatchesHolders
  BY <1>2, FS_EmptySet DEF Init, LockMatchesHolders
<1>4. CarriersMatch
  BY DEF Init, CarriersMatch, Queueing, Busy
<1> QED
  BY <1>3, <1>4 DEF LockInv

(***************************************************************************)
(* The steps of doQueueTask.                                               *)
(***************************************************************************)

\* Entering doQueueTask does not enter the lock.
LEMMA LockDoQueueTask ==
  ASSUME TypeOK, LockInv, NEW p \in Producers, NEW b \in BOOLEAN,
         NEW s \in BOOLEAN, NEW e \in BOOLEAN, DoQueueTask(p, b, s, e)
  PROVE  LockInv'
<1> DEFINE t == [id |-> <<p, queued[p] + 1>>, barrier |-> b \/ ~e]
<1>1. t \in Task /\ (t.barrier <=> (b \/ ~e)) /\ t # NoTask
  <2>1. t \in Task
    <3>1. <<p, queued[p] + 1>> \in TaskIds
      BY PoolAssumption DEF PoolAssumption, DoQueueTask, TaskIds, TypeOK
    <3>2. (b \/ ~e) \in BOOLEAN
      BY Zenon
    <3> QED
      BY Zenon, <3>1, <3>2 DEF Task
  <2>2. t.barrier = (b \/ ~e)
    BY Zenon
  <2> QED
    BY <2>1, <2>2, NoTaskAssumption
<1>2. /\ producer[p] = "idle"
      /\ producer' = [producer EXCEPT ![p] =
                        IF b \/ ~e THEN "lock" ELSE "rlock"]
      /\ holding' = [holding EXCEPT ![p] = t]
      /\ UNCHANGED <<readers, writer, worker>>
  BY DEF DoQueueTask, lockVars
<1> HIDE DEF t
<1>3. SharedHolders' = SharedHolders /\ SoloHolders' = SoloHolders
  BY <1>2, SameHolders, PoolAssumption DEF PoolAssumption, TypeOK, Inside, Busy
<1>4. CarriersMatch'
  BY <1>1, <1>2, PoolAssumption
     DEF PoolAssumption, TypeOK, LockInv, CarriersMatch, Queueing, Busy
<1> QED
  BY <1>2, <1>3, <1>4, LockFrame DEF lockVars

\* RLock lets one more shared holder in; RLockWait lets nobody in.
LEMMA LockRLock ==
  ASSUME TypeOK, LockInv, NEW p \in Producers, RLock(p) \/ RLockWait(p)
  PROVE  LockInv'
<1>1. CASE RLockWait(p)
  <2>1. SharedHolders' = SharedHolders /\ SoloHolders' = SoloHolders
    BY <1>1, SameHolders DEF RLockWait, TypeOK, Inside, Busy
  <2>2. CarriersMatch'
    BY <1>1
       DEF RLockWait, lockVars, TypeOK, LockInv, CarriersMatch, Queueing, Busy
  <2> QED
    BY <1>1, <2>1, <2>2, LockFrame DEF RLockWait
<1>2. CASE RLock(p)
  <2>1. /\ producer[p] = "rlock" /\ writer = "free" /\ ~holding[p].barrier
        /\ producer' = [producer EXCEPT ![p] = "send"]
        /\ readers' = readers + 1
        /\ UNCHANGED <<holding, writer, worker>>
    BY <1>2 DEF RLock, LockInv, CarriersMatch
  <2>2. p \notin SharedHolders
    BY <2>1, PoolAssumption DEF PoolAssumption, SharedHolders, Inside
  <2>3. /\ SharedHolders' = SharedHolders \cup {p}
        /\ SoloHolders' = SoloHolders
    BY <2>1 DEF SharedHolders, SoloHolders, Inside, Busy, TypeOK
  <2>4. LockMatchesHolders'
    BY <2>1, <2>2, <2>3, CardAdd, HoldersFinite
       DEF LockInv, LockMatchesHolders
  <2>5. CarriersMatch'
    BY <2>1 DEF TypeOK, LockInv, CarriersMatch, Queueing, Busy
  <2> QED
    BY <2>4, <2>5 DEF LockInv
<1> QED
  BY <1>1, <1>2

\* Announcing a writer lets nobody in; the writer gets in when nobody is.
LEMMA LockLock ==
  ASSUME TypeOK, LockInv, NEW p \in Producers, LockAnnounce(p) \/ LockAcquire(p)
  PROVE  LockInv'
<1>1. CASE LockAnnounce(p)
  <2>1. /\ producer[p] = "lock" /\ writer = "free" /\ writer' = "pending"
        /\ producer' = [producer EXCEPT ![p] = "drain"]
        /\ UNCHANGED <<holding, readers, worker>>
    BY <1>1 DEF LockAnnounce
  <2>2. SharedHolders' = SharedHolders /\ SoloHolders' = SoloHolders
    BY <2>1, SameHolders DEF TypeOK, Inside, Busy
  <2>3. CarriersMatch'
    BY <2>1 DEF TypeOK, LockInv, CarriersMatch, Queueing, Busy
  <2>4. LockMatchesHolders'
    BY <2>1, <2>2 DEF LockInv, LockMatchesHolders
  <2> QED
    BY <2>3, <2>4 DEF LockInv
<1>2. CASE LockAcquire(p)
  <2>1. /\ producer[p] = "drain" /\ readers = 0 /\ writer' = "held"
        /\ producer' = [producer EXCEPT ![p] = "send"]
        /\ UNCHANGED <<holding, readers, worker>>
    BY <1>2 DEF LockAcquire
  <2>2. writer = "pending" /\ holding[p].barrier
    BY <2>1 DEF LockInv, CarriersMatch
  <2>3. SoloHolders = {}
    BY <2>2, HoldersFinite, FS_EmptySet DEF LockInv, LockMatchesHolders
  <2>4. SharedHolders' = SharedHolders /\ SoloHolders' = {p}
    <3>1. SharedHolders' = SharedHolders
      BY <2>1, <2>2 DEF SharedHolders, Inside, Busy, TypeOK
    <3>2. SoloHolders' = SoloHolders \cup {p}
      BY <2>1, <2>2 DEF SoloHolders, Inside, Busy, TypeOK
    <3> QED
      BY <3>1, <3>2, <2>3
  <2>5. LockMatchesHolders'
    BY <2>1, <2>4, FS_Singleton DEF LockInv, LockMatchesHolders
  <2>6. CarriersMatch'
    BY <2>1, <2>2 DEF TypeOK, LockInv, CarriersMatch, Queueing, Busy
  <2> QED
    BY <2>5, <2>6 DEF LockInv
<1> QED
  BY <1>1, <1>2

\* The hand-over: the worker takes the place of the producer in the lock.
LEMMA LockSend ==
  ASSUME TypeOK, LockInv, NEW p \in Producers, NEW w \in Workers, Send(p, w)
  PROVE  LockInv'
<1>1. /\ producer[p] = "send" /\ worker[w] = "recv"
      /\ producer' = [producer EXCEPT ![p] = "idle"]
      /\ worker' = [worker EXCEPT ![w] = "run"]
      /\ holding' = [holding EXCEPT ![p] = NoTask, ![w] = holding[p]]
      /\ UNCHANGED lockVars
  BY DEF Send
<1>2. p # w /\ holding'[w] = holding[p] /\ holding'[p] = NoTask
      /\ \A x \in Producers \cup Workers :
           x # p /\ x # w => holding'[x] = holding[x]
  BY <1>1, PoolAssumption DEF PoolAssumption, TypeOK
<1>3. Inside(p) /\ ~Inside(w) /\ ~Inside(p)' /\ Inside(w)'
      /\ \A x \in Producers \cup Workers :
           x # p /\ x # w => (Inside(x)' <=> Inside(x))
  BY <1>1, PoolAssumption DEF PoolAssumption, TypeOK, Inside, Busy
<1>4. ASSUME holding[p].barrier
      PROVE  /\ Cardinality(SharedHolders') = Cardinality(SharedHolders)
             /\ Cardinality(SoloHolders') = Cardinality(SoloHolders)
  <2>1. /\ SharedHolders' = SharedHolders
        /\ SoloHolders' = (SoloHolders \ {p}) \cup {w}
        /\ p \in SoloHolders /\ w \notin SoloHolders
    BY <1>2, <1>3, <1>4 DEF SharedHolders, SoloHolders
  <2> QED
    BY <2>1, CardSwap, HoldersFinite
<1>5. ASSUME ~holding[p].barrier
      PROVE  /\ Cardinality(SharedHolders') = Cardinality(SharedHolders)
             /\ Cardinality(SoloHolders') = Cardinality(SoloHolders)
  <2>1. /\ SoloHolders' = SoloHolders
        /\ SharedHolders' = (SharedHolders \ {p}) \cup {w}
        /\ p \in SharedHolders /\ w \notin SharedHolders
    BY <1>2, <1>3, <1>5 DEF SharedHolders, SoloHolders
  <2> QED
    BY <2>1, CardSwap, HoldersFinite
<1>6. LockMatchesHolders'
  BY <1>1, <1>4, <1>5 DEF LockInv, LockMatchesHolders, lockVars
<1>7. CarriersMatch'
  <2>1. \A q \in Producers :
          /\ holding'[q] # NoTask <=> Queueing(q)'
          /\ producer'[q] \in {"rlock", "rwait"} => ~holding'[q].barrier
          /\ producer'[q] \in {"lock", "drain"} => holding'[q].barrier
    <3> TAKE q \in Producers
    <3>1. CASE q = p
      BY <1>1, <1>2, <3>1 DEF TypeOK, Queueing
    <3>2. CASE q # p
      <4>1. holding'[q] = holding[q] /\ producer'[q] = producer[q]
        BY <1>1, <1>2, <3>2, PoolAssumption DEF PoolAssumption, TypeOK
      <4> QED
        BY <4>1 DEF LockInv, CarriersMatch, Queueing
    <3> QED
      BY <3>1, <3>2
  <2>2. \A v \in Workers : holding'[v] # NoTask <=> Busy(v)'
    <3> TAKE v \in Workers
    <3>1. CASE v = w
      BY <1>1, <1>2, <3>1 DEF TypeOK, LockInv, CarriersMatch, Queueing, Busy
    <3>2. CASE v # w
      <4>1. holding'[v] = holding[v] /\ worker'[v] = worker[v]
        BY <1>1, <1>2, <3>2, PoolAssumption DEF PoolAssumption, TypeOK
      <4> QED
        BY <4>1 DEF LockInv, CarriersMatch, Busy
    <3> QED
      BY <3>1, <3>2
  <2>3. \A q \in Producers : producer'[q] = "drain" <=> producer[q] = "drain"
    BY <1>1 DEF TypeOK
  <2> QED
    BY <1>1, <2>1, <2>2, <2>3 DEF LockInv, CarriersMatch, lockVars
<1> QED
  BY <1>6, <1>7 DEF LockInv

(***************************************************************************)
(* The steps of a worker.                                                  *)
(***************************************************************************)

\* A worker with a task keeps its place until its unlock.
LEMMA LockWorker ==
  ASSUME TypeOK, LockInv, NEW w \in Workers,
         AddWorker(w) \/ Return(w) \/ Deliver(w) \/ Exit(w)
  PROVE  LockInv'
<1>1. /\ UNCHANGED <<producer, holding, readers, writer>>
      /\ \E next \in WorkerStates :
           /\ worker' = [worker EXCEPT ![w] = next]
           /\ next \in {"run", "deliver", "unlock"} <=> Busy(w)
  BY DEF AddWorker, Return, Deliver, Exit, producerVars, lockVars, Busy,
         WorkerStates
<1>2. \A v \in Workers : Busy(v)' <=> Busy(v)
  BY <1>1 DEF TypeOK, Busy
<1>3. SharedHolders' = SharedHolders /\ SoloHolders' = SoloHolders
  BY <1>1, <1>2, SameHolders DEF Inside
<1>4. CarriersMatch'
  BY <1>1, <1>2 DEF LockInv, CarriersMatch, Queueing
<1> QED
  BY <1>1, <1>3, <1>4, LockFrame DEF lockVars

\* The unlock of the worker ends what the lock of the producer began.
LEMMA LockUnlock ==
  ASSUME TypeOK, LockInv, NEW w \in Workers, Unlock(w)
  PROVE  LockInv'
<1>1. /\ worker[w] = "unlock"
      /\ worker' = [worker EXCEPT ![w] = "recv"]
      /\ holding' = [holding EXCEPT ![w] = NoTask]
  BY DEF Unlock
<1>2. Busy(w) /\ ~Busy(w)' /\ \A v \in Workers : v # w => (Busy(v)' <=> Busy(v))
  BY <1>1 DEF TypeOK, Busy
<1>3. holding'[w] = NoTask
      /\ \A x \in Producers \cup Workers : x # w => holding'[x] = holding[x]
  BY <1>1 DEF TypeOK
<1>4. w \notin Producers
  BY PoolAssumption DEF PoolAssumption
<1>5. \A v \in Workers : holding'[v] # NoTask <=> Busy(v)'
  BY <1>2, <1>3 DEF LockInv, CarriersMatch
<1>6. ASSUME holding[w].barrier PROVE LockInv'
  <2> DEFINE sleeping == {p \in Producers : producer[p] = "rwait"}
  <2>1. /\ writer' = "free" /\ readers' = Cardinality(sleeping)
        /\ producer' = [p \in Producers |->
                          IF producer[p] = "rwait" THEN "send" ELSE producer[p]]
    BY <1>6 DEF Unlock
  <2>2. w \in SoloHolders
    BY <1>2, <1>6 DEF SoloHolders, Inside
  <2>3. Cardinality(SoloHolders) = 1 /\ writer = "held" /\ readers = 0
    <3>1. Cardinality(SoloHolders) # 0
      BY <2>2, HoldersFinite, FS_EmptySet
    <3> QED
      BY <3>1 DEF LockInv, LockMatchesHolders
  <2>4. SoloHolders = {w} /\ SharedHolders = {}
    BY <2>2, <2>3, CardOne, HoldersFinite, FS_EmptySet
       DEF LockInv, LockMatchesHolders
  <2>5. \A x \in Producers \cup Workers : Inside(x) => x = w
    BY <2>4 DEF SharedHolders, SoloHolders
  <2>6. \A x \in Producers \cup Workers : Inside(x)' <=> x \in sleeping
    BY <1>2, <1>4, <2>1, <2>5 DEF Inside
  <2>7. \A p \in sleeping : ~holding'[p].barrier
    BY <1>3, <1>4 DEF LockInv, CarriersMatch
  <2>8. SharedHolders' = sleeping /\ SoloHolders' = {}
    BY <2>6, <2>7 DEF SharedHolders, SoloHolders
  <2>9. LockMatchesHolders'
    BY <2>1, <2>8, FS_EmptySet DEF LockMatchesHolders
  <2>10. CarriersMatch'
    <3>1. \A p \in Producers : holding'[p] = holding[p]
      BY <1>3, <1>4
    <3>2. \A p \in Producers : producer[p] # "drain" /\ producer'[p] # "drain"
      BY <2>1, <2>3 DEF LockInv, CarriersMatch
    <3> QED
      BY <1>5, <2>1, <3>1, <3>2 DEF LockInv, CarriersMatch, Queueing
  <2> QED
    BY <2>9, <2>10 DEF LockInv
<1>7. ASSUME ~holding[w].barrier PROVE LockInv'
  <2>1. readers' = readers - 1 /\ UNCHANGED <<writer, producer>>
    BY <1>7 DEF Unlock
  <2>2. w \in SharedHolders
    BY <1>2, <1>7 DEF SharedHolders, Inside
  <2>3. SharedHolders' = SharedHolders \ {w} /\ SoloHolders' = SoloHolders
    BY <1>2, <1>3, <1>4, <1>7, <2>1 DEF SharedHolders, SoloHolders, Inside
  <2>4. readers # 0 /\ writer # "held"
    BY <2>2, HoldersFinite, FS_EmptySet DEF LockInv, LockMatchesHolders
  <2>5. LockMatchesHolders'
    BY <2>1, <2>2, <2>3, <2>4, CardRemove, HoldersFinite
       DEF LockInv, LockMatchesHolders
  <2>6. CarriersMatch'
    BY <1>3, <1>4, <1>5, <2>1 DEF LockInv, CarriersMatch, Queueing
  <2> QED
    BY <2>5, <2>6 DEF LockInv
<1> QED
  BY <1>6, <1>7

\* The other steps do not touch the lock or its holders.
LEMMA LockOther ==
  ASSUME LockInv, holding' = holding, readers' = readers, writer' = writer,
         worker' = worker,
         \A p \in Producers :
           \/ producer'[p] = producer[p]
           \/ producer[p] = "idle" /\ producer'[p] = "done"
  PROVE  LockInv'
<1>1. SharedHolders' = SharedHolders /\ SoloHolders' = SoloHolders
  BY SameHolders DEF Inside, Busy
<1>2. CarriersMatch'
  BY DEF LockInv, CarriersMatch, Queueing, Busy
<1> QED
  BY <1>1, <1>2, LockFrame DEF lockVars

LEMMA LockStep == TypeOK /\ LockInv /\ [Next]_vars => LockInv'
<1> SUFFICES ASSUME TypeOK, LockInv, [Next]_vars PROVE LockInv'
  OBVIOUS
<1>1. ASSUME NEW p \in Producers, Quit(p) PROVE LockInv'
  BY <1>1, LockOther DEF Quit, lockVars, TypeOK
<1>2. ASSUME NEW w \in Workers, Read(w) PROVE LockInv'
  BY <1>2, LockOther DEF Read, producerVars, lockVars
<1>3. CASE AddWorkerAtCap \/ StartMonitor \/ MonitorStop
  BY <1>3, LockOther
     DEF AddWorkerAtCap, StartMonitor, MonitorStop, producerVars, lockVars
<1>4. ASSUME NEW improved \in BOOLEAN, MonitorTick(improved) PROVE LockInv'
  BY <1>4, LockOther DEF MonitorTick, producerVars, lockVars
<1>5. CASE CloseQueue \/ Wait \/ WaitReturns \/ StopMonitor \/ CloseResults
  BY <1>5, LockOther
     DEF CloseQueue, Wait, WaitReturns, StopMonitor, CloseResults,
         producerVars, lockVars
<1>6. CASE UNCHANGED vars
  BY <1>6, LockOther DEF vars, producerVars, lockVars
<1> QED
  BY <1>1, <1>2, <1>3, <1>4, <1>5, <1>6, LockDoQueueTask, LockRLock, LockLock,
     LockSend, LockWorker, LockUnlock DEF Next, Running, Finished

\* The anonymous counters of barrierSync always agree with the producers and
\* workers inside, although the lock is taken by one and released by another.
THEOREM LockBalanced == Spec => []LockInv
<1> QED
  BY LockInit, LockStep, TypeCorrect, PTL DEF Spec

\* The promise of queueTaskWithBarrier: nothing runs in parallel to a barrier
\* task, for any number of producers, workers and tasks.
THEOREM BarrierIsExclusive == Spec => []BarrierExclusion
<1>1. LockInv => BarrierExclusion
  <2> SUFFICES ASSUME LockInv, NEW v \in Workers, NEW w \in Workers,
                      Busy(v), Busy(w), holding[v].barrier
               PROVE  v = w
    BY DEF BarrierExclusion
  <2>1. v \in SoloHolders
    BY DEF SoloHolders, Inside
  <2>2. Cardinality(SoloHolders) = 1 /\ readers = 0
    <3>1. Cardinality(SoloHolders) # 0
      BY <2>1, HoldersFinite, FS_EmptySet
    <3> QED
      BY <3>1 DEF LockInv, LockMatchesHolders
  <2>3. SoloHolders = {v} /\ SharedHolders = {}
    BY <2>1, <2>2, CardOne, HoldersFinite, FS_EmptySet
       DEF LockInv, LockMatchesHolders
  <2>4. w \in SoloHolders \/ w \in SharedHolders
    BY DEF SoloHolders, SharedHolders, Inside
  <2> QED
    BY <2>3, <2>4
<1> QED
  BY <1>1, LockBalanced, PTL

-----------------------------------------------------------------------------
(***************************************************************************)
(* How many workers there are, and when the channels may be closed.        *)
(***************************************************************************)
Started == {w \in Workers : worker[w] # "none"}
Alive == {w \in Workers : worker[w] \notin {"none", "exit"}}

\* Once queueCh is closed every producer is done, and once stopAndWait has
\* waited no worker carries a task (the monitor may still add idle ones).
ClosedInv ==
  /\ stop # "run" => queueClosed
  /\ queueClosed => \A p \in Producers : producer[p] = "done"
  /\ stop \in {"stopMonitor", "stopped", "closed"} =>
       \A w \in Workers : ~Busy(w)

LEMMA WorkersFinite == IsFiniteSet(Started) /\ IsFiniteSet(Alive)
<1>1. Started \subseteq Workers /\ Alive \subseteq Workers
  BY DEF Started, Alive
<1> QED
  BY <1>1, FS_Subset, PoolAssumption DEF PoolAssumption

LEMMA WorkerCapOf ==
  WorkerCap <=> /\ Cardinality(Started) <= MaxWorkers
                /\ workersNum = Cardinality(Started)
                /\ wg = Cardinality(Alive)
BY DEF WorkerCap, Started, Alive

\* No worker starts or exits.
LEMMA SameWorkers ==
  ASSUME WorkerCap, workersNum' = workersNum, wg' = wg,
         \A w \in Workers : /\ worker'[w] = "none" <=> worker[w] = "none"
                            /\ worker'[w] = "exit" <=> worker[w] = "exit"
  PROVE  WorkerCap'
<1>1. Started' = Started /\ Alive' = Alive
  BY DEF Started, Alive
<1> QED
  BY <1>1, WorkerCapOf DEF WorkerCap, Started, Alive

LEMMA CapInit == Init => WorkerCap /\ ClosedInv
<1> SUFFICES ASSUME Init PROVE WorkerCap /\ ClosedInv
  OBVIOUS
<1>1. Started = {} /\ Alive = {}
  BY DEF Init, Started, Alive
<1>2. Cardinality(Started) = 0 /\ Cardinality(Alive) = 0
  BY <1>1, FS_EmptySet
<1>3. WorkerCap
  BY <1>2, WorkerCapOf, PoolAssumption DEF Init, PoolAssumption
<1>4. ClosedInv
  BY DEF Init, ClosedInv
<1> QED
  BY <1>3, <1>4

\* The steps that change how many workers there are.
LEMMA CapAddWorker ==
  ASSUME TypeOK, WorkerCap, NEW w \in Workers, AddWorker(w)
  PROVE  WorkerCap'
<1>1. /\ Started' = Started \cup {w} /\ w \notin Started
      /\ Alive' = Alive \cup {w} /\ w \notin Alive
  BY DEF AddWorker, Started, Alive, TypeOK
<1>2. /\ Cardinality(Started') = Cardinality(Started) + 1
      /\ Cardinality(Alive') = Cardinality(Alive) + 1
  BY <1>1, CardAdd, WorkersFinite
<1>3. Cardinality(Started) \in Nat
  BY WorkersFinite, FS_CardinalityType
<1>4. workersNum < MaxWorkers /\ workersNum' = workersNum + 1 /\ wg' = wg + 1
  BY DEF AddWorker
<1>5. /\ Cardinality(Started') <= MaxWorkers
      /\ workersNum' = Cardinality(Started') /\ wg' = Cardinality(Alive')
  BY <1>2, <1>3, <1>4, WorkerCapOf, PoolAssumption DEF PoolAssumption
<1> QED
  BY <1>5 DEF WorkerCap, Started, Alive

LEMMA CapExit ==
  ASSUME TypeOK, WorkerCap, NEW w \in Workers, Exit(w)
  PROVE  WorkerCap'
<1>1. Started' = Started /\ Alive' = Alive \ {w} /\ w \in Alive
  BY DEF Exit, Started, Alive, TypeOK
<1>2. Cardinality(Alive') = Cardinality(Alive) - 1
  BY <1>1, CardRemove, WorkersFinite
<1>3. workersNum' = workersNum /\ wg' = wg - 1
  BY DEF Exit
<1>4. /\ Cardinality(Started') <= MaxWorkers
      /\ workersNum' = Cardinality(Started') /\ wg' = Cardinality(Alive')
  BY <1>1, <1>2, <1>3, WorkerCapOf
<1> QED
  BY <1>4 DEF WorkerCap, Started, Alive

LEMMA CapStep == TypeOK /\ WorkerCap /\ [Next]_vars => WorkerCap'
<1> SUFFICES ASSUME TypeOK, WorkerCap, [Next]_vars PROVE WorkerCap'
  OBVIOUS
<1>1. ASSUME NEW w \in Workers, Read(w) \/ Return(w) \/ Deliver(w) \/ Unlock(w)
      PROVE  WorkerCap'
  BY <1>1, SameWorkers DEF Read, Return, Deliver, Unlock, TypeOK
<1>2. ASSUME NEW p \in Producers, NEW w \in Workers, Send(p, w)
      PROVE  WorkerCap'
  BY <1>2, SameWorkers DEF Send, TypeOK
<1>3. ASSUME NEW p \in Producers,
             \/ \E b, s, e \in BOOLEAN : DoQueueTask(p, b, s, e)
             \/ RLock(p) \/ RLockWait(p) \/ LockAnnounce(p) \/ LockAcquire(p)
             \/ Quit(p)
      PROVE  WorkerCap'
  BY <1>3, SameWorkers
     DEF DoQueueTask, RLock, RLockWait, LockAnnounce, LockAcquire, Quit
<1>4. CASE \/ AddWorkerAtCap \/ StartMonitor \/ MonitorStop
           \/ \E improved \in BOOLEAN : MonitorTick(improved)
  BY <1>4, SameWorkers
  DEF AddWorkerAtCap, StartMonitor, MonitorStop, MonitorTick
<1>5. CASE CloseQueue \/ Wait \/ WaitReturns \/ StopMonitor \/ CloseResults
  BY <1>5, SameWorkers
     DEF CloseQueue, Wait, WaitReturns, StopMonitor, CloseResults
<1>6. CASE UNCHANGED vars
  BY <1>6, SameWorkers DEF vars
<1> QED
  BY <1>1, <1>2, <1>3, <1>4, <1>5, <1>6, CapAddWorker, CapExit
     DEF Next, Running, Finished

\* The cap of addWorker bounds the goroutines that really run, and both
\* counters agree with them, whatever the monitor asks for and until the end.
THEOREM CapKept == Spec => []WorkerCap
<1> QED
  BY CapInit, CapStep, TypeCorrect, PTL DEF Spec

\* The counter of the WaitGroup is zero only when no worker is alive.
LEMMA AllExited ==
  ASSUME WorkerCap, wg = 0
  PROVE  \A w \in Workers : ~Busy(w)
<1>1. Alive = {}
  BY WorkerCapOf, WorkersFinite, FS_EmptySet
<1> QED
  BY <1>1 DEF Alive, Busy

LEMMA ClosedStep == TypeOK /\ WorkerCap /\ ClosedInv /\ [Next]_vars => ClosedInv'
<1> SUFFICES ASSUME TypeOK, WorkerCap, ClosedInv, [Next]_vars PROVE ClosedInv'
  OBVIOUS
<1> USE DEF ClosedInv
<1>1. ASSUME NEW w \in Workers, AddWorker(w) PROVE ClosedInv'
  BY <1>1 DEF AddWorker, producerVars, Busy, TypeOK
<1>2. ASSUME NEW w \in Workers, Read(w) \/ Return(w) \/ Deliver(w)
      PROVE  ClosedInv'
  BY <1>2 DEF Read, Return, Deliver, producerVars, Busy, TypeOK
<1>3. ASSUME NEW w \in Workers, Unlock(w) PROVE ClosedInv'
  BY <1>3 DEF Unlock, Busy, TypeOK
<1>4. ASSUME NEW w \in Workers, Exit(w) PROVE ClosedInv'
  BY <1>4 DEF Exit, producerVars, Busy, TypeOK
<1>5. ASSUME NEW p \in Producers, NEW w \in Workers, Send(p, w)
      PROVE  ClosedInv'
  BY <1>5 DEF Send, Busy, TypeOK
<1>6. ASSUME NEW p \in Producers,
             \/ \E b, s, e \in BOOLEAN : DoQueueTask(p, b, s, e)
             \/ RLock(p) \/ RLockWait(p) \/ LockAnnounce(p) \/ LockAcquire(p)
             \/ Quit(p)
      PROVE  ClosedInv'
  BY <1>6
     DEF DoQueueTask, RLock, RLockWait, LockAnnounce, LockAcquire, Quit, Busy,
         TypeOK
<1>7. CASE \/ AddWorkerAtCap \/ StartMonitor \/ MonitorStop
           \/ \E improved \in BOOLEAN : MonitorTick(improved)
  BY <1>7
     DEF AddWorkerAtCap, StartMonitor, MonitorStop, MonitorTick, producerVars,
         Busy
<1>8. CASE CloseQueue
  BY <1>8 DEF CloseQueue, producerVars, Busy
<1>9. CASE Wait \/ WaitReturns
  <2>1. wg = 0 => \A w \in Workers : ~Busy(w)
    BY AllExited
  <2> QED
    BY <1>9, <2>1 DEF Wait, WaitReturns, producerVars, Busy
<1>10. CASE StopMonitor \/ CloseResults
  BY <1>10 DEF StopMonitor, CloseResults, producerVars, Busy
<1>11. CASE UNCHANGED vars
  BY <1>11 DEF vars, producerVars, Busy
<1> QED
  BY <1>1, <1>2, <1>3, <1>4, <1>5, <1>6, <1>7, <1>8, <1>9, <1>10, <1>11
     DEF Next, Running, Finished

\* No producer sends on queueCh after close(queueCh), no worker sends on
\* resultCh after the caller of stopAndWait has closed it.
THEOREM NoSendOnClosed == Spec => []NoSendOnClosedChannel
<1>1. ClosedInv => NoSendOnClosedChannel
  BY DEF ClosedInv, NoSendOnClosedChannel, Busy
<1>2. Spec => []ClosedInv
  BY CapInit, ClosedStep, CapKept, TypeCorrect, PTL DEF Spec
<1> QED
  BY <1>1, <1>2, PTL

-----------------------------------------------------------------------------
(***************************************************************************)
(* The pool implements TaskPool.                                           *)
(***************************************************************************)
Carriers == Producers \cup Workers

\* The mapped state: a task is free while nobody carries it.
St == [t \in TaskIds |-> StatusOf(t)]
FreeIds == {t \in TaskIds : \A x \in Carriers :
                              holding[x] = NoTask \/ holding[x].id # t}

\* Nobody carries the task of another, a task that is carried has a result
\* exactly when its worker is about to unlock, and a task that is not queued
\* yet has none and is free.
IdInv ==
  /\ \A x, y \in Carriers :
       holding[x] # NoTask /\ holding[y] # NoTask
         /\ holding[x].id = holding[y].id => x = y
  /\ \A p \in Producers :
       holding[p] # NoTask => results[holding[p].id] = 0
  /\ \A w \in Workers :
       holding[w] # NoTask =>
         (results[holding[w].id] = 0 <=> worker[w] # "unlock")
  /\ \A p \in Producers, n \in 1..MaxTasks :
       n > queued[p] => results[<<p, n>>] = 0 /\ <<p, n>> \in FreeIds

LEMMA IdInit == Init => IdInv
BY PoolAssumption
   DEF Init, IdInv, FreeIds, Carriers, TaskIds, PoolAssumption

LEMMA HoldingType ==
  ASSUME TypeOK, NEW x \in Carriers, holding[x] # NoTask
  PROVE  holding[x].id \in TaskIds /\ holding[x].barrier \in BOOLEAN
BY DEF TypeOK, Carriers, Task

\* What a task's status is, by who carries it.
StatusRule ==
  /\ \A p \in Producers :
       holding[p] # NoTask => St[holding[p].id] = "waiting"
  /\ \A w \in Workers :
       holding[w] # NoTask =>
         St[holding[w].id] = IF worker[w] = "unlock" THEN "delivered"
                             ELSE "running"
  /\ \A t \in FreeIds : St[t] = IF results[t] = 0 THEN "new" ELSE "over"

LEMMA StatusOfQueued ==
  ASSUME NEW t \in TaskIds, Carried(t, Producers) # {}
  PROVE  St[t] = "waiting"
BY DEF St, StatusOf

LEMMA StatusOfRunning ==
  ASSUME NEW t \in TaskIds, NEW w \in Workers,
         Carried(t, Producers) = {}, Carried(t, Workers) = {w}
  PROVE  St[t] = IF worker[w] = "unlock" THEN "delivered" ELSE "running"
BY DEF St, StatusOf

LEMMA StatusRules == TypeOK /\ IdInv => StatusRule
<1> SUFFICES ASSUME TypeOK, IdInv PROVE StatusRule
  OBVIOUS
<1>1. ASSUME NEW p \in Producers, holding[p] # NoTask
      PROVE  St[holding[p].id] = "waiting"
  <2>1. holding[p].id \in TaskIds
    BY <1>1, HoldingType DEF Carriers
  <2>2. Carried(holding[p].id, Producers) # {}
    BY <1>1 DEF Carried
  <2> QED
    BY <2>1, <2>2, StatusOfQueued
<1>2. ASSUME NEW w \in Workers, holding[w] # NoTask
      PROVE  St[holding[w].id] = IF worker[w] = "unlock" THEN "delivered"
                                 ELSE "running"
  <2>1. holding[w].id \in TaskIds
    BY <1>2, HoldingType DEF Carriers
  <2>2. Carried(holding[w].id, Producers) = {}
    BY <1>2, PoolAssumption DEF Carried, IdInv, Carriers, PoolAssumption
  <2>3. Carried(holding[w].id, Workers) = {w}
    BY <1>2 DEF Carried, IdInv, Carriers
  <2> QED
    BY <2>1, <2>2, <2>3, StatusOfRunning
<1>3. ASSUME NEW t \in FreeIds
      PROVE  St[t] = IF results[t] = 0 THEN "new" ELSE "over"
  <2>1. Carried(t, Producers) = {} /\ Carried(t, Workers) = {}
    BY DEF FreeIds, Carried, Carriers
  <2> QED
    BY <2>1 DEF St, StatusOf, FreeIds
<1> QED
  BY <1>1, <1>2, <1>3 DEF StatusRule

LEMMA StatusRulesNext == TypeOK' /\ IdInv' => StatusRule'
BY StatusRules, PTL

\* A step that moves no task, delivers nothing and unlocks nothing.
LEMMA IdFrame ==
  ASSUME TypeOK, IdInv, UNCHANGED <<holding, results, queued>>,
         \A w \in Workers : worker'[w] = "unlock" <=> worker[w] = "unlock"
  PROVE  IdInv' /\ St' = St /\ SoloIds' = SoloIds
<1>1. FreeIds' = FreeIds
  BY DEF FreeIds
<1>2. IdInv'
  BY <1>1 DEF IdInv
<1>3. \A t \in TaskIds : StatusOf(t)' = StatusOf(t)
  BY DEF StatusOf, Carried
<1>4. St' = St
  BY <1>3 DEF St
<1>5. SoloIds' = SoloIds
  BY DEF SoloIds, Carried
<1> QED
  BY <1>2, <1>4, <1>5

\* What the steps of the pool assume.
PoolInv == TypeOK /\ LockInv /\ ClosedInv /\ IdInv

\* Every carrier is a producer or a worker, and no producer is a worker.
LEMMA CarrierKinds ==
  /\ \A p \in Producers : p \in Carriers /\ p \notin Workers
  /\ \A w \in Workers : w \in Carriers /\ w \notin Producers
BY PoolAssumption DEF Carriers, PoolAssumption

\* A task is free or somebody carries it.
LEMMA FreeOrCarried ==
  ASSUME NEW u \in TaskIds, u \notin FreeIds
  PROVE  \/ \E p \in Producers : holding[p] # NoTask /\ holding[p].id = u
         \/ \E w \in Workers : holding[w] # NoTask /\ holding[w].id = u
BY DEF FreeIds, Carriers

\* doQueueTask submits a task.
LEMMA SubmitMaps ==
  ASSUME PoolInv, TypeOK', NEW p \in Producers,
         NEW b \in BOOLEAN, NEW s \in BOOLEAN, NEW e \in BOOLEAN,
         DoQueueTask(p, b, s, e)
  PROVE  IdInv' /\ \E t \in TaskIds, alone \in BOOLEAN :
                     /\ St[t] = "new" /\ stop # "closed" /\ stop' = stop
                     /\ St' = [St EXCEPT ![t] = "waiting"]
                     /\ SoloIds' = IF alone THEN SoloIds \cup {t} ELSE SoloIds
<1> DEFINE n == queued[p] + 1
           t == <<p, n>>
           alone == b \/ ~e
           task == [id |-> t, barrier |-> alone]
<1>1. t \in TaskIds /\ n \in 1..MaxTasks /\ n > queued[p] /\ alone \in BOOLEAN
  <2>1. queued[p] \in 0..MaxTasks /\ queued[p] < MaxTasks
    BY DEF DoQueueTask, PoolInv, TypeOK
  <2>2. n \in 1..MaxTasks /\ n > queued[p]
    BY <2>1, PoolAssumption DEF PoolAssumption
  <2>3. alone \in BOOLEAN
    BY Zenon
  <2> QED
    BY <2>2, <2>3 DEF TaskIds
<1>2. /\ holding' = [holding EXCEPT ![p] = task]
      /\ queued' = [queued EXCEPT ![p] = n]
      /\ worker' = worker /\ results' = results /\ stop' = stop
  BY Zenon DEF DoQueueTask
<1>3. holding[p] = NoTask /\ stop # "closed"
  BY DEF DoQueueTask, PoolInv, LockInv, CarriersMatch, Queueing, ClosedInv
<1>4. t \in FreeIds /\ results[t] = 0
  BY <1>1 DEF PoolInv, IdInv
<1>5. task # NoTask
  <2>1. task \in Task
    BY <1>1 DEF Task
  <2> QED
    BY <2>1, NoTaskAssumption
<1>6. task.id = t /\ task.barrier = alone
  BY Zenon
<1> HIDE DEF n, t, alone, task
<1>7. p \in Carriers /\ p \notin Workers
  BY CarrierKinds
<1>8. /\ holding'[p] = task
      /\ \A x \in Carriers : x # p => holding'[x] = holding[x]
      /\ queued'[p] = n
      /\ \A q \in Producers : q # p => queued'[q] = queued[q]
  BY <1>2, <1>7 DEF PoolInv, TypeOK, Carriers
<1>9. FreeIds' = FreeIds \ {t}
  <2>1. ASSUME NEW u \in TaskIds PROVE u \in FreeIds' <=> u \in FreeIds /\ u # t
    BY <1>3, <1>5, <1>6, <1>7, <1>8 DEF FreeIds
  <2> QED
    BY <2>1 DEF FreeIds
<1>10. IdInv'
  <2>1. \A x, y \in Carriers :
          holding'[x] # NoTask /\ holding'[y] # NoTask
            /\ holding'[x].id = holding'[y].id => x = y
    BY <1>4, <1>6, <1>8 DEF PoolInv, IdInv, FreeIds
  <2>2. \A q \in Producers :
          holding'[q] # NoTask => results'[holding'[q].id] = 0
    BY <1>2, <1>4, <1>6, <1>8, CarrierKinds DEF PoolInv, IdInv
  <2>3. \A w \in Workers :
          holding'[w] # NoTask =>
            (results'[holding'[w].id] = 0 <=> worker'[w] # "unlock")
    BY <1>2, <1>7, <1>8, CarrierKinds DEF PoolInv, IdInv
  <2>4. \A q \in Producers, m \in 1..MaxTasks :
          m > queued'[q] => results'[<<q, m>>] = 0 /\ <<q, m>> \in FreeIds'
    <3> SUFFICES ASSUME NEW q \in Producers, NEW m \in 1..MaxTasks,
                        m > queued'[q]
                 PROVE  results'[<<q, m>>] = 0 /\ <<q, m>> \in FreeIds'
      OBVIOUS
    <3>1. m > queued[q] /\ <<q, m>> # t
      <4>1. queued[q] \in 0..MaxTasks
        BY DEF PoolInv, TypeOK
      <4> QED
        BY <4>1, <1>1, <1>8 DEF t, n
    <3> QED
      BY <3>1, <1>2, <1>9 DEF PoolInv, IdInv
  <2> QED
    BY <2>1, <2>2, <2>3, <2>4 DEF IdInv
<1>11. StatusRule /\ StatusRule'
  BY <1>10, StatusRules, StatusRulesNext DEF PoolInv
<1>12. \A u \in TaskIds : St'[u] = IF u = t THEN "waiting" ELSE St[u]
  <2> SUFFICES ASSUME NEW u \in TaskIds
               PROVE  St'[u] = IF u = t THEN "waiting" ELSE St[u]
    OBVIOUS
  <2>1. CASE u = t
    BY <2>1, <1>5, <1>6, <1>8, <1>11 DEF StatusRule
  <2>2. CASE u # t /\ u \in FreeIds
    BY <2>2, <1>2, <1>9, <1>11 DEF StatusRule
  <2>3. ASSUME NEW q \in Producers, holding[q] # NoTask, holding[q].id = u
        PROVE  St'[u] = St[u] /\ u # t
    <3>1. q # p /\ holding'[q] = holding[q] /\ u # t
      BY <2>3, <1>3, <1>4, <1>8, CarrierKinds DEF FreeIds
    <3> QED
      BY <2>3, <3>1, <1>11 DEF StatusRule
  <2>4. ASSUME NEW w \in Workers, holding[w] # NoTask, holding[w].id = u
        PROVE  St'[u] = St[u] /\ u # t
    <3>1. holding'[w] = holding[w] /\ u # t
      BY <2>4, <1>4, <1>7, <1>8, CarrierKinds DEF FreeIds
    <3> QED
      BY <2>4, <3>1, <1>2, <1>11 DEF StatusRule
  <2> QED
    BY <2>1, <2>2, <2>3, <2>4, FreeOrCarried
<1>13. St' = [St EXCEPT ![t] = "waiting"]
  BY <1>12 DEF St
<1>14. SoloIds' = IF alone THEN SoloIds \cup {t} ELSE SoloIds
  <2>1. ASSUME NEW u \in TaskIds
        PROVE  u \in SoloIds' <=> u \in SoloIds \/ (alone /\ u = t)
    <3>1. u \in SoloIds <=> \E x \in Carriers :
            holding[x] # NoTask /\ holding[x].id = u /\ holding[x].barrier
      BY DEF SoloIds, Carried, Carriers
    <3>2. u \in SoloIds' <=> \E x \in Carriers :
            holding'[x] # NoTask /\ holding'[x].id = u /\ holding'[x].barrier
      BY DEF SoloIds, Carried, Carriers
    <3> QED
      BY <3>1, <3>2, <1>3, <1>5, <1>6, <1>7, <1>8
  <2>2. SoloIds \subseteq TaskIds /\ SoloIds' \subseteq TaskIds
    BY DEF SoloIds
  <2> QED
    BY <1>1, <2>1, <2>2
<1>15. St[t] = "new"
  BY <1>4, <1>11 DEF StatusRule
<1> QED
  BY <1>1, <1>2, <1>3, <1>10, <1>13, <1>14, <1>15

\* The tasks that TaskPool has in hand are those of the busy workers.
HandIds == {t \in TaskIds : St[t] \in {"running", "delivered"}}

LEMMA HandsAreBusy ==
  ASSUME PoolInv, NEW u \in HandIds
  PROVE  \E w \in Workers : holding[w] # NoTask /\ holding[w].id = u /\ Busy(w)
<1>1. StatusRule
  BY StatusRules DEF PoolInv
<1>2. u \in TaskIds /\ St[u] \in {"running", "delivered"}
  BY DEF HandIds
<1>3. u \notin FreeIds
  BY <1>1, <1>2 DEF StatusRule
<1>4. ~ \E p \in Producers : holding[p] # NoTask /\ holding[p].id = u
  BY <1>1, <1>2 DEF StatusRule
<1>5. PICK w \in Workers : holding[w] # NoTask /\ holding[w].id = u
  BY <1>2, <1>3, <1>4, FreeOrCarried
<1> QED
  BY <1>5 DEF PoolInv, LockInv, CarriersMatch

\* The task of a producer that has the lock may start: alone if it is a
\* barrier, beside no barrier otherwise.
LEMMA SenderMayStart ==
  ASSUME PoolInv, NEW p \in Producers, producer[p] = "send"
  PROVE  IF holding[p].id \in SoloIds THEN HandIds = {}
         ELSE HandIds \cap SoloIds = {}
<1> DEFINE t == holding[p].id
<1>1. p \in Carriers /\ Inside(p) /\ holding[p] # NoTask
  BY DEF Carriers, Inside, PoolInv, LockInv, CarriersMatch, Queueing
<1>2. t \in TaskIds
  BY <1>1, HoldingType DEF PoolInv
<1>3. ASSUME NEW u \in SoloIds, NEW x \in Carriers,
             holding[x] # NoTask, holding[x].id = u
      PROVE  holding[x].barrier
  <2>1. PICK y \in Carriers :
          holding[y] # NoTask /\ holding[y].id = u /\ holding[y].barrier
    BY DEF SoloIds, Carried, Carriers
  <2> QED
    BY <2>1, <1>3 DEF PoolInv, IdInv
<1>4. ASSUME t \in SoloIds PROVE HandIds = {}
  <2>1. p \in SoloHolders
    BY <1>1, <1>3, <1>4 DEF SoloHolders, Carriers
  <2>2. Cardinality(SoloHolders) = 1 /\ readers = 0
    <3>1. Cardinality(SoloHolders) # 0
      BY <2>1, HoldersFinite, FS_EmptySet
    <3> QED
      BY <3>1 DEF PoolInv, LockInv, LockMatchesHolders
  <2>3. SoloHolders = {p} /\ SharedHolders = {}
    BY <2>1, <2>2, CardOne, HoldersFinite, FS_EmptySet
       DEF PoolInv, LockInv, LockMatchesHolders
  <2>4. ASSUME NEW w \in Workers, Busy(w) PROVE FALSE
    <3>1. w \in SoloHolders \/ w \in SharedHolders
      BY <2>4 DEF SoloHolders, SharedHolders, Inside
    <3> QED
      BY <3>1, <2>3, CarrierKinds
  <2> QED
    BY <2>4, HandsAreBusy
<1>5. ASSUME t \notin SoloIds, NEW u \in HandIds, u \in SoloIds PROVE FALSE
  <2>1. ~holding[p].barrier
    BY <1>1, <1>2, <1>5 DEF SoloIds, Carried, Carriers
  <2>2. p \in SharedHolders
    BY <1>1, <2>1 DEF SharedHolders, Carriers
  <2>3. Cardinality(SharedHolders) # 0
    BY <2>2, HoldersFinite, FS_EmptySet
  <2>4. SoloHolders = {}
    BY <2>3, HoldersFinite, FS_EmptySet
       DEF PoolInv, LockInv, LockMatchesHolders
  <2>5. PICK w \in Workers :
          holding[w] # NoTask /\ holding[w].id = u /\ Busy(w)
    BY HandsAreBusy
  <2>6. w \in SoloHolders
    BY <2>5, <1>3, <1>5, CarrierKinds DEF SoloHolders, Inside, Carriers
  <2> QED
    BY <2>4, <2>6
<1> QED
  BY <1>4, <1>5

\* The rendezvous on queueCh starts the task.
LEMMA StartMaps ==
  ASSUME PoolInv, TypeOK', NEW p \in Producers, NEW w \in Workers, Send(p, w)
  PROVE  IdInv' /\ \E t \in TaskIds :
                     /\ St[t] = "waiting" /\ stop # "closed" /\ stop' = stop
                     /\ IF t \in SoloIds THEN HandIds = {}
                        ELSE HandIds \cap SoloIds = {}
                     /\ St' = [St EXCEPT ![t] = "running"]
                     /\ SoloIds' = SoloIds
<1> DEFINE task == holding[p]
           t == task.id
<1>1. /\ holding' = [holding EXCEPT ![p] = NoTask, ![w] = task]
      /\ worker' = [worker EXCEPT ![w] = "run"]
      /\ queued' = queued /\ results' = results /\ stop' = stop
  BY Zenon DEF Send
<1>2. /\ producer[p] = "send" /\ worker[w] = "recv" /\ stop # "closed"
      /\ task # NoTask /\ holding[w] = NoTask
  BY DEF Send, PoolInv, LockInv, CarriersMatch, Queueing, Busy, ClosedInv
<1>3. t \in TaskIds
  BY <1>2, HoldingType, CarrierKinds DEF PoolInv
<1>4. IF t \in SoloIds THEN HandIds = {} ELSE HandIds \cap SoloIds = {}
  BY <1>2, SenderMayStart
<1>5. task = holding[p] /\ t = holding[p].id /\ task.id = t
  OBVIOUS
<1> HIDE DEF task, t
<1>6. /\ holding'[p] = NoTask /\ holding'[w] = task
      /\ \A x \in Carriers : x # p /\ x # w => holding'[x] = holding[x]
      /\ worker'[w] = "run"
      /\ \A v \in Workers : v # w => worker'[v] = worker[v]
  BY <1>1, CarrierKinds DEF PoolInv, TypeOK, Carriers
<1>7. FreeIds' = FreeIds
  <2>1. ASSUME NEW u \in TaskIds PROVE u \in FreeIds' <=> u \in FreeIds
    BY <1>2, <1>5, <1>6, CarrierKinds DEF FreeIds
  <2> QED
    BY <2>1 DEF FreeIds
<1>8. IdInv'
  <2>1. \A x, y \in Carriers :
          holding'[x] # NoTask /\ holding'[y] # NoTask
            /\ holding'[x].id = holding'[y].id => x = y
    BY <1>2, <1>5, <1>6, CarrierKinds DEF PoolInv, IdInv
  <2>2. \A q \in Producers :
          holding'[q] # NoTask => results'[holding'[q].id] = 0
    BY <1>1, <1>6, CarrierKinds DEF PoolInv, IdInv
  <2>3. \A v \in Workers :
          holding'[v] # NoTask =>
            (results'[holding'[v].id] = 0 <=> worker'[v] # "unlock")
    <3> SUFFICES ASSUME NEW v \in Workers, holding'[v] # NoTask
                 PROVE  results'[holding'[v].id] = 0 <=> worker'[v] # "unlock"
      OBVIOUS
    <3>1. CASE v = w
      <4>1. results[t] = 0
        BY <1>2, <1>5 DEF PoolInv, IdInv
      <4> QED
        BY <3>1, <4>1, <1>1, <1>5, <1>6
    <3>2. CASE v # w
      <4>1. holding'[v] = holding[v] /\ worker'[v] = worker[v]
        BY <3>2, <1>6, CarrierKinds
      <4> QED
        BY <4>1, <1>1 DEF PoolInv, IdInv
    <3> QED
      BY <3>1, <3>2
  <2>4. \A q \in Producers, m \in 1..MaxTasks :
          m > queued'[q] => results'[<<q, m>>] = 0 /\ <<q, m>> \in FreeIds'
    BY <1>1, <1>7 DEF PoolInv, IdInv
  <2> QED
    BY <2>1, <2>2, <2>3, <2>4 DEF IdInv
<1>9. StatusRule /\ StatusRule'
  BY <1>8, StatusRules, StatusRulesNext DEF PoolInv
<1>10. \A u \in TaskIds : St'[u] = IF u = t THEN "running" ELSE St[u]
  <2> SUFFICES ASSUME NEW u \in TaskIds
               PROVE  St'[u] = IF u = t THEN "running" ELSE St[u]
    OBVIOUS
  <2>1. CASE u = t
    BY <2>1, <1>2, <1>5, <1>6, <1>9 DEF StatusRule
  <2>2. CASE u # t /\ u \in FreeIds
    BY <2>2, <1>1, <1>7, <1>9 DEF StatusRule
  <2>3. ASSUME u # t, NEW q \in Producers, holding[q] # NoTask,
               holding[q].id = u
        PROVE  St'[u] = St[u]
    <3>1. holding'[q] = holding[q]
      BY <2>3, <1>5, <1>6, CarrierKinds
    <3> QED
      BY <2>3, <3>1, <1>9 DEF StatusRule
  <2>4. ASSUME u # t, NEW v \in Workers, holding[v] # NoTask,
               holding[v].id = u
        PROVE  St'[u] = St[u]
    <3>1. holding'[v] = holding[v] /\ worker'[v] = worker[v]
      BY <2>4, <1>2, <1>6, CarrierKinds
    <3> QED
      BY <2>4, <3>1, <1>9 DEF StatusRule
  <2> QED
    BY <2>1, <2>2, <2>3, <2>4, FreeOrCarried
<1>11. St' = [St EXCEPT ![t] = "running"]
  BY <1>10 DEF St
<1>12. SoloIds' = SoloIds
  <2>1. ASSUME NEW u \in TaskIds PROVE u \in SoloIds' <=> u \in SoloIds
    <3>1. u \in SoloIds <=> \E x \in Carriers :
            holding[x] # NoTask /\ holding[x].id = u /\ holding[x].barrier
      BY DEF SoloIds, Carried, Carriers
    <3>2. u \in SoloIds' <=> \E x \in Carriers :
            holding'[x] # NoTask /\ holding'[x].id = u /\ holding'[x].barrier
      BY DEF SoloIds, Carried, Carriers
    <3> QED
      BY <3>1, <3>2, <1>2, <1>5, <1>6, CarrierKinds
  <2>2. SoloIds \subseteq TaskIds /\ SoloIds' \subseteq TaskIds
    BY DEF SoloIds
  <2> QED
    BY <2>1, <2>2
<1>13. St[t] = "waiting"
  BY <1>2, <1>5, <1>9 DEF StatusRule
<1> QED
  BY <1>1, <1>2, <1>3, <1>4, <1>8, <1>11, <1>12, <1>13

\* The receiver of resultCh gets the result: the task is handed over.
LEMMA HandMaps ==
  ASSUME PoolInv, TypeOK', NEW w \in Workers, Deliver(w)
  PROVE  IdInv' /\ \E t \in TaskIds :
                     /\ St[t] = "running" /\ stop # "closed" /\ stop' = stop
                     /\ St' = [St EXCEPT ![t] = "delivered"]
                     /\ SoloIds' = SoloIds
<1> DEFINE t == holding[w].id
<1>1. /\ results' = [results EXCEPT ![t] = @ + 1]
      /\ worker' = [worker EXCEPT ![w] = "unlock"]
      /\ holding' = holding /\ queued' = queued /\ stop' = stop
  BY Zenon DEF Deliver, producerVars
<1>2. /\ worker[w] = "deliver" /\ stop # "closed" /\ holding[w] # NoTask
  BY DEF Deliver, PoolInv, LockInv, CarriersMatch, Busy
<1>3. t \in TaskIds
  BY <1>2, HoldingType, CarrierKinds DEF PoolInv
<1>4. t = holding[w].id
  OBVIOUS
<1> HIDE DEF t
<1>5. /\ results'[t] # 0
      /\ \A u \in TaskIds : u # t => results'[u] = results[u]
      /\ worker'[w] = "unlock"
      /\ \A v \in Workers : v # w => worker'[v] = worker[v]
  BY <1>1, <1>3 DEF PoolInv, TypeOK
<1>6. FreeIds' = FreeIds /\ t \notin FreeIds
  BY <1>1, <1>2, <1>4, CarrierKinds DEF FreeIds
<1>7. ASSUME NEW x \in Carriers, x # w, holding[x] # NoTask
      PROVE  holding[x].id # t /\ results'[holding[x].id] = results[holding[x].id]
  <2>1. holding[x].id # t
    BY <1>2, <1>4, <1>7, CarrierKinds DEF PoolInv, IdInv
  <2>2. holding[x].id \in TaskIds
    BY <1>7, HoldingType DEF PoolInv
  <2> QED
    BY <2>1, <2>2, <1>5
<1>8. IdInv'
  <2>1. \A x, y \in Carriers :
          holding'[x] # NoTask /\ holding'[y] # NoTask
            /\ holding'[x].id = holding'[y].id => x = y
    BY <1>1 DEF PoolInv, IdInv
  <2>2. \A q \in Producers :
          holding'[q] # NoTask => results'[holding'[q].id] = 0
    BY <1>1, <1>7, CarrierKinds DEF PoolInv, IdInv
  <2>3. \A v \in Workers :
          holding'[v] # NoTask =>
            (results'[holding'[v].id] = 0 <=> worker'[v] # "unlock")
    <3> SUFFICES ASSUME NEW v \in Workers, holding'[v] # NoTask
                 PROVE  results'[holding'[v].id] = 0 <=> worker'[v] # "unlock"
      OBVIOUS
    <3>1. CASE v = w
      BY <3>1, <1>1, <1>4, <1>5
    <3>2. CASE v # w
      BY <3>2, <1>1, <1>5, <1>7, CarrierKinds DEF PoolInv, IdInv
    <3> QED
      BY <3>1, <3>2
  <2>4. \A q \in Producers, m \in 1..MaxTasks :
          m > queued'[q] => results'[<<q, m>>] = 0 /\ <<q, m>> \in FreeIds'
    <3> SUFFICES ASSUME NEW q \in Producers, NEW m \in 1..MaxTasks,
                        m > queued'[q]
                 PROVE  results'[<<q, m>>] = 0 /\ <<q, m>> \in FreeIds'
      OBVIOUS
    <3>1. results[<<q, m>>] = 0 /\ <<q, m>> \in FreeIds /\ <<q, m>> \in TaskIds
      BY <1>1 DEF PoolInv, IdInv, FreeIds
    <3> QED
      BY <3>1, <1>5, <1>6
  <2> QED
    BY <2>1, <2>2, <2>3, <2>4 DEF IdInv
<1>9. StatusRule /\ StatusRule'
  BY <1>8, StatusRules, StatusRulesNext DEF PoolInv
<1>10. \A u \in TaskIds : St'[u] = IF u = t THEN "delivered" ELSE St[u]
  <2> SUFFICES ASSUME NEW u \in TaskIds
               PROVE  St'[u] = IF u = t THEN "delivered" ELSE St[u]
    OBVIOUS
  <2>1. CASE u = t
    BY <2>1, <1>1, <1>2, <1>4, <1>5, <1>9 DEF StatusRule
  <2>2. CASE u # t /\ u \in FreeIds
    BY <2>2, <1>5, <1>6, <1>9 DEF StatusRule
  <2>3. ASSUME u # t, NEW q \in Producers, holding[q] # NoTask,
               holding[q].id = u
        PROVE  St'[u] = St[u]
    BY <2>3, <1>1, <1>9 DEF StatusRule
  <2>4. ASSUME u # t, NEW v \in Workers, holding[v] # NoTask,
               holding[v].id = u
        PROVE  St'[u] = St[u]
    <3>1. worker'[v] = worker[v]
      BY <2>4, <1>4, <1>5
    <3> QED
      BY <2>4, <3>1, <1>1, <1>9 DEF StatusRule
  <2> QED
    BY <2>1, <2>2, <2>3, <2>4, FreeOrCarried
<1>11. St' = [St EXCEPT ![t] = "delivered"]
  BY <1>10 DEF St
<1>12. SoloIds' = SoloIds
  BY <1>1 DEF SoloIds, Carried
<1>13. St[t] = "running"
  BY <1>2, <1>4, <1>9 DEF StatusRule
<1> QED
  BY <1>1, <1>2, <1>3, <1>8, <1>11, <1>12, <1>13

\* Unlock or RUnlock finishes the task.
LEMMA FinishMaps ==
  ASSUME PoolInv, TypeOK', NEW w \in Workers, Unlock(w)
  PROVE  IdInv' /\ \E t \in TaskIds :
                     /\ St[t] = "delivered" /\ stop' = stop
                     /\ St' = [St EXCEPT ![t] = "over"]
                     /\ SoloIds' = SoloIds \ {t}
<1> DEFINE t == holding[w].id
<1>1. /\ holding' = [holding EXCEPT ![w] = NoTask]
      /\ worker' = [worker EXCEPT ![w] = "recv"]
      /\ results' = results /\ queued' = queued /\ stop' = stop
  BY Zenon DEF Unlock
<1>2. /\ worker[w] = "unlock" /\ holding[w] # NoTask
  BY DEF Unlock, PoolInv, LockInv, CarriersMatch, Busy
<1>3. t \in TaskIds
  BY <1>2, HoldingType, CarrierKinds DEF PoolInv
<1>4. t = holding[w].id
  OBVIOUS
<1> HIDE DEF t
<1>5. /\ holding'[w] = NoTask
      /\ \A x \in Carriers : x # w => holding'[x] = holding[x]
      /\ worker'[w] = "recv"
      /\ \A v \in Workers : v # w => worker'[v] = worker[v]
  BY <1>1 DEF PoolInv, TypeOK, Carriers
<1>6. ASSUME NEW x \in Carriers, x # w, holding[x] # NoTask
      PROVE  holding[x].id # t
  BY <1>2, <1>4, <1>6, CarrierKinds DEF PoolInv, IdInv
<1>7. t \notin FreeIds /\ FreeIds' = FreeIds \cup {t}
  <2>1. t \notin FreeIds
    BY <1>2, <1>4, CarrierKinds DEF FreeIds
  <2>2. ASSUME NEW u \in TaskIds PROVE u \in FreeIds' <=> u \in FreeIds \/ u = t
    <3>1. CASE u = t
      BY <3>1, <1>5, <1>6 DEF FreeIds
    <3>2. CASE u # t
      BY <3>2, <1>4, <1>5, CarrierKinds DEF FreeIds
    <3> QED
      BY <3>1, <3>2
  <2> QED
    BY <1>3, <2>1, <2>2 DEF FreeIds
<1>8. IdInv'
  <2>1. \A x, y \in Carriers :
          holding'[x] # NoTask /\ holding'[y] # NoTask
            /\ holding'[x].id = holding'[y].id => x = y
    BY <1>5 DEF PoolInv, IdInv
  <2>2. \A q \in Producers :
          holding'[q] # NoTask => results'[holding'[q].id] = 0
    BY <1>1, <1>5, CarrierKinds DEF PoolInv, IdInv
  <2>3. \A v \in Workers :
          holding'[v] # NoTask =>
            (results'[holding'[v].id] = 0 <=> worker'[v] # "unlock")
    BY <1>1, <1>5, CarrierKinds DEF PoolInv, IdInv
  <2>4. \A q \in Producers, m \in 1..MaxTasks :
          m > queued'[q] => results'[<<q, m>>] = 0 /\ <<q, m>> \in FreeIds'
    BY <1>1, <1>7 DEF PoolInv, IdInv
  <2> QED
    BY <2>1, <2>2, <2>3, <2>4 DEF IdInv
<1>9. StatusRule /\ StatusRule'
  BY <1>8, StatusRules, StatusRulesNext DEF PoolInv
<1>10. \A u \in TaskIds : St'[u] = IF u = t THEN "over" ELSE St[u]
  <2> SUFFICES ASSUME NEW u \in TaskIds
               PROVE  St'[u] = IF u = t THEN "over" ELSE St[u]
    OBVIOUS
  <2>1. CASE u = t
    <3>1. results'[t] # 0
      BY <1>1, <1>2, <1>4 DEF PoolInv, IdInv
    <3> QED
      BY <2>1, <3>1, <1>7, <1>9 DEF StatusRule
  <2>2. CASE u # t /\ u \in FreeIds
    BY <2>2, <1>1, <1>7, <1>9 DEF StatusRule
  <2>3. ASSUME u # t, NEW q \in Producers, holding[q] # NoTask,
               holding[q].id = u
        PROVE  St'[u] = St[u]
    <3>1. holding'[q] = holding[q]
      BY <1>5, CarrierKinds
    <3> QED
      BY <2>3, <3>1, <1>9 DEF StatusRule
  <2>4. ASSUME u # t, NEW v \in Workers, holding[v] # NoTask,
               holding[v].id = u
        PROVE  St'[u] = St[u]
    <3>1. holding'[v] = holding[v] /\ worker'[v] = worker[v]
      BY <2>4, <1>4, <1>5, CarrierKinds
    <3> QED
      BY <2>4, <3>1, <1>9 DEF StatusRule
  <2> QED
    BY <2>1, <2>2, <2>3, <2>4, FreeOrCarried
<1>11. St' = [St EXCEPT ![t] = "over"]
  BY <1>10 DEF St
<1>12. SoloIds' = SoloIds \ {t}
  <2>1. ASSUME NEW u \in TaskIds
        PROVE  u \in SoloIds' <=> u \in SoloIds /\ u # t
    <3>1. u \in SoloIds <=> \E x \in Carriers :
            holding[x] # NoTask /\ holding[x].id = u /\ holding[x].barrier
      BY DEF SoloIds, Carried, Carriers
    <3>2. u \in SoloIds' <=> \E x \in Carriers :
            holding'[x] # NoTask /\ holding'[x].id = u /\ holding'[x].barrier
      BY DEF SoloIds, Carried, Carriers
    <3> QED
      BY <3>1, <3>2, <1>4, <1>5, <1>6, CarrierKinds
  <2>2. SoloIds \subseteq TaskIds /\ SoloIds' \subseteq TaskIds
    BY DEF SoloIds
  <2> QED
    BY <2>1, <2>2
<1>13. St[t] = "delivered"
  BY <1>2, <1>4, <1>9 DEF StatusRule
<1> QED
  BY <1>1, <1>3, <1>8, <1>11, <1>12, <1>13

\* The caller of stopAndWait closes resultCh when every task is new or over.
LEMMA CloseMaps ==
  ASSUME PoolInv, CloseResults
  PROVE  /\ IdInv' /\ St' = St /\ SoloIds' = SoloIds
         /\ stop # "closed" /\ stop' = "closed"
         /\ \A t \in TaskIds : St[t] \in {"new", "over"}
<1>1. IdInv' /\ St' = St /\ SoloIds' = SoloIds
  BY IdFrame DEF CloseResults, PoolInv, producerVars
<1>2. stop = "stopped" /\ stop' = "closed"
  BY DEF CloseResults
<1>3. /\ \A p \in Producers : holding[p] = NoTask
      /\ \A w \in Workers : holding[w] = NoTask
  BY <1>2 DEF PoolInv, ClosedInv, LockInv, CarriersMatch, Queueing
<1>4. StatusRule
  BY StatusRules DEF PoolInv
<1>5. ASSUME NEW t \in TaskIds PROVE St[t] \in {"new", "over"}
  <2>1. t \in FreeIds
    BY <1>3, FreeOrCarried
  <2> QED
    BY <2>1, <1>4 DEF StatusRule
<1> QED
  BY <1>1, <1>2, <1>5

\* The other steps are internal.
LEMMA OthersStutter ==
  ASSUME PoolInv,
         \/ \E w \in Workers : AddWorker(w) \/ Read(w) \/ Return(w) \/ Exit(w)
         \/ \E p \in Producers : \/ RLock(p) \/ RLockWait(p) \/ LockAnnounce(p)
                                 \/ LockAcquire(p) \/ Quit(p)
         \/ AddWorkerAtCap \/ StartMonitor \/ MonitorStop
         \/ \E improved \in BOOLEAN : MonitorTick(improved)
         \/ CloseQueue \/ Wait \/ WaitReturns \/ StopMonitor
         \/ UNCHANGED vars
  PROVE  /\ IdInv' /\ St' = St /\ SoloIds' = SoloIds
         /\ (stop = "closed") = (stop = "closed")'
<1>1. ASSUME NEW w \in Workers, AddWorker(w) \/ Read(w) \/ Return(w)
      PROVE  /\ UNCHANGED <<holding, results, queued, stop>>
             /\ \A v \in Workers : worker'[v] = "unlock" <=> worker[v] = "unlock"
  BY <1>1 DEF AddWorker, Read, Return, producerVars, PoolInv, TypeOK
<1>2. ASSUME NEW w \in Workers, Exit(w)
      PROVE  /\ UNCHANGED <<holding, results, queued>>
             /\ stop' # "closed" <=> stop # "closed"
             /\ \A v \in Workers : worker'[v] = "unlock" <=> worker[v] = "unlock"
  BY <1>2 DEF Exit, producerVars, PoolInv, TypeOK
<1>3. ASSUME NEW p \in Producers,
             \/ RLock(p) \/ RLockWait(p) \/ LockAnnounce(p)
             \/ LockAcquire(p) \/ Quit(p)
      PROVE  UNCHANGED <<holding, results, queued, stop, worker>>
  BY <1>3 DEF RLock, RLockWait, LockAnnounce, LockAcquire, Quit
<1>4. ASSUME \/ AddWorkerAtCap \/ StartMonitor \/ MonitorStop
             \/ \E improved \in BOOLEAN : MonitorTick(improved)
             \/ UNCHANGED vars
      PROVE  UNCHANGED <<holding, results, queued, stop, worker>>
  BY <1>4 DEF AddWorkerAtCap, StartMonitor, MonitorStop, MonitorTick, vars,
              producerVars
<1>5. ASSUME CloseQueue \/ Wait \/ WaitReturns \/ StopMonitor
      PROVE  /\ UNCHANGED <<holding, results, queued, worker>>
             /\ stop # "closed" /\ stop' # "closed"
  BY <1>5 DEF CloseQueue, Wait, WaitReturns, StopMonitor, producerVars
<1>6. /\ UNCHANGED <<holding, results, queued>>
      /\ \A v \in Workers : worker'[v] = "unlock" <=> worker[v] = "unlock"
      /\ stop' # "closed" <=> stop # "closed"
  BY <1>1, <1>2, <1>3, <1>4, <1>5
<1> QED
  BY <1>6, IdFrame DEF PoolInv

LEMMA IdStep == PoolInv /\ TypeOK' /\ [Next]_vars => IdInv'
BY SubmitMaps, StartMaps, HandMaps, FinishMaps, CloseMaps, OthersStutter
   DEF Next, Running, Finished

LEMMA PoolInvHolds == Spec => []PoolInv
<1>1. Spec => []ClosedInv
  BY CapInit, ClosedStep, CapKept, TypeCorrect, PTL DEF Spec
<1>2. Spec => []IdInv
  <2>1. TypeOK /\ LockInv /\ ClosedInv /\ IdInv /\ TypeOK' /\ [Next]_vars
          => IdInv'
    BY IdStep DEF PoolInv
  <2> QED
    BY <1>1, <2>1, IdInit, TypeCorrect, LockBalanced, PTL DEF Spec
<1> QED
  BY <1>1, <1>2, TypeCorrect, LockBalanced, PTL DEF PoolInv

\* Each step of the pool is one of TaskPool or a stutter.
LEMMA StepMaps ==
  PoolInv /\ TypeOK' /\ [Next]_vars => [Pool!Next]_(Pool!poolVars)
<1> SUFFICES ASSUME PoolInv, TypeOK', [Next]_vars
             PROVE  [Pool!Next]_(Pool!poolVars)
  OBVIOUS
<1> USE DEF St
<1>1. ASSUME NEW p \in Producers, \E b, s, e \in BOOLEAN : DoQueueTask(p, b, s, e)
      PROVE  Pool!Next
  BY <1>1, SubmitMaps DEF Pool!Next, Pool!Submit
<1>2. ASSUME NEW p \in Producers, NEW w \in Workers, Send(p, w)
      PROVE  Pool!Next
  BY <1>2, StartMaps DEF Pool!Next, Pool!Start, Pool!InHand, HandIds
<1>3. ASSUME NEW w \in Workers, Deliver(w) PROVE Pool!Next
  BY <1>3, HandMaps DEF Pool!Next, Pool!Hand
<1>4. ASSUME NEW w \in Workers, Unlock(w) PROVE Pool!Next
  BY <1>4, FinishMaps DEF Pool!Next, Pool!Finish
<1>5. ASSUME CloseResults PROVE Pool!Next
  BY <1>5, CloseMaps DEF Pool!Next, Pool!Close
<1>6. ASSUME St' = St /\ SoloIds' = SoloIds,
             (stop = "closed") = (stop = "closed")'
      PROVE  UNCHANGED Pool!poolVars
  BY <1>6 DEF Pool!poolVars
<1> QED
  BY <1>1, <1>2, <1>3, <1>4, <1>5, <1>6, OthersStutter
     DEF Next, Running, Finished

LEMMA InitMaps == Init => Pool!Init
<1> SUFFICES ASSUME Init PROVE Pool!Init
  OBVIOUS
<1>1. \A x \in Carriers : holding[x] = NoTask
  BY DEF Init, Carriers
<1>2. SoloIds = {}
  BY <1>1 DEF SoloIds, Carried, Carriers
<1>3. \A t \in TaskIds : StatusOf(t) = "new"
  BY <1>1 DEF Init, StatusOf, Carried, Carriers
<1>4. (stop = "closed") = FALSE
  BY DEF Init
<1> QED
  BY <1>2, <1>3, <1>4 DEF Pool!Init

\* The worker pool implements TaskPool for any number of producers, workers
\* and tasks: each task that is queued runs once and is reported once, a
\* barrier alone, and resultCh is closed when all are over.
THEOREM PoolImplementsTaskPool == Spec => ImplementsTaskPool
<1> QED
  BY InitMaps, StepMaps, PoolInvHolds, TypeCorrect, PTL
     DEF Spec, ImplementsTaskPool, Pool!Spec

-----------------------------------------------------------------------------
(***************************************************************************)
(* The chain of channels.                                                  *)
(***************************************************************************)
Channel == [buf: Seq(Elements), size: Nat, closed: BOOLEAN]

\* What the proof needs of PipeTypeOK.
ChainTyped ==
  /\ chain \in Seq(Channel) /\ chain # <<>>
  /\ inputCh \in Seq(Elements)
  /\ elem \in Elements \cup {None}
  /\ offered \in 0..MaxElements
  /\ pushed \in Nat /\ pushed <= Len(chain)
  /\ taken \in Nat /\ taken <= pushed
  /\ feeder \in {"half", "pushDouble", "quarter", "pushHalf", "put"} =>
       elem \in Elements
  /\ copier \in {"range", "send"} => taken > 0
  /\ feeder \in {"push", "pushDouble", "pushHalf"} => pushed < Len(chain)

\* The looks at the length of the current channel have left room in it: they
\* go by the first capacity, which the copier can only make more room under.
RoomLeft ==
  /\ feeder \in {"pushDouble", "quarter"} /\ curCap # 4 * capacity =>
       curLen < capacity
  /\ feeder \in {"pushHalf", "put"} => curLen < capacity

ChainInv == ChainTyped /\ CapacityBounded /\ RoomLeft

\* The values of the constants.
LEMMA Constants ==
  /\ capacity \in Nat /\ capacity > 1
  /\ MaxElements \in Nat /\ None \notin Elements
  /\ ChainCap \in Nat
BY PipeAssumption DEF PipeAssumption, Elements

LEMMA Starts == PipeInit => ChainInv
<1> SUFFICES ASSUME PipeInit PROVE ChainInv
  OBVIOUS
<1> USE Constants DEF PipeInit
<1>1. Chan(capacity) \in Channel /\ Chan(capacity).size = capacity
      /\ Chan(capacity).buf = <<>>
  BY DEF Chan, Channel
<1>2. chain \in Seq(Channel) /\ Len(chain) = 1 /\ chain[1] = Chan(capacity)
  BY <1>1
<1>3. ChainTyped
  BY <1>2 DEF ChainTyped
<1>4. CapacityBounded
  BY <1>1, <1>2 DEF CapacityBounded
<1>5. RoomLeft
  BY DEF RoomLeft
<1> QED
  BY <1>3, <1>4, <1>5 DEF ChainInv

\* One channel of the chain is replaced.
LEMMA Updated ==
  ASSUME NEW s \in Seq(Channel), NEW n \in 1..Len(s), NEW c \in Channel
  PROVE  /\ [s EXCEPT ![n] = c] \in Seq(Channel)
         /\ Len([s EXCEPT ![n] = c]) = Len(s)
         /\ [s EXCEPT ![n] = c][n] = c
         /\ \A i \in 1..Len(s) : i # n => [s EXCEPT ![n] = c][i] = s[i]
<1> HIDE DEF Channel
<1> QED
  OBVIOUS

\* Going on with another channel keeps the elements and sizes of all others.
LEMMA Replaced ==
  ASSUME ChainTyped, NEW size \in Nat, Replace(size)
  PROVE  /\ chain' \in Seq(Channel) /\ Len(chain') = Len(chain) + 1
         /\ chain'[Len(chain) + 1] = Chan(size)
         /\ \A i \in 1..Len(chain) : /\ chain'[i].size = chain[i].size
                                     /\ chain'[i].buf = chain[i].buf
<1> DEFINE left == [chain EXCEPT ![cur].closed = TRUE]
<1>1. chain \in Seq(Channel) /\ cur \in 1..Len(chain)
  BY DEF ChainTyped, cur
<1> DEFINE c == [chain[cur] EXCEPT !.closed = TRUE]
<1>0. chain[cur] \in Channel
  BY <1>1
<1>a. c \in Channel /\ c.size = chain[cur].size /\ c.buf = chain[cur].buf
  BY <1>0 DEF Channel
<1>b. left = [chain EXCEPT ![cur] = c]
  OBVIOUS
<1> HIDE DEF left, c
<1>2. left \in Seq(Channel) /\ Len(left) = Len(chain)
  BY <1>1, <1>a, <1>b, Updated
<1>3. \A i \in 1..Len(chain) : /\ left[i].size = chain[i].size
                              /\ left[i].buf = chain[i].buf
  BY <1>1, <1>a, <1>b, Updated
<1>4. Chan(size) \in Channel
  BY DEF Chan, Channel
<1>5. chain' = Append(left, Chan(size))
  BY DEF Replace, left
<1>6. Len(chain') = Len(chain) + 1 /\ chain' \in Seq(Channel)
  BY <1>2, <1>4, <1>5
<1>7. chain'[Len(chain) + 1] = Chan(size)
  BY <1>2, <1>4, <1>5
<1>8. \A i \in 1..Len(chain) : chain'[i] = left[i]
  BY <1>2, <1>4, <1>5
<1> QED
  BY <1>3, <1>6, <1>7, <1>8

\* The new channel is the current one, and it is empty.
LEMMA ReplacedBounds ==
  ASSUME ChainInv, NEW size \in {2 * capacity, 4 * capacity}, Replace(size)
  PROVE  CapacityBounded' /\ Len(chain'[Len(chain)'].buf) = 0
         /\ chain'[Len(chain)'].size = size
<1> USE Constants
<1>1. size \in Nat
  OBVIOUS
<1>2. /\ chain' \in Seq(Channel) /\ Len(chain') = Len(chain) + 1
      /\ chain'[Len(chain) + 1] = Chan(size)
      /\ \A i \in 1..Len(chain) : /\ chain'[i].size = chain[i].size
                                  /\ chain'[i].buf = chain[i].buf
  BY <1>1, Replaced DEF ChainInv
<1>3. Chan(size).size = size /\ Len(Chan(size).buf) = 0
  BY DEF Chan
<1>4. Len(chain) \in Nat
  BY DEF ChainInv, ChainTyped
<1>5. ASSUME NEW i \in 1..Len(chain')
      PROVE  /\ chain'[i].size \in {capacity, 2 * capacity, 4 * capacity}
             /\ Len(chain'[i].buf) <= capacity
  <2>1. CASE i = Len(chain) + 1
    BY <1>2, <1>3, <2>1
  <2>2. CASE i \in 1..Len(chain)
    BY <1>2, <2>2 DEF ChainInv, CapacityBounded
  <2> QED
    BY <1>2, <1>4, <2>1, <2>2
<1> QED
  BY <1>2, <1>3, <1>5 DEF CapacityBounded

LEMMA Steps == ChainInv /\ [PipeNext]_pipeVars => ChainInv'
<1> SUFFICES ASSUME ChainInv, [PipeNext]_pipeVars PROVE ChainInv'
  OBVIOUS
<1> USE Constants
<1>0. ChainTyped /\ CapacityBounded /\ RoomLeft
  BY DEF ChainInv
<1>1. SendElem => ChainInv'
  <2> SUFFICES ASSUME SendElem PROVE ChainInv'
    OBVIOUS
  <2>1. offered + 1 \in Elements
    BY <1>0 DEF SendElem, ChainTyped, Elements
  <2>2. inputCh' \in Seq(Elements) /\ offered' \in 0..MaxElements
    BY <1>0, <2>1 DEF SendElem, ChainTyped
  <2>3. ChainTyped'
    BY <1>0, <2>2 DEF SendElem, ChainTyped
  <2>4. CapacityBounded' /\ RoomLeft'
    BY <1>0 DEF SendElem, CapacityBounded, RoomLeft, cur, curLen, curCap
  <2> QED
    BY <2>3, <2>4 DEF ChainInv
<1>2. CloseInput => ChainInv'
  <2> SUFFICES ASSUME CloseInput PROVE ChainInv'
    OBVIOUS
  <2>1. ChainTyped'
    BY <1>0 DEF CloseInput, ChainTyped, sender
  <2>2. CapacityBounded' /\ RoomLeft'
    BY <1>0
    DEF CloseInput, CapacityBounded, RoomLeft, cur, curLen, curCap, sender
  <2> QED
    BY <2>1, <2>2 DEF ChainInv
<1>3. Receive => ChainInv'
  <2> SUFFICES ASSUME Receive PROVE ChainInv'
    OBVIOUS
  <2>1. ChainTyped'
    BY <1>0 DEF Receive, ChainTyped, sender, input
  <2>2. CapacityBounded' /\ RoomLeft'
    BY <1>0
    DEF Receive, CapacityBounded, RoomLeft, cur, curLen, curCap, sender, input
  <2> QED
    BY <2>1, <2>2 DEF ChainInv
<1>4. ReceiveEnd => ChainInv'
  <2> SUFFICES ASSUME ReceiveEnd PROVE ChainInv'
    OBVIOUS
  <2>1. ChainTyped'
    BY <1>0 DEF ReceiveEnd, ChainTyped, sender, input
  <2>2. CapacityBounded' /\ RoomLeft'
    BY <1>0
    DEF ReceiveEnd, CapacityBounded, RoomLeft, cur, curLen, curCap, sender,
        input
  <2> QED
    BY <2>1, <2>2 DEF ChainInv
<1>5. PushFirst => ChainInv'
  <2> SUFFICES ASSUME PushFirst PROVE ChainInv'
    OBVIOUS
  <2>1. ChainTyped'
    BY <1>0 DEF PushFirst, ChainTyped, Push, sender, input, output
  <2>2. CapacityBounded' /\ RoomLeft'
    BY <1>0
    DEF PushFirst, CapacityBounded, RoomLeft, cur, curLen, curCap, Push, sender,
        input, output
  <2> QED
    BY <2>1, <2>2 DEF ChainInv
<1>6. PushDouble => ChainInv'
  <2> SUFFICES ASSUME PushDouble PROVE ChainInv'
    OBVIOUS
  <2>1. ChainTyped'
    BY <1>0 DEF PushDouble, ChainTyped, Push, sender, input, output
  <2>2. CapacityBounded' /\ RoomLeft'
    BY <1>0
    DEF PushDouble, CapacityBounded, RoomLeft, cur, curLen, curCap, Push,
        sender, input, output
  <2> QED
    BY <2>1, <2>2 DEF ChainInv
<1>7. PushHalf => ChainInv'
  <2> SUFFICES ASSUME PushHalf PROVE ChainInv'
    OBVIOUS
  <2>1. ChainTyped'
    BY <1>0 DEF PushHalf, ChainTyped, Push, sender, input, output
  <2>2. CapacityBounded' /\ RoomLeft'
    BY <1>0
    DEF PushHalf, CapacityBounded, RoomLeft, cur, curLen, curCap, Push, sender,
        input, output
  <2> QED
    BY <2>1, <2>2 DEF ChainInv
<1>8. FeederReceives => ChainInv'
  <2> SUFFICES ASSUME FeederReceives PROVE ChainInv'
    OBVIOUS
  <2>1. ChainTyped'
    BY <1>0 DEF FeederReceives, ChainTyped, sender, output
  <2>2. CapacityBounded' /\ RoomLeft'
    BY <1>0
    DEF FeederReceives, CapacityBounded, RoomLeft, cur, curLen, curCap, sender,
        output
  <2> QED
    BY <2>1, <2>2 DEF ChainInv
<1>9. CheckHalf => ChainInv'
  <2> SUFFICES ASSUME CheckHalf PROVE ChainInv'
    OBVIOUS
  <2>1. Len(chain) \in Nat /\ Len(chain) > 0 /\ cur = Len(chain)
        /\ curCap \in {capacity, 2 * capacity, 4 * capacity}
        /\ curLen \in Nat /\ curLen <= capacity
    BY <1>0 DEF ChainTyped, CapacityBounded, Channel, cur, curCap, curLen
  <2>2. CASE curLen >= curCap \div 2
    <3>1. curCap * 2 \in {2 * capacity, 4 * capacity}
      BY <2>1, <2>2
    <3>2. Replace(curCap * 2) /\ feeder' = "pushDouble"
      BY <2>2 DEF CheckHalf
    <3>3. CapacityBounded' /\ Len(chain'[Len(chain)'].buf) = 0
      BY <3>1, <3>2, ReplacedBounds
    <3>4. chain' \in Seq(Channel) /\ Len(chain') = Len(chain) + 1
      BY <1>0, <2>1, <3>1, <3>2, Replaced
    <3>5. ChainTyped'
      BY <1>0, <2>1, <3>2, <3>4 DEF CheckHalf, ChainTyped, input, sender, output
    <3>6. RoomLeft'
      BY <3>2, <3>3 DEF RoomLeft, cur, curLen
    <3> QED
      BY <3>3, <3>5, <3>6 DEF ChainInv
  <2>3. CASE ~(curLen >= curCap \div 2)
    <3>1. UNCHANGED chain /\ feeder' = "quarter"
      BY <2>3 DEF CheckHalf
    <3>2. curCap # 4 * capacity => curLen < capacity
      BY <2>1, <2>3
    <3>3. ChainTyped'
      BY <1>0, <3>1 DEF CheckHalf, ChainTyped, input, sender, output
    <3>4. CapacityBounded' /\ RoomLeft'
      BY <1>0, <3>1, <3>2 DEF CapacityBounded, RoomLeft, cur, curLen, curCap
    <3> QED
      BY <3>3, <3>4 DEF ChainInv
  <2> QED
    BY <2>2, <2>3
<1>10. CheckQuarter => ChainInv'
  <2> SUFFICES ASSUME CheckQuarter PROVE ChainInv'
    OBVIOUS
  <2>1. Len(chain) \in Nat /\ Len(chain) > 0 /\ cur = Len(chain)
        /\ curCap \in {capacity, 2 * capacity, 4 * capacity}
        /\ curLen \in Nat /\ curLen <= capacity
    BY <1>0 DEF ChainTyped, CapacityBounded, Channel, cur, curCap, curLen
  <2>2. CASE curLen >= capacity /\ curLen <= curCap \div 4
    <3>1. curCap \div 2 \in {2 * capacity, 4 * capacity}
      BY <2>1, <2>2
    <3>2. Replace(curCap \div 2) /\ feeder' = "pushHalf"
      BY <2>2 DEF CheckQuarter
    <3>3. CapacityBounded' /\ Len(chain'[Len(chain)'].buf) = 0
      BY <3>1, <3>2, ReplacedBounds
    <3>4. chain' \in Seq(Channel) /\ Len(chain') = Len(chain) + 1
      BY <1>0, <2>1, <3>1, <3>2, Replaced
    <3>5. ChainTyped'
      BY <1>0, <2>1, <2>2, <3>2, <3>4
      DEF CheckQuarter, ChainTyped, input, sender, output
    <3>6. RoomLeft'
      BY <3>2, <3>3 DEF RoomLeft, cur, curLen
    <3> QED
      BY <3>3, <3>5, <3>6 DEF ChainInv
  <2>3. CASE ~(curLen >= capacity /\ curLen <= curCap \div 4)
    <3>1. UNCHANGED chain /\ feeder = "quarter" /\ feeder' = "put"
      BY <2>3 DEF CheckQuarter
    <3>2. curLen < capacity
      BY <1>0, <2>1, <2>3, <3>1 DEF RoomLeft
    <3>3. ChainTyped'
      BY <1>0, <3>1 DEF CheckQuarter, ChainTyped, input, sender, output
    <3>4. CapacityBounded' /\ RoomLeft'
      BY <1>0, <3>1, <3>2 DEF CapacityBounded, RoomLeft, cur, curLen, curCap
    <3> QED
      BY <3>3, <3>4 DEF ChainInv
  <2> QED
    BY <2>2, <2>3
<1>11. Put => ChainInv'
  <2> SUFFICES ASSUME Put PROVE ChainInv'
    OBVIOUS
  <2> DEFINE n == cur
             c == [chain[n] EXCEPT !.buf = Append(chain[n].buf, elem)]
  <2>1. chain \in Seq(Channel) /\ n \in 1..Len(chain)
    BY <1>0 DEF Put, ChainTyped, cur
  <2>2. chain[n] \in Channel
    BY <2>1
  <2>3. /\ Append(chain[n].buf, elem) \in Seq(Elements)
        /\ Len(Append(chain[n].buf, elem)) <= capacity
    <3>1. chain[n].buf \in Seq(Elements) /\ elem \in Elements
      BY <1>0, <2>2 DEF Put, ChainTyped, Channel
    <3>2. Len(chain[n].buf) < capacity
      BY <1>0 DEF Put, RoomLeft, curLen
    <3>3. Len(Append(chain[n].buf, elem)) = Len(chain[n].buf) + 1
      BY <3>1
    <3> QED
      BY <3>1, <3>2, <3>3
  <2>4. c \in Channel /\ c.size = chain[n].size /\ c.buf = Append(chain[n].buf, elem)
    BY <2>2, <2>3 DEF Channel
  <2>5. chain' = [chain EXCEPT ![n] = c]
    BY DEF Put
  <2> HIDE DEF c
  <2>6. /\ chain' \in Seq(Channel) /\ Len(chain') = Len(chain)
        /\ chain'[n] = c
        /\ \A i \in 1..Len(chain) : i # n => chain'[i] = chain[i]
    BY <2>1, <2>4, <2>5, Updated
  <2>7. ChainTyped'
    BY <1>0, <2>2, <2>3, <2>6 DEF Put, ChainTyped, input, sender, output
  <2>8. CapacityBounded'
    <3>1. ASSUME NEW i \in 1..Len(chain')
          PROVE  /\ chain'[i].size \in {capacity, 2 * capacity, 4 * capacity}
                 /\ Len(chain'[i].buf) <= capacity
      BY <1>0, <2>1, <2>3, <2>4, <2>6 DEF CapacityBounded
    <3> QED
      BY <3>1 DEF CapacityBounded
  <2>9. RoomLeft'
    BY <1>0, <2>1, <2>3, <2>4, <2>6
    DEF Put, RoomLeft, cur, curLen, curCap, input, sender, output
  <2> QED
    BY <2>7, <2>8, <2>9 DEF ChainInv
<1>12. FeederEnds => ChainInv'
  <2> SUFFICES ASSUME FeederEnds PROVE ChainInv'
    OBVIOUS
  <2> DEFINE c == [chain[cur] EXCEPT !.closed = TRUE]
  <2>1. chain \in Seq(Channel) /\ cur \in 1..Len(chain)
    BY <1>0 DEF ChainTyped, cur
  <2>2. chain[cur] \in Channel
    BY <2>1
  <2>3. c \in Channel /\ c.size = chain[cur].size /\ c.buf = chain[cur].buf
    BY <2>2 DEF Channel
  <2>4. chain' = [chain EXCEPT ![cur] = c]
    BY DEF FeederEnds
  <2> HIDE DEF c
  <2>5. /\ chain' \in Seq(Channel) /\ Len(chain') = Len(chain)
        /\ chain'[cur] = c
        /\ \A i \in 1..Len(chain) : i # cur => chain'[i] = chain[i]
    BY <2>1, <2>3, <2>4, Updated
  <2>6. ChainTyped'
    BY <1>0, <2>5 DEF FeederEnds, ChainTyped, input, sender, output
  <2>7. CapacityBounded'
    <3>1. ASSUME NEW i \in 1..Len(chain')
          PROVE  /\ chain'[i].size \in {capacity, 2 * capacity, 4 * capacity}
                 /\ Len(chain'[i].buf) <= capacity
      BY <1>0, <2>3, <2>5 DEF CapacityBounded
    <3> QED
      BY <3>1 DEF CapacityBounded
  <2>8. RoomLeft'
    BY DEF FeederEnds, RoomLeft
  <2> QED
    BY <2>6, <2>7, <2>8 DEF ChainInv
<1>13. NextChannel => ChainInv'
  <2> SUFFICES ASSUME NextChannel PROVE ChainInv'
    OBVIOUS
  <2>1. ChainTyped'
    BY <1>0 DEF NextChannel, ChainTyped, sender, input, output
  <2>2. CapacityBounded' /\ RoomLeft'
    BY <1>0
    DEF NextChannel, CapacityBounded, RoomLeft, cur, curLen, curCap, sender,
        input, output
  <2> QED
    BY <2>1, <2>2 DEF ChainInv
<1>14. Take => ChainInv'
  <2> SUFFICES ASSUME Take PROVE ChainInv'
    OBVIOUS
  <2> DEFINE n == taken
             c == [chain[n] EXCEPT !.buf = Tail(chain[n].buf)]
  <2>1. chain \in Seq(Channel) /\ n \in 1..Len(chain)
    BY <1>0 DEF Take, ChainTyped, cur
  <2>2. chain[n] \in Channel
    BY <2>1
  <2>3. /\ Tail(chain[n].buf) \in Seq(Elements)
        /\ Len(Tail(chain[n].buf)) < Len(chain[n].buf)
        /\ Len(chain[n].buf) <= capacity /\ Len(chain[n].buf) \in Nat
        /\ Len(Tail(chain[n].buf)) \in Nat
    <3>1. chain[n].buf \in Seq(Elements) /\ chain[n].buf # <<>>
      BY <2>2 DEF Take, Channel
    <3>2. Len(chain[n].buf) <= capacity
      BY <1>0, <2>1 DEF CapacityBounded
    <3> QED
      BY <3>1, <3>2
  <2>4. c \in Channel /\ c.size = chain[n].size /\ c.buf = Tail(chain[n].buf)
    BY <2>2, <2>3 DEF Channel
  <2>5. chain' = [chain EXCEPT ![n] = c]
    BY DEF Take
  <2> HIDE DEF c
  <2>6. /\ chain' \in Seq(Channel) /\ Len(chain') = Len(chain)
        /\ chain'[n] = c
        /\ \A i \in 1..Len(chain) : i # n => chain'[i] = chain[i]
    BY <2>1, <2>4, <2>5, Updated
  <2>7. ChainTyped'
    BY <1>0, <2>2, <2>3, <2>6 DEF Take, ChainTyped, input, sender, output
  <2>8. CapacityBounded'
    <3>1. ASSUME NEW i \in 1..Len(chain')
          PROVE  /\ chain'[i].size \in {capacity, 2 * capacity, 4 * capacity}
                 /\ Len(chain'[i].buf) <= capacity
      <4>1. i \in 1..Len(chain)
        BY <2>6
      <4>2. CASE i = n
        <5>1. chain[n].size \in {capacity, 2 * capacity, 4 * capacity}
          BY <1>0, <2>1 DEF CapacityBounded
        <5>2. Len(Tail(chain[n].buf)) <= capacity
          BY <2>3
        <5>3. chain'[i] = c
          BY <2>6, <4>2
        <5> QED
          BY <2>4, <5>1, <5>2, <5>3
      <4>3. CASE i # n
        <5>1. chain'[i] = chain[i]
          BY <2>6, <4>1, <4>3
        <5> QED
          BY <1>0, <4>1, <5>1 DEF CapacityBounded
      <4> QED
        BY <4>2, <4>3
    <3> QED
      BY <3>1 DEF CapacityBounded
  <2>9. RoomLeft'
    BY <1>0, <2>1, <2>3, <2>4, <2>6
    DEF Take, RoomLeft, cur, curLen, curCap, input, sender, output
  <2> QED
    BY <2>7, <2>8, <2>9 DEF ChainInv
<1>15. Copy => ChainInv'
  <2> SUFFICES ASSUME Copy PROVE ChainInv'
    OBVIOUS
  <2>1. ChainTyped'
    BY <1>0 DEF Copy, ChainTyped, sender, input
  <2>2. CapacityBounded' /\ RoomLeft'
    BY <1>0
    DEF Copy, CapacityBounded, RoomLeft, cur, curLen, curCap, sender, input
  <2> QED
    BY <2>1, <2>2 DEF ChainInv
<1>16. RangeEnds => ChainInv'
  <2> SUFFICES ASSUME RangeEnds PROVE ChainInv'
    OBVIOUS
  <2>1. ChainTyped'
    BY <1>0 DEF RangeEnds, ChainTyped, sender, input, output
  <2>2. CapacityBounded' /\ RoomLeft'
    BY <1>0
    DEF RangeEnds, CapacityBounded, RoomLeft, cur, curLen, curCap, sender,
        input, output
  <2> QED
    BY <2>1, <2>2 DEF ChainInv
<1>17. CopierEnds => ChainInv'
  <2> SUFFICES ASSUME CopierEnds PROVE ChainInv'
    OBVIOUS
  <2>1. ChainTyped'
    BY <1>0 DEF CopierEnds, ChainTyped, sender, input
  <2>2. CapacityBounded' /\ RoomLeft'
    BY <1>0
    DEF CopierEnds, CapacityBounded, RoomLeft, cur, curLen, curCap, sender,
        input
  <2> QED
    BY <2>1, <2>2 DEF ChainInv
<1>18. UNCHANGED pipeVars => ChainInv'
  BY <1>0 DEF pipeVars, sender, input, output, ChainInv, ChainTyped,
    CapacityBounded, RoomLeft, cur, curLen, curCap
<1> QED
  BY <1>1, <1>2, <1>3, <1>4, <1>5, <1>6, <1>7, <1>8, <1>9, <1>10, <1>11, <1>12,
     <1>13, <1>14, <1>15, <1>16, <1>17, <1>18
  DEF PipeNext, Receiver, Feeder, Copier

(***************************************************************************)
(* However far the receiver falls behind, no channel of the chain exceeds  *)
(* four times the first capacity or holds more elements than it: what      *)
(* PipeChan's two looks at the length of the channel are for.              *)
(***************************************************************************)
THEOREM CapacityKept == PipeSpec => []CapacityBounded
<1>1. ChainInv => CapacityBounded
  BY DEF ChainInv
<1> QED
  BY <1>1, Starts, Steps, PTL DEF PipeSpec

===============================================================================
