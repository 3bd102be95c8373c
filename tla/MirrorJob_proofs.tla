---------------------------- MODULE MirrorJob_proofs ----------------------------
(***************************************************************************)
(* What is proved of the mirror job, for any number of keys, changes,      *)
(* failures, workers and retries.                                          *)
(***************************************************************************)
EXTENDS MirrorJob, FiniteSetTheorems, SequenceTheorems, TLAPS

\* What an event, a task or a comparison says of an object names one.
Events == {e \in Event : e.type \in {"put", "delete"} => e.key \in Keys}
Tasks == {x \in Task : x.do \in {"copy", "remove"} => x.key \in Keys}
Url == [do: {"copy", "remove", "refuse", "error"}, key: Keys \cup {NoTask}]
Urls == {u \in Url : u.do # "error" => u.key \in Keys}
Steps == {"start", "read", "write", "retry", "returned"}

\* TypeOK by the groups of variables; an error of the comparison is handed over
\* with its URLs at hand.
UserTypes ==
  /\ src \in [Keys -> Versions] /\ srcBucket \in BOOLEAN
  /\ changes \in 0..MaxChanges /\ changed \subseteq Keys
TargetTypes ==
  dst \in [Keys -> Versions] /\ dstBucket \in BOOLEAN /\ passedOver \subseteq Keys
WatchTypes ==
  /\ stream \in {"none", "open", "notImplemented"} /\ events \in Seq(Events)
  /\ watchErrors \in 0..MaxWatchErrors
  /\ join \in {"select", "send", "gone"} /\ joinEvent \in Events \cup {NoTask}
  /\ join = "send" <=> joinEvent # NoTask
  /\ watcher \in {"select", "stopping", "done"}
ListTypes ==
  /\ srcSeen \in [Keys -> Versions \cup {-1}]
  /\ dstSeen \in [Keys -> Versions \cup {-1}]
  /\ compared \subseteq Keys /\ listing \in {"on", "complete", "failed"}
StarterTypes ==
  /\ urls \in Seq(Urls) /\ starter \in {"select", "status", "done"}
  /\ starter = "status" => urls # <<>>
WorkTypes ==
  /\ task \in [TaskIds -> Tasks \cup {NoTask}] /\ step \in [TaskIds -> Steps]
  /\ copied \in [TaskIds -> Versions] /\ tries \in [TaskIds -> 0..maxRetries]
  /\ result \in [TaskIds -> Results]
JudgeTypes ==
  /\ monitor \in {"range", "returned"} /\ cancelInProgress \in BOOLEAN
  /\ errDuringMirror \in BOOLEAN /\ cancelled \in BOOLEAN

\* The pool has a task as long as it is neither new nor over.
TasksMatch ==
  \A t \in TaskIds : task[t] = NoTask <=> status[t] \in {"new", "over"}

TypeInv ==
  /\ opts \in Options
  /\ UserTypes /\ TargetTypes /\ WatchTypes /\ ListTypes /\ StarterTypes
  /\ Pool!TypeOK /\ WorkTypes /\ JudgeTypes /\ TasksMatch

LEMMA TypesTogether == TypeInv => TypeOK
<1> SUFFICES ASSUME TypeInv PROVE TypeOK
  OBVIOUS
<1>1. events \in Seq(Event) /\ joinEvent \in Event \cup {NoTask}
  BY DEF TypeInv, WatchTypes, Events
<1>2. urls \in Seq(Url)
  BY DEF TypeInv, StarterTypes, Urls
<1>3. task \in [TaskIds -> Task \cup {NoTask}]
  BY DEF TypeInv, WorkTypes, Tasks
<1> QED
  BY <1>1, <1>2, <1>3 DEF TypeInv, TypeOK, UserTypes, TargetTypes, WatchTypes, ListTypes,
     StarterTypes, WorkTypes, JudgeTypes, Url, Steps

LEMMA VersionsAreNaturals ==
  /\ Versions = 0..Old /\ Versions \subseteq Nat /\ 0 \in Versions /\ 1 \in Versions
  /\ Old \in Versions /\ \A n \in 0..MaxChanges : n + 2 \in Versions
BY MirrorAssumption DEF Versions, Old

LEMMA InitialTypes == Init => TypeInv
<1> SUFFICES ASSUME Init PROVE TypeInv
  OBVIOUS
<1>1. UserTypes /\ TargetTypes
  <2> DEFINE A == IF srcBucket THEN {0, 1} ELSE {0}
             B == IF dstBucket THEN {0, 1, Old} ELSE {0}
  <2>1. A \subseteq Versions /\ B \subseteq Versions
    BY VersionsAreNaturals
  <2>2. src \in [Keys -> A] /\ dst \in [Keys -> B]
    BY DEF Init
  <2>3. src \in [Keys -> Versions] /\ dst \in [Keys -> Versions]
    <3> HIDE DEF A, B
    <3> QED BY <2>1, <2>2
  <2>4. srcBucket \in BOOLEAN /\ dstBucket = srcBucket /\ changes = 0 /\ changed = {}
        /\ passedOver = {}
    <3>1. /\ srcBucket \in IF "makeBucket" \in Changes THEN BOOLEAN ELSE {TRUE}
          /\ dstBucket = srcBucket /\ changes = 0 /\ changed = {} /\ passedOver = {}
      BY DEF Init
    <3>2. srcBucket \in BOOLEAN
      <4>1. CASE "makeBucket" \in Changes
        BY <3>1, <4>1
      <4>2. CASE "makeBucket" \notin Changes
        BY <3>1, <4>2
      <4> QED BY <4>1, <4>2
    <3> QED BY <3>1, <3>2
  <2> QED
    BY <2>3, <2>4, MirrorAssumption DEF UserTypes, TargetTypes
<1>2. WatchTypes
  <2>1. stream \in {"none", "open", "notImplemented"}
    BY DEF Init
  <2>2. [type |-> "notImplemented", key |-> NoTask] \in Events
    BY DEF Event, Events
  <2>3. events \in Seq(Events)
    BY <2>2 DEF Init
  <2>4. /\ join \in {"select", "gone"} /\ joinEvent = NoTask
        /\ watcher \in {"select", "done"} /\ watchErrors = 0
    BY DEF Init
  <2> QED
    BY <2>1, <2>3, <2>4, MirrorAssumption DEF WatchTypes
<1>3. ListTypes /\ StarterTypes /\ opts \in Options
  BY DEF Init, ListTypes, StarterTypes
<1>4. Pool!TypeOK
  BY DEF Init, Pool!Init, Pool!TypeOK
<1>5. WorkTypes
  BY MirrorAssumption, VersionsAreNaturals DEF Init, WorkTypes, Results, Steps
<1>6. JudgeTypes
  BY DEF Init, JudgeTypes
<1>7. TasksMatch
  BY DEF Init, Pool!Init, TasksMatch
<1> QED
  BY <1>1, <1>2, <1>3, <1>4, <1>5, <1>6, <1>7 DEF TypeInv

\* What QueueTask makes of the pool.
LEMMA Queued ==
  ASSUME TypeInv, NEW do \in {"copy", "remove", "makeBucket", "removeBucket", "report"},
         NEW k \in Keys \cup {NoTask}, NEW by \in {"starter", "watcher"},
         do \in {"copy", "remove"} => k \in Keys,
         QueueTask(do, k, by)
  PROVE  /\ \E t \in TaskIds :
              /\ status[t] = "new" /\ ~closed
              /\ status' = [status EXCEPT ![t] = "waiting"]
              /\ solo' = IF do \in {"makeBucket", "removeBucket"} THEN solo \cup {t} ELSE solo
              /\ task' = [task EXCEPT ![t] = [do |-> do, key |-> k, by |-> by]]
         /\ UNCHANGED <<closed, step, copied, tries, result>>
         /\ Pool!TypeOK' /\ WorkTypes' /\ TasksMatch'
<1>1. PICK t \in TaskIds :
        /\ status[t] = "new" /\ ~closed
        /\ status' = [status EXCEPT ![t] = "waiting"]
        /\ solo' = IF do \in {"makeBucket", "removeBucket"} THEN solo \cup {t} ELSE solo
        /\ task' = [task EXCEPT ![t] = [do |-> do, key |-> k, by |-> by]]
        /\ UNCHANGED <<closed, step, copied, tries, result>>
  BY DEF QueueTask, Pool!Submit
<1>2. Pool!TypeOK'
  BY <1>1 DEF TypeInv, Pool!TypeOK
<1>3. WorkTypes'
  <2>1. [do |-> do, key |-> k, by |-> by] \in Tasks
    BY DEF Task, Tasks
  <2> QED BY <1>1, <2>1 DEF TypeInv, WorkTypes
<1>4. TasksMatch'
  <2>1. [do |-> do, key |-> k, by |-> by] # NoTask
    BY NoTaskAssumption DEF Task
  <2> QED BY <1>1, <2>1 DEF TypeInv, TasksMatch, WorkTypes, Pool!TypeOK
<1> QED
  BY <1>1, <1>2, <1>3, <1>4


\* The types of the variables that a step leaves alone.
LEMMA TypesKept ==
  ASSUME TypeInv
  PROVE  /\ opts \in Options
         /\ (UNCHANGED opts => opts' \in Options)
         /\ (UNCHANGED user => UserTypes')
         /\ (UNCHANGED target => TargetTypes')
         /\ (UNCHANGED watch => WatchTypes')
         /\ (UNCHANGED lister => ListTypes')
         /\ (UNCHANGED <<urls, starter>> => StarterTypes')
         /\ (UNCHANGED pool => Pool!TypeOK')
         /\ (UNCHANGED work => WorkTypes')
         /\ (UNCHANGED judge => JudgeTypes')
         /\ (UNCHANGED <<status, task>> => TasksMatch')
<1>1. UNCHANGED <<urls, starter>> => StarterTypes'
  BY DEF TypeInv, StarterTypes
<1>2. UNCHANGED pool => Pool!TypeOK'
  BY DEF TypeInv, pool, Pool!TypeOK
<1>3. UNCHANGED watch => WatchTypes'
  BY DEF TypeInv, watch, WatchTypes
<1>4. UNCHANGED work => WorkTypes'
  BY DEF TypeInv, work, WorkTypes
<1>5. UNCHANGED user => UserTypes'
  BY DEF TypeInv, user, UserTypes
<1>6. UNCHANGED target => TargetTypes'
  BY DEF TypeInv, target, TargetTypes
<1>7. UNCHANGED lister => ListTypes'
  BY DEF TypeInv, lister, ListTypes
<1>8. UNCHANGED judge => JudgeTypes'
  BY DEF TypeInv, judge, JudgeTypes
<1>9. UNCHANGED <<status, task>> => TasksMatch'
  BY DEF TypeInv, TasksMatch
<1> QED
  BY <1>1, <1>2, <1>3, <1>4, <1>5, <1>6, <1>7, <1>8, <1>9 DEF TypeInv

LEMMA Notified ==
  ASSUME events \in Seq(Events), NEW k \in Keys \cup {NoTask},
         NEW type \in {"put", "delete", "makeBucket", "removeBucket", "error"},
         type \in {"put", "delete"} => k \in Keys, Notify(type, k)
  PROVE  events' \in Seq(Events)
<1>1. [type |-> type, key |-> k] \in Events
  BY DEF Event, Events
<1> QED BY <1>1 DEF Notify

LEMMA UserKeepsTypes == ASSUME TypeInv, User PROVE TypeInv'
<1>1. ASSUME NEW type \in {"put", "delete", "makeBucket", "removeBucket"},
             NEW k \in Keys \cup {NoTask}, Change(type, k),
             type \in {"put", "delete"} => k \in Keys,
             src' \in [Keys -> Versions], srcBucket' \in BOOLEAN
      PROVE  TypeInv'
  <2>1. UserTypes'
    <3>1. changes' \in 0..MaxChanges
      BY <1>1, MirrorAssumption DEF TypeInv, UserTypes, Change
    <3>2. changed' \subseteq Keys
      BY <1>1 DEF TypeInv, UserTypes, Change
    <3> QED BY <1>1, <3>1, <3>2 DEF UserTypes
  <2>2. WatchTypes'
    <3>1. events' \in Seq(Events)
      BY <1>1, Notified DEF TypeInv, WatchTypes, Change
    <3> QED BY <1>1, <3>1 DEF TypeInv, WatchTypes, Change
  <2> QED
    BY <1>1, <2>1, <2>2, TypesKept DEF Change, pool, work, TypeInv
<1>2. ASSUME NEW k \in Keys, PutObject(k) PROVE TypeInv'
  <2>1. src' \in [Keys -> Versions] /\ srcBucket' \in BOOLEAN
    BY <1>2, VersionsAreNaturals DEF TypeInv, UserTypes, PutObject
  <2> QED BY <2>1, <1>1, <1>2 DEF PutObject
<1>3. ASSUME NEW k \in Keys, DeleteObject(k) PROVE TypeInv'
  <2>1. src' \in [Keys -> Versions] /\ srcBucket' \in BOOLEAN
    BY <1>3, VersionsAreNaturals DEF TypeInv, UserTypes, DeleteObject
  <2> QED BY <2>1, <1>1, <1>3 DEF DeleteObject
<1>4. ASSUME MakeBucket \/ RemoveBucket PROVE TypeInv'
  <2>1. src' \in [Keys -> Versions] /\ srcBucket' \in BOOLEAN
    BY <1>4 DEF TypeInv, UserTypes, MakeBucket, RemoveBucket
  <2> QED BY <2>1, <1>1, <1>4 DEF MakeBucket, RemoveBucket
<1>5. ASSUME StreamFails PROVE TypeInv'
  <2>1. WatchTypes'
    <3>1. events' \in Seq(Events)
      BY <1>5, Notified DEF TypeInv, WatchTypes, StreamFails
    <3>2. watchErrors' \in 0..MaxWatchErrors
      BY <1>5, MirrorAssumption DEF TypeInv, WatchTypes, StreamFails
    <3> QED BY <1>5, <3>1, <3>2 DEF TypeInv, WatchTypes, StreamFails
  <2> QED
    BY <1>5, <2>1, TypesKept DEF StreamFails, pool, work, TypeInv
<1> QED
  BY <1>2, <1>3, <1>4, <1>5 DEF User

LEMMA UrlsOfKey == ASSUME NEW k \in Keys PROVE UrlOf(k) \in Seq(Urls)
<1>1. \A do \in {"copy", "remove", "refuse"} : <<[do |-> do, key |-> k]>> \in Seq(Urls)
  BY DEF Url, Urls
<1> DEFINE third == IF opts.isOverwrite THEN "copy" ELSE "refuse"
<1>2. third \in {"copy", "remove", "refuse"}
  OBVIOUS
<1>3. \/ UrlOf(k) = <<>>
      \/ UrlOf(k) = <<[do |-> "copy", key |-> k]>>
      \/ UrlOf(k) = <<[do |-> "remove", key |-> k]>>
      \/ UrlOf(k) = <<[do |-> third, key |-> k]>>
  <2>1. CASE srcSeen[k] # 0 /\ dstSeen[k] = 0
    BY <2>1 DEF UrlOf
  <2>2. CASE srcSeen[k] = 0 /\ dstSeen[k] # 0 /\ opts.isRemove
    BY <2>2 DEF UrlOf
  <2>3. CASE srcSeen[k] # 0 /\ dstSeen[k] \notin {0, srcSeen[k]}
    BY <2>3 DEF UrlOf
  <2>4. CASE ~ \/ srcSeen[k] # 0 /\ dstSeen[k] = 0
               \/ srcSeen[k] = 0 /\ dstSeen[k] # 0 /\ opts.isRemove
               \/ srcSeen[k] # 0 /\ dstSeen[k] \notin {0, srcSeen[k]}
    BY <2>4 DEF UrlOf
  <2> QED BY <2>1, <2>2, <2>3, <2>4
<1>4. <<[do |-> third, key |-> k]>> \in Seq(Urls)
  <2> HIDE DEF third
  <2> QED BY <1>1, <1>2
<1>5. /\ <<[do |-> "copy", key |-> k]>> \in Seq(Urls) /\ <<>> \in Seq(Urls)
      /\ <<[do |-> "remove", key |-> k]>> \in Seq(Urls)
  BY <1>1
<1> QED BY <1>3, <1>4, <1>5, Zenon

LEMMA ListingKeepsTypes == ASSUME TypeInv, Listing PROVE TypeInv'
<1>1. ASSUME NEW k \in Keys, ListSource(k) PROVE TypeInv'
  <2>1. ListTypes'
    BY <1>1 DEF TypeInv, ListTypes, UserTypes, ListSource
  <2> QED BY <1>1, <2>1, TypesKept DEF ListSource, pool, work, TypeInv
<1>2. ASSUME NEW k \in Keys, ListTarget(k) PROVE TypeInv'
  <2>1. ListTypes'
    BY <1>2 DEF TypeInv, ListTypes, TargetTypes, ListTarget
  <2> QED BY <1>2, <2>1, TypesKept DEF ListTarget, pool, work, TypeInv
<1>3. ASSUME NEW k \in Keys, Compare(k) PROVE TypeInv'
  <2>1. UrlOf(k) \in Seq(Urls)
    BY UrlsOfKey
  <2>2. StarterTypes' /\ ListTypes'
    BY <1>3, <2>1 DEF TypeInv, StarterTypes, ListTypes, Compare
  <2> QED BY <1>3, <2>2, TypesKept DEF Compare, pool, work, TypeInv
<1>4. ASSUME ListingEnds PROVE TypeInv'
  <2>1. ListTypes'
    BY <1>4 DEF TypeInv, ListTypes, ListingEnds
  <2> QED BY <1>4, <2>1, TypesKept DEF ListingEnds, pool, work, TypeInv
<1>5. ASSUME ListingFails PROVE TypeInv'
  <2>1. ListTypes' /\ StarterTypes'
    BY <1>5 DEF TypeInv, ListTypes, StarterTypes, ListingFails, Url, Urls
  <2> QED BY <1>5, <2>1, TypesKept DEF ListingFails, pool, work, TypeInv
<1> QED
  BY <1>1, <1>2, <1>3, <1>4, <1>5 DEF Listing

LEMMA WatchKeepsTypes == ASSUME TypeInv, Watch PROVE TypeInv'
<1>1. CASE JoinTakes
  <2>1. Head(events) \in Events /\ Tail(events) \in Seq(Events)
    BY <1>1 DEF JoinTakes, TypeInv, WatchTypes
  <2>2. WatchTypes'
    BY <1>1, <2>1, NoTaskAssumption DEF JoinTakes, TypeInv, WatchTypes, Events
  <2> QED BY <1>1, <2>2, TypesKept DEF JoinTakes, pool, work, TypeInv
<1>2. CASE JoinStops \/ WatcherStops \/ StopReturns
  <2>1. WatchTypes'
    BY <1>2 DEF JoinStops, WatcherStops, StopReturns, TypeInv, WatchTypes
  <2> QED BY <1>2, <2>1, TypesKept DEF JoinStops, WatcherStops, StopReturns, pool, work, TypeInv
<1>3. CASE WatchMirrorEvents
  <2>1. joinEvent \in Events
    BY <1>3 DEF WatchMirrorEvents, TypeInv, WatchTypes
  <2>2. /\ joinEvent.key \in Keys \cup {NoTask}
        /\ joinEvent.type \in {"put", "delete"} => joinEvent.key \in Keys
    BY <2>1 DEF Event, Events
  <2>3. WatchTypes'
    BY <1>3 DEF WatchMirrorEvents, TypeInv, WatchTypes
  <2>4. Pool!TypeOK' /\ WorkTypes' /\ TasksMatch'
    <3>1. \/ UNCHANGED <<pool, work>>
          \/ \E do \in {"copy", "remove", "makeBucket", "removeBucket", "report"},
                k \in Keys \cup {NoTask} :
               (do \in {"copy", "remove"} => k \in Keys) /\ QueueTask(do, k, "watcher")
      BY <1>3, <2>2 DEF WatchMirrorEvents
    <3> QED BY <3>1, Queued, TypesKept DEF pool, work
  <2> QED BY <1>3, <2>3, <2>4, TypesKept DEF WatchMirrorEvents, pool, work, TypeInv
<1> QED
  BY <1>1, <1>2, <1>3 DEF Watch

LEMMA StarterKeepsTypes == ASSUME TypeInv, Starter PROVE TypeInv'
<1>1. CASE StartMirror
  <2>1. Head(urls) \in Urls /\ Tail(urls) \in Seq(Urls)
    BY <1>1 DEF StartMirror, TypeInv, StarterTypes
  <2>2. StarterTypes'
    BY <1>1, <2>1 DEF StartMirror, StarterSelects, TypeInv, StarterTypes
  <2>3. Pool!TypeOK' /\ WorkTypes' /\ TasksMatch'
    <3>1. \/ UNCHANGED <<pool, work>>
          \/ \E do \in {"copy", "remove"}, k \in Keys : QueueTask(do, k, "starter")
      BY <1>1, <2>1 DEF StartMirror, Url, Urls
    <3> QED BY <3>1, Queued, TypesKept DEF pool, work
  <2> QED BY <1>1, <2>2, <2>3, TypesKept DEF StartMirror, pool, work, TypeInv
<1>2. CASE StarterEnds
  <2>1. StarterTypes'
    BY <1>2 DEF StarterEnds, TypeInv, StarterTypes
  <2> QED BY <1>2, <2>1, TypesKept DEF StarterEnds, pool, work, TypeInv
<1> QED
  BY <1>1, <1>2 DEF Starter


\* The functions of the tasks leave everything alone but the target and what is
\* known of the task.
TaskStep(t) ==
  \/ Report(t) \/ Stat(t) \/ Read(t) \/ Write(t) \/ CopyFails(t)
  \/ Retry(t) \/ RetryAbandoned(t) \/ Remove(t)
  \/ CreateBucket(t) \/ DeleteBucket(t)

LEMMA TaskKeepsTypes ==
  ASSUME TypeInv, NEW t \in TaskIds, TaskStep(t) PROVE TypeInv'
<1> USE DEF WorkTypes, Returns, UploadFails, Results, Steps
<1>1. WorkTypes
  BY DEF TypeInv
<1>2. WorkTypes'
  <2>1. CASE Report(t) \/ Remove(t) \/ CreateBucket(t) \/ DeleteBucket(t)
    BY <1>1, <2>1 DEF Report, Remove, CreateBucket, DeleteBucket, Environment
  <2>2. CASE Stat(t)
    BY <1>1, <2>2 DEF Stat, Environment
  <2>3. CASE Read(t)
    <3>1. src[task[t].key] \in Versions
      BY <2>3 DEF Read, Runs, TypeInv, UserTypes, TasksMatch, WorkTypes, Tasks
    <3> QED BY <1>1, <2>3, <3>1, VersionsAreNaturals DEF Read, Environment
  <2>4. CASE Write(t) \/ CopyFails(t)
    BY <1>1, <2>4, VersionsAreNaturals DEF Write, CopyFails, Environment
  <2>5. CASE Retry(t) \/ RetryAbandoned(t)
    BY <1>1, <2>5, MirrorAssumption DEF Retry, RetryAbandoned, Environment
  <2> QED BY <2>1, <2>2, <2>3, <2>4, <2>5 DEF TaskStep
<1>3. TargetTypes'
  <2>1. task[t].do \in {"copy", "remove"} /\ status[t] = "running" => task[t].key \in Keys
    BY DEF TypeInv, TasksMatch, WorkTypes, Tasks
  <2>2. /\ dst' \in [Keys -> Versions] /\ dstBucket' \in BOOLEAN
    <3>1. /\ dst \in [Keys -> Versions] /\ dstBucket \in BOOLEAN
          /\ copied[t] \in Versions /\ 0 \in Versions
      BY <1>1, VersionsAreNaturals DEF TypeInv, TargetTypes
    <3>2. CASE Write(t) \/ Remove(t)
      BY <3>1, <3>2 DEF Write, Remove
    <3>3. CASE ~(Write(t) \/ Remove(t))
      BY <3>1, <3>3 DEF target, TaskStep, Report, Stat, Read, CopyFails, Retry, RetryAbandoned,
         CreateBucket, DeleteBucket
    <3> QED BY <3>2, <3>3
  <2>3. passedOver' \subseteq Keys
    BY <2>1 DEF TypeInv, TargetTypes, target, Runs,
       TaskStep, Report, Stat, Read, Write, CopyFails, Retry, RetryAbandoned, Remove,
       CreateBucket, DeleteBucket
  <2> QED BY <2>2, <2>3 DEF TargetTypes
<1>4. UNCHANGED Environment
  BY DEF TaskStep, Report, Stat, Read, Write, CopyFails, Retry, RetryAbandoned, Remove,
     CreateBucket, DeleteBucket
<1> QED
  BY <1>2, <1>3, <1>4, TypesKept DEF Environment, pool, TypeInv

LEMMA JudgeTypesKept ==
  ASSUME JudgeTypes, NEW failed \in BOOLEAN, opts.skipErrors \in BOOLEAN, Judge(failed)
  PROVE  JudgeTypes'
BY DEF JudgeTypes, Judge

LEMMA TypeStep == ASSUME TypeInv, [Next]_vars PROVE TypeInv'
<1>0. opts.skipErrors \in BOOLEAN
  BY MirrorAssumption DEF TypeInv
<1>1. ASSUME NEW t \in TaskIds, StartTask(t) PROVE TypeInv'
  <2>1. Pool!TypeOK' /\ TasksMatch'
    BY <1>1 DEF StartTask, Pool!Start, Pool!TypeOK, TypeInv, TasksMatch, work
  <2> QED BY <1>1, <2>1, TypesKept DEF StartTask, pool, work, TypeInv
<1>2. ASSUME NEW t \in TaskIds, Deliver(t) PROVE TypeInv'
  <2>1. Pool!TypeOK' /\ TasksMatch'
    BY <1>2 DEF Deliver, Pool!Hand, Pool!TypeOK, TypeInv, TasksMatch, work
  <2>2. JudgeTypes'
    BY <1>0, <1>2, JudgeTypesKept DEF Deliver, pool, work, TypeInv
  <2> QED BY <1>2, <2>1, <2>2, TypesKept DEF Deliver, pool, work, TypeInv
<1>3. ASSUME NEW t \in TaskIds, FinishTask(t) PROVE TypeInv'
  <2>1. Pool!TypeOK' /\ TasksMatch'
    BY <1>3 DEF FinishTask, Pool!Finish, Pool!TypeOK, TypeInv, TasksMatch, WorkTypes
  <2>2. WorkTypes'
    BY <1>3, VersionsAreNaturals, MirrorAssumption
    DEF FinishTask, WorkTypes, TypeInv, Steps, Results
  <2> QED BY <1>3, <2>1, <2>2, TypesKept DEF FinishTask, pool, work, TypeInv
<1>4. CASE DeliverError
  <2>1. StarterTypes'
    BY <1>4 DEF DeliverError, StarterTypes, TypeInv
  <2>2. JudgeTypes'
    BY <1>0, <1>4, JudgeTypesKept DEF DeliverError, pool, work, TypeInv
  <2> QED BY <1>4, <2>1, <2>2, TypesKept DEF DeliverError, pool, work, TypeInv
<1>5. CASE Close
  <2>1. Pool!TypeOK'
    BY <1>5 DEF Close, Pool!Close, Pool!TypeOK, TypeInv
  <2> QED BY <1>5, <2>1, TypesKept DEF Close, Pool!Close, work, TypeInv
<1>6. CASE MonitorReturns
  <2>1. JudgeTypes'
    BY <1>6 DEF MonitorReturns, JudgeTypes, TypeInv
  <2> QED BY <1>6, <2>1, TypesKept DEF MonitorReturns, pool, work, TypeInv
<1>7. CASE UNCHANGED vars
  BY <1>7, TypesKept DEF vars, pool, work, TypeInv
<1> QED
  BY <1>1, <1>2, <1>3, <1>4, <1>5, <1>6, <1>7, UserKeepsTypes, WatchKeepsTypes,
     ListingKeepsTypes, StarterKeepsTypes, TaskKeepsTypes
  DEF Next, Running, Finished, Act, TaskStep

\* Every variable keeps its type.
THEOREM MirrorTypeCorrect == Spec => []TypeOK
<1>1. Spec => []TypeInv
  BY InitialTypes, TypeStep, PTL DEF Spec
<1> QED
  BY <1>1, TypesTogether, PTL

-----------------------------------------------------------------------------
(***************************************************************************)
(* SuccessMeansSynced.                                                     *)
(***************************************************************************)
ErrorListed == \E n \in DOMAIN urls : urls[n].do = "error"

\* The order in which the goroutines end, and who knows of an error then.
EndInv ==
  /\ starter = "status" => Head(urls).do \notin {"copy", "remove"}
  /\ cancelInProgress => errDuringMirror
  /\ cancelled /\ monitor = "range" => cancelInProgress
  /\ listing = "failed" => errDuringMirror \/ ErrorListed
  /\ listing = "complete" => compared = Keys
  /\ starter = "done" => errDuringMirror \/ (urls = <<>> /\ listing # "on")
  /\ closed => /\ starter = "done"
               /\ \A t \in TaskIds : status[t] \in {"new", "over"}
  /\ monitor = "returned" => closed

\* Without changes of the source only errors come from its stream, and what the
\* listings said of a key holds until it has been compared.
Idle == {e \in Events : e.type \in {"error", "notImplemented"}}
SeenInv ==
  /\ events \in Seq(Idle) /\ joinEvent \in Idle \cup {NoTask}
  /\ \A k \in Keys :
       /\ srcSeen[k] \in {-1, src[k]}
       /\ k \notin compared => dstSeen[k] \in {-1, dst[k]}
       /\ src[k] # 0 => dstBucket

\* A task, and a comparison, is about a key that was compared and does what the
\* source asks for.
Asked == {u \in Urls : /\ u.do = "copy" => u.key \in compared /\ src[u.key] # 0
                       /\ u.do = "remove" => u.key \in compared /\ src[u.key] = 0}
Works(t) ==
  /\ task[t].do \in {"copy", "remove", "report"}
  /\ task[t].do # "report" => task[t].by = "starter" /\ task[t].key \in compared
  /\ task[t].do = "copy" => src[task[t].key] # 0
  /\ task[t].do = "remove" => src[task[t].key] = 0
  /\ step[t] = "write" => copied[t] = src[task[t].key]
  /\ step[t] = "retry" => result[t] \in {"denied", "failed"}
  /\ step[t] = "returned" => result[t] \in {"ok", "denied", "failed"}
TaskInv ==
  /\ urls \in Seq(Asked)
  /\ \A t \in TaskIds :
       IF task[t] = NoTask THEN step[t] = "start" /\ result[t] = "none" ELSE Works(t)

\* A key that is out of step and was compared is on its way.
UrlFor(k) ==
  \E n \in DOMAIN urls : urls[n].do \in {"copy", "remove"} /\ urls[n].key = k
TaskFor(k) ==
  \E t \in TaskIds :
    /\ task[t] # NoTask /\ task[t].do \in {"copy", "remove"} /\ task[t].key = k
    /\ status[t] \in {"waiting", "running"} /\ result[t] # "ok"
\* The mirror has nothing more to do for the key.
Done(k) == SyncedAtReturn(k) \/ k \in passedOver
WayInv ==
  /\ \A k \in compared : Done(k) \/ errDuringMirror \/ UrlFor(k) \/ TaskFor(k)
  /\ \A t \in TaskIds : result[t] = "denied" => Done(task[t].key)

SyncInv == changes = 0 => SeenInv /\ TaskInv /\ WayInv

\* What remains in a sequence of which the first is taken, to which some are added.
LEMMA TailKeeps ==
  ASSUME NEW S, NEW q \in Seq(S), q # <<>>
  PROVE  /\ Head(q) \in S /\ Tail(q) \in Seq(S) /\ Head(q) = q[1] /\ 1 \in DOMAIN q
         /\ \A n \in DOMAIN q : n # 1 => n - 1 \in DOMAIN Tail(q) /\ Tail(q)[n - 1] = q[n]
         /\ \A n \in DOMAIN Tail(q) : n + 1 \in DOMAIN q /\ Tail(q)[n] = q[n + 1]
OBVIOUS

LEMMA ConcatKeeps ==
  ASSUME NEW S, NEW q \in Seq(S), NEW r \in Seq(S)
  PROVE  /\ q \o r \in Seq(S)
         /\ \A n \in DOMAIN q : n \in DOMAIN (q \o r) /\ (q \o r)[n] = q[n]
         /\ \A n \in DOMAIN r : Len(q) + n \in DOMAIN (q \o r) /\ (q \o r)[Len(q) + n] = r[n]
<1>1. q \o r \in Seq(S) /\ Len(q \o r) = Len(q) + Len(r) /\ Len(q) \in Nat /\ Len(r) \in Nat
  OBVIOUS
<1>2. \A n \in 1..Len(q) : (q \o r)[n] = q[n]
  OBVIOUS
<1>3. \A n \in 1..Len(r) : (q \o r)[Len(q) + n] = r[n]
  OBVIOUS
<1>4. /\ DOMAIN q = 1..Len(q) /\ DOMAIN r = 1..Len(r)
      /\ DOMAIN (q \o r) = 1..(Len(q) + Len(r))
  BY <1>1
<1> HIDE <1>1
<1>5. \A n \in DOMAIN r : Len(q) + n \in DOMAIN (q \o r)
  BY <1>1, <1>4
<1> QED BY <1>1, <1>2, <1>3, <1>4, <1>5

\* What the second of two sequences adds.
LEMMA ConcatAdds ==
  ASSUME NEW S, NEW q \in Seq(S), NEW r \in Seq(S), NEW n \in DOMAIN (q \o r), n \notin DOMAIN q
  PROVE  n - Len(q) \in DOMAIN r /\ (q \o r)[n] = r[n - Len(q)]
PROOF
<1>1. Len(q \o r) = Len(q) + Len(r) /\ Len(q) \in Nat /\ Len(r) \in Nat /\ q \o r \in Seq(S)
  OBVIOUS
<1>2. DOMAIN q = 1..Len(q) /\ DOMAIN r = 1..Len(r) /\ DOMAIN (q \o r) = 1..(Len(q) + Len(r))
  BY <1>1
<1>3. n \in 1..(Len(q) + Len(r)) /\ n \notin 1..Len(q)
  BY <1>2
<1>4. n - Len(q) \in 1..Len(r) /\ n = Len(q) + (n - Len(q))
  BY <1>1, <1>3
<1>5. \A m \in DOMAIN r : (q \o r)[Len(q) + m] = r[m]
  BY ConcatKeeps
<1> QED
  BY <1>2, <1>4, <1>5

LEMMA InitialEnd == Init => EndInv
BY DEF Init, Pool!Init, EndInv

\* A step that leaves the control of the ends alone.
LEMMA EndKept ==
  ASSUME EndInv, UNCHANGED <<starter, urls, listing, compared, judge, closed>>,
         \A t \in TaskIds : status'[t] = status[t] \/ ~closed
  PROVE  EndInv'
BY DEF EndInv, ErrorListed, judge

LEMMA JudgedEnd ==
  ASSUME TypeInv, EndInv, NEW failed \in BOOLEAN, Judge(failed), monitor = "range"
  PROVE  /\ errDuringMirror' = (errDuringMirror \/ failed)
         /\ cancelInProgress' => errDuringMirror'
         /\ cancelled' => cancelInProgress'
         /\ monitor' = "range"
BY DEF Judge, EndInv, TypeInv, JudgeTypes

\* What the steps of the users, the watcher and the tasks leave alone.
LEMMA UserFrame ==
  ASSUME User
  PROVE  UNCHANGED <<opts, target, stream, join, joinEvent, watcher, lister, urls, starter,
                     pool, work, judge>>
BY DEF User, PutObject, DeleteObject, MakeBucket, RemoveBucket, StreamFails, Change

LEMMA WatchFrame ==
  ASSUME TypeInv, Watch
  PROVE  /\ UNCHANGED <<opts, user, target, stream, watchErrors, lister, urls, starter,
                        closed, step, copied, tries, result, judge>>
         /\ \A t \in TaskIds :
              \/ status'[t] = status[t] /\ task'[t] = task[t]
              \/ status[t] = "new" /\ status'[t] = "waiting" /\ ~closed
<1>1. CASE JoinTakes \/ JoinStops \/ WatcherStops \/ StopReturns
  BY <1>1 DEF JoinTakes, JoinStops, WatcherStops, StopReturns, pool, work
<1>2. CASE WatchMirrorEvents
  <2>1. UNCHANGED <<opts, user, target, stream, watchErrors, lister, urls, starter, judge>>
    BY <1>2 DEF WatchMirrorEvents
  <2>2. joinEvent \in Events
    BY <1>2 DEF WatchMirrorEvents, TypeInv, WatchTypes
  <2>3. /\ joinEvent.key \in Keys \cup {NoTask}
        /\ joinEvent.type \in {"put", "delete"} => joinEvent.key \in Keys
    BY <2>2 DEF Event, Events
  <2>4. \/ UNCHANGED <<pool, work>>
        \/ \E do \in {"copy", "remove", "makeBucket", "removeBucket", "report"},
              k \in Keys \cup {NoTask} :
             (do \in {"copy", "remove"} => k \in Keys) /\ QueueTask(do, k, "watcher")
    BY <1>2, <2>3 DEF WatchMirrorEvents
  <2>5. CASE UNCHANGED <<pool, work>>
    BY <2>1, <2>5 DEF pool, work
  <2>6. ASSUME NEW do \in {"copy", "remove", "makeBucket", "removeBucket", "report"},
               NEW k \in Keys \cup {NoTask}, do \in {"copy", "remove"} => k \in Keys,
               QueueTask(do, k, "watcher")
        PROVE  /\ UNCHANGED <<closed, step, copied, tries, result>>
               /\ \A t \in TaskIds :
                    \/ status'[t] = status[t] /\ task'[t] = task[t]
                    \/ status[t] = "new" /\ status'[t] = "waiting" /\ ~closed
    BY <2>6, Queued DEF TypeInv, WorkTypes, Pool!TypeOK
  <2> QED BY <2>1, <2>4, <2>5, <2>6
<1> QED
  BY <1>1, <1>2 DEF Watch

LEMMA TaskFrame ==
  ASSUME TypeInv, NEW t \in TaskIds, TaskStep(t)
  PROVE  /\ UNCHANGED Environment /\ status[t] = "running"
         /\ \A u \in TaskIds \ {t} :
              /\ step'[u] = step[u] /\ copied'[u] = copied[u] /\ result'[u] = result[u]
<1>1. /\ step \in [TaskIds -> Steps] /\ copied \in [TaskIds -> Versions]
      /\ result \in [TaskIds -> Results]
  BY DEF TypeInv, WorkTypes
<1>2. UNCHANGED Environment
  BY DEF TaskStep, Report, Stat, Read, Write, CopyFails, Retry, RetryAbandoned, Remove,
     CreateBucket, DeleteBucket
<1>3. status[t] = "running"
  BY DEF TaskStep, Report, Stat, Read, Write, CopyFails, Retry, RetryAbandoned, Remove,
     CreateBucket, DeleteBucket, Runs
<1>4. \A u \in TaskIds \ {t} :
        /\ step'[u] = step[u] /\ copied'[u] = copied[u] /\ result'[u] = result[u]
  BY <1>1 DEF TaskStep, Report, Stat, Read, Write, CopyFails, Retry, RetryAbandoned, Remove,
     CreateBucket, DeleteBucket, Returns, UploadFails
<1> QED BY <1>2, <1>3, <1>4

LEMMA EndStep == ASSUME TypeInv, EndInv, [Next]_vars PROVE EndInv'
<1>0. /\ opts.skipErrors \in BOOLEAN /\ urls \in Seq(Urls)
      /\ listing \in {"on", "complete", "failed"} /\ closed \in BOOLEAN
  BY MirrorAssumption DEF TypeInv, StarterTypes, ListTypes, Pool!TypeOK
<1>1. CASE User \/ Watch \/ \E t \in TaskIds : TaskStep(t)
  <2>1. /\ UNCHANGED <<starter, urls, listing, compared, judge, closed>>
        /\ \A t \in TaskIds : status'[t] = status[t] \/ ~closed
    BY <1>1, UserFrame, WatchFrame, TaskFrame DEF lister, pool, Environment
  <2> QED BY <2>1, EndKept
<1>2. CASE \E k \in Keys : ListSource(k) \/ ListTarget(k)
  BY <1>2, EndKept DEF ListSource, ListTarget, pool
<1>3. ASSUME NEW k \in Keys, Compare(k) PROVE EndInv'
  <2>1. UrlOf(k) \in Seq(Urls)
    BY <1>3, UrlsOfKey
  <2>2. ErrorListed => ErrorListed'
    BY <1>0, <1>3, <2>1, ConcatKeeps DEF Compare, ErrorListed
  <2>3. starter = "status" => Head(urls') = Head(urls)
    BY <1>0, <1>3, <2>1, ConcatKeeps DEF Compare, TypeInv, StarterTypes
  <2> QED BY <1>3, <2>2, <2>3 DEF EndInv, Compare, judge, pool
<1>4. CASE ListingEnds
  BY <1>4 DEF EndInv, ListingEnds, ErrorListed, judge, pool
<1>5. CASE ListingFails
  <2>1. ErrorListed'
    BY <1>0, <1>5 DEF ListingFails, ErrorListed, Urls
  <2>2. starter = "status" => Head(urls') = Head(urls)
    BY <1>0, <1>5 DEF ListingFails, TypeInv, StarterTypes
  <2> QED BY <1>5, <2>1, <2>2 DEF EndInv, ListingFails, judge, pool
<1>6. CASE StartMirror
  <2>1. CASE Head(urls).do \in {"copy", "remove"}
    <3>1. /\ urls' = Tail(urls) /\ UNCHANGED <<starter, lister, judge>> /\ starter = "select"
          /\ QueueTask(Head(urls).do, Head(urls).key, "starter") /\ urls # <<>>
      BY <1>6, <2>1 DEF StartMirror, StarterSelects
    <3>2. ~closed /\ closed' = closed
      BY <3>1 DEF QueueTask, Pool!Submit
    <3>3. ErrorListed => ErrorListed'
      <4>1. ASSUME NEW n \in DOMAIN urls, urls[n].do = "error" PROVE ErrorListed'
        <5>1. n # 1
          BY <1>0, <2>1, <3>1, <4>1, TailKeeps
        <5>2. n - 1 \in DOMAIN urls' /\ urls'[n - 1] = urls[n]
          BY <1>0, <3>1, <5>1, TailKeeps
        <5> QED BY <4>1, <5>2 DEF ErrorListed
      <4> QED BY <4>1 DEF ErrorListed
    <3>4. UNCHANGED <<starter, listing, compared, errDuringMirror, cancelInProgress, cancelled,
                      monitor>>
      BY <3>1 DEF lister, judge
    <3>5. starter # "done" /\ starter # "status"
      BY <3>1
    <3> QED BY <1>0, <3>2, <3>3, <3>4, <3>5 DEF EndInv
  <2>2. CASE Head(urls).do \notin {"copy", "remove"}
    BY <1>6, <2>2 DEF StartMirror, StarterSelects, EndInv, ErrorListed, lister, judge, pool
  <2> QED BY <2>1, <2>2
<1>7. CASE monitor = "range" /\ StarterEnds
  <2>1. cancelled => errDuringMirror
    BY <1>7 DEF EndInv
  <2> QED BY <1>7, <2>1 DEF StarterEnds, StarterSelects, EndInv, ErrorListed, lister, judge, pool
<1>8. ASSUME NEW t \in TaskIds, StartTask(t) PROVE EndInv'
  <2>1. ~closed /\ UNCHANGED <<starter, urls, listing, compared, judge, closed>>
    BY <1>8 DEF StartTask, Pool!Start, lister
  <2>2. \A u \in TaskIds : status'[u] = status[u] \/ ~closed
    BY <2>1
  <2> QED BY <1>0, <2>1, <2>2 DEF EndInv, ErrorListed, judge
<1>9. ASSUME NEW t \in TaskIds, Deliver(t) PROVE EndInv'
  <2>1. /\ ~closed /\ closed' = closed /\ Judge(result[t] = "failed") /\ monitor = "range"
        /\ UNCHANGED <<starter, urls, listing, compared>>
    BY <1>9 DEF Deliver, Pool!Hand, lister
  <2>2. /\ errDuringMirror => errDuringMirror'
        /\ cancelInProgress' => errDuringMirror'
        /\ cancelled' => cancelInProgress'
        /\ monitor' = "range"
    BY <2>1, JudgedEnd
  <2> QED BY <2>1, <2>2 DEF EndInv, ErrorListed
<1>10. ASSUME NEW t \in TaskIds, FinishTask(t) PROVE EndInv'
  <2>1. ~closed
    BY <1>10 DEF FinishTask, Pool!Finish, EndInv
  <2>2. UNCHANGED <<starter, urls, listing, compared, judge, closed>>
    BY <1>10 DEF FinishTask, Pool!Finish, lister
  <2>3. \A u \in TaskIds : status'[u] = status[u] \/ ~closed
    BY <2>1
  <2> QED BY <1>0, <2>1, <2>2, <2>3 DEF EndInv, ErrorListed, judge
<1>11. CASE DeliverError
  <2>1. urls # <<>> /\ starter = "status" /\ starter' = "select" /\ urls' = Tail(urls)
    BY <1>11 DEF DeliverError, TypeInv, StarterTypes
  <2>2. /\ errDuringMirror' = (errDuringMirror \/ Head(urls).do = "error")
        /\ cancelInProgress' => errDuringMirror'
        /\ cancelled' => cancelInProgress'
        /\ monitor' = "range"
    BY <1>11, JudgedEnd DEF DeliverError
  <2>3. UNCHANGED <<listing, compared, closed, status>>
    BY <1>11 DEF DeliverError, lister, pool
  <2>4. ErrorListed => errDuringMirror' \/ ErrorListed'
    <3>1. ASSUME NEW n \in DOMAIN urls, urls[n].do = "error", n # 1 PROVE ErrorListed'
      <4>1. n - 1 \in DOMAIN urls' /\ urls'[n - 1] = urls[n]
        BY <1>0, <2>1, <3>1, TailKeeps
      <4> QED BY <3>1, <4>1 DEF ErrorListed
    <3>2. Head(urls) = urls[1]
      BY <1>0, <2>1, TailKeeps
    <3> QED BY <2>2, <3>1, <3>2 DEF ErrorListed
  <2> QED BY <2>1, <2>2, <2>3, <2>4 DEF EndInv
<1>12. CASE Close
  BY <1>12 DEF Close, Pool!Close, EndInv, ErrorListed, lister, judge
<1>13. CASE MonitorReturns
  BY <1>13 DEF MonitorReturns, EndInv, ErrorListed, lister, pool
<1>14. CASE UNCHANGED vars
  <2>1. UNCHANGED <<starter, urls, listing, compared, judge, closed, status>>
    BY <1>14 DEF vars, lister, pool
  <2> QED BY <2>1, EndKept
<1> QED
  BY <1>1, <1>2, <1>3, <1>4, <1>5, <1>6, <1>7, <1>8, <1>9, <1>10, <1>11, <1>12, <1>13, <1>14
  DEF Next, Running, Finished, Listing, Starter, Act, TaskStep

LEMMA InitialSync == Init => SyncInv
<1> SUFFICES ASSUME Init PROVE SeenInv /\ TaskInv /\ WayInv
  BY DEF SyncInv
<1>1. TypeInv
  BY InitialTypes
<1>2. /\ joinEvent = NoTask /\ dstBucket = srcBucket /\ compared = {} /\ urls = <<>>
      /\ \A k \in Keys : srcSeen[k] = -1 /\ dstSeen[k] = -1
      /\ \A t \in TaskIds : task[t] = NoTask /\ step[t] = "start" /\ result[t] = "none"
  BY DEF Init
<1>3. events \in Seq(Idle)
  <2>1. [type |-> "notImplemented", key |-> NoTask] \in Idle
    BY DEF Idle, Events, Event
  <2> QED BY <2>1 DEF Init
<1>4. \A k \in Keys : src[k] # 0 => dstBucket
  <2>1. src \in [Keys -> IF srcBucket THEN {0, 1} ELSE {0}]
    BY DEF Init
  <2>2. CASE srcBucket
    BY <1>2, <2>2
  <2>3. CASE ~srcBucket
    BY <2>1, <2>3
  <2> QED BY <2>2, <2>3
<1> QED
  BY <1>1, <1>2, <1>3, <1>4 DEF SeenInv, TaskInv, WayInv

\* What the function of a task does to the target.
LEMMA TaskSync ==
  ASSUME TypeInv, SeenInv, TaskInv, NEW t \in TaskIds, TaskStep(t)
  PROVE  /\ Works(t)' /\ dstBucket' = dstBucket
         /\ task[t] # NoTask /\ task[t] \in Tasks
         /\ \/ /\ dst' = dst /\ passedOver \subseteq passedOver'
               /\ result'[t] # result[t] /\ result'[t] \in {"ok", "denied"} =>
                    task[t].key \in passedOver'
            \/ /\ task[t].do \in {"copy", "remove"} /\ result'[t] = "ok"
               /\ dst' = [dst EXCEPT ![task[t].key] = src[task[t].key]]
               /\ passedOver' = passedOver \ {task[t].key}
<1>1. /\ UNCHANGED <<task, status, src, compared>> /\ status[t] = "running"
  BY TaskFrame DEF Environment, user, lister, pool
<1>2. task[t] # NoTask /\ task[t] \in Tasks
  BY <1>1 DEF TypeInv, TasksMatch, WorkTypes
<1>3. Works(t) /\ task'[t] = task[t]
  BY <1>1, <1>2 DEF TaskInv
<1>4. task[t].do = "copy" => dstBucket /\ task[t].key \in Keys
  BY <1>2, <1>3 DEF Works, SeenInv, Tasks
<1>5. /\ step \in [TaskIds -> Steps] /\ copied \in [TaskIds -> Versions]
      /\ result \in [TaskIds -> Results]
  BY DEF TypeInv, WorkTypes
<1>6. SUFFICES /\ step'[t] = "write" => copied'[t] = src[task[t].key]
               /\ step'[t] = "retry" => result'[t] \in {"denied", "failed"}
               /\ step'[t] = "returned" => result'[t] \in {"ok", "denied", "failed"}
               /\ dstBucket' = dstBucket
               /\ \/ /\ dst' = dst /\ passedOver \subseteq passedOver'
                     /\ result'[t] # result[t] /\ result'[t] \in {"ok", "denied"} =>
                          task[t].key \in passedOver'
                  \/ /\ task[t].do \in {"copy", "remove"} /\ result'[t] = "ok"
                     /\ dst' = [dst EXCEPT ![task[t].key] = src[task[t].key]]
                     /\ passedOver' = passedOver \ {task[t].key}
  BY <1>1, <1>2, <1>3 DEF Works
<1> USE <1>3, <1>4, <1>5 DEF Works, Returns, UploadFails, Runs, target
<1>7. CASE Report(t)
  BY <1>7 DEF Report
<1>8. CASE Stat(t)
  BY <1>8 DEF Stat
<1>9. CASE Read(t)
  BY <1>9 DEF Read
<1>10. CASE Write(t)
  BY <1>10 DEF Write
<1>11. CASE CopyFails(t)
  BY <1>11 DEF CopyFails
<1>12. CASE Retry(t) \/ RetryAbandoned(t)
  BY <1>12 DEF Retry, RetryAbandoned
<1>13. CASE Remove(t)
  BY <1>13 DEF Remove
<1>14. CASE CreateBucket(t) \/ DeleteBucket(t)
  BY <1>14 DEF CreateBucket, DeleteBucket
<1> QED
  BY <1>7, <1>8, <1>9, <1>10, <1>11, <1>12, <1>13, <1>14 DEF TaskStep

\* The steps that are neither of the users, the watcher, the listing nor a task.
Others ==
  \/ Starter \/ DeliverError \/ Close \/ MonitorReturns
  \/ \E t \in TaskIds : StartTask(t) \/ Deliver(t) \/ FinishTask(t)
  \/ UNCHANGED vars

LEMMA StepCases ==
  ASSUME [Next]_vars
  PROVE  User \/ Watch \/ Listing \/ (\E t \in TaskIds : TaskStep(t)) \/ Others
BY DEF Next, Running, Finished, Act, TaskStep, Others

LEMMA OthersFrame == ASSUME Others PROVE UNCHANGED <<opts, user, target, watch, lister>>
BY DEF Others, Starter, StartMirror, StarterEnds, DeliverError, Close, MonitorReturns,
   StartTask, Deliver, FinishTask, vars

LEMMA ListingFrame ==
  ASSUME Listing
  PROVE  UNCHANGED <<opts, user, target, watch, starter, pool, work, judge>>
BY DEF Listing, ListSource, ListTarget, Compare, ListingEnds, ListingFails

\* As long as nothing changes, the source does not.
LEMMA SourceKept ==
  ASSUME TypeInv, [Next]_vars, changes = 0, changes' = 0
  PROVE  /\ UNCHANGED <<src, srcBucket>>
         /\ User => StreamFails
<1>1. CASE User
  <2>1. StreamFails
    BY <1>1 DEF User, PutObject, DeleteObject, MakeBucket, RemoveBucket, Change
  <2> QED BY <2>1 DEF StreamFails, user
<1>2. CASE ~User
  <2>1. UNCHANGED user
    BY <1>2, StepCases, WatchFrame, ListingFrame, TaskFrame, OthersFrame DEF Environment
  <2> QED BY <1>2, <2>1 DEF user
<1> QED BY <1>1, <1>2

LEMMA SeenStep ==
  ASSUME TypeInv, changes = 0, changes' = 0, SeenInv, TaskInv, [Next]_vars
  PROVE  SeenInv'
<1>0. /\ src' = src /\ srcSeen \in [Keys -> Versions \cup {-1}]
      /\ dstSeen \in [Keys -> Versions \cup {-1}]
      /\ dst \in [Keys -> Versions]
  BY SourceKept DEF TypeInv, ListTypes, TargetTypes
<1>1. CASE User
  <2>1. events' \in Seq(Idle)
    <3>1. [type |-> "error", key |-> NoTask] \in Idle
      BY DEF Idle, Events, Event
    <3> QED BY <1>1, <3>1, SourceKept DEF StreamFails, Notify, SeenInv
  <2> QED BY <1>0, <1>1, <2>1, UserFrame DEF SeenInv, target, lister
<1>2. CASE Watch
  <2>1. events' \in Seq(Idle) /\ joinEvent' \in Idle \cup {NoTask}
    BY <1>2 DEF SeenInv, Watch, JoinTakes, JoinStops, WatchMirrorEvents, WatcherStops, StopReturns
  <2>2. UNCHANGED <<target, lister>>
    BY <1>2, WatchFrame
  <2> QED BY <1>0, <2>1, <2>2 DEF SeenInv, target, lister
<1>3. CASE Listing
  <2>1. UNCHANGED <<target, watch>>
    BY <1>3, ListingFrame
  <2>2. \A k \in Keys : /\ srcSeen'[k] \in {-1, src[k]}
                        /\ k \notin compared' => dstSeen'[k] \in {-1, dst[k]}
    BY <1>0, <1>3 DEF SeenInv, Listing, ListSource, ListTarget, Compare, ListingEnds, ListingFails
  <2> QED BY <1>0, <2>1, <2>2 DEF SeenInv, target, watch
<1>4. ASSUME NEW t \in TaskIds, TaskStep(t) PROVE SeenInv'
  <2>1. UNCHANGED <<watch, lister>>
    BY <1>4, TaskFrame DEF Environment
  <2>2. \A k \in Keys : k \notin compared => dst'[k] = dst[k]
    BY <1>0, <1>4, TaskSync DEF TaskInv, Works
  <2>3. dstBucket' = dstBucket
    BY <1>4, TaskSync
  <2> QED BY <1>0, <2>1, <2>2, <2>3 DEF SeenInv, watch, lister
<1>5. CASE Others
  BY <1>0, <1>5, OthersFrame DEF SeenInv, target, watch, lister
<1> QED
  BY <1>1, <1>2, <1>3, <1>4, <1>5, StepCases

LEMMA WorksKept ==
  ASSUME NEW t \in TaskIds, Works(t), src' = src, compared \subseteq compared',
         task'[t] = task[t], step'[t] = step[t], copied'[t] = copied[t], result'[t] = result[t]
  PROVE  Works(t)'
BY DEF Works

LEMMA AskedKept ==
  ASSUME src' = src, compared \subseteq compared', NEW q \in Seq(Asked)
  PROVE  q \in Seq(Asked')
<1>1. Asked \subseteq Asked'
  BY DEF Asked
<1> QED BY <1>1

\* A task that a goroutine queues, and the tasks there were.
LEMMA QueuedWorks ==
  ASSUME TypeInv, TaskInv, NEW do \in {"copy", "remove", "report"},
         NEW k \in Keys \cup {NoTask}, NEW by \in {"starter", "watcher"},
         do # "report" => by = "starter" /\ k \in compared,
         do = "copy" => src[k] # 0, do = "remove" => src[k] = 0,
         do \in {"copy", "remove"} => k \in Keys,
         QueueTask(do, k, by), src' = src, compared' = compared
  PROVE  \A t \in TaskIds :
           IF task'[t] = NoTask THEN step'[t] = "start" /\ result'[t] = "none" ELSE Works(t)'
<1>1. PICK n \in TaskIds :
        /\ status[n] = "new"
        /\ task' = [task EXCEPT ![n] = [do |-> do, key |-> k, by |-> by]]
        /\ UNCHANGED <<step, copied, tries, result>>
  BY Queued
<1>2. task \in [TaskIds -> Tasks \cup {NoTask}] /\ task[n] = NoTask
  BY <1>1 DEF TypeInv, WorkTypes, TasksMatch
<1>3. step[n] = "start" /\ result[n] = "none"
  BY <1>1, <1>2 DEF TaskInv
<1>4. task'[n] = [do |-> do, key |-> k, by |-> by]
  BY <1>1, <1>2
<1>5. Works(n)'
  BY <1>1, <1>3, <1>4 DEF Works
<1>6. ASSUME NEW t \in TaskIds, t # n
      PROVE  IF task'[t] = NoTask THEN step'[t] = "start" /\ result'[t] = "none" ELSE Works(t)'
  <2>1. task'[t] = task[t]
    BY <1>1, <1>2, <1>6
  <2> QED BY <1>1, <2>1, WorksKept DEF TaskInv
<1>7. task'[n] # NoTask
  BY <1>4, NoTaskAssumption DEF Task
<1> QED BY <1>5, <1>6, <1>7

\* What the comparison makes of a key of the source.
LEMMA UrlOfListed ==
  ASSUME NEW k \in Keys, srcSeen[k] # 0
  PROVE  /\ dstSeen[k] = 0 => UrlOf(k) = <<[do |-> "copy", key |-> k]>>
         /\ dstSeen[k] \notin {0, srcSeen[k]} =>
              IF opts.isOverwrite THEN UrlOf(k) = <<[do |-> "copy", key |-> k]>>
              ELSE UrlOf(k) = <<[do |-> "refuse", key |-> k]>>
         /\ dstSeen[k] # 0 /\ dstSeen[k] = srcSeen[k] => UrlOf(k) = <<>>
<1>1. CASE dstSeen[k] = 0
  BY <1>1 DEF UrlOf
<1>2. CASE dstSeen[k] \notin {0, srcSeen[k]}
  <2>1. CASE opts.isOverwrite
    BY <1>2, <2>1 DEF UrlOf
  <2>2. CASE ~opts.isOverwrite
    BY <1>2, <2>2 DEF UrlOf
  <2> QED BY <1>2, <2>1, <2>2
<1>3. CASE dstSeen[k] # 0 /\ dstSeen[k] = srcSeen[k]
  BY <1>3 DEF UrlOf
<1> QED BY <1>1, <1>2, <1>3

LEMMA TaskInvStep ==
  ASSUME TypeInv, changes = 0, changes' = 0, SeenInv, TaskInv, [Next]_vars
  PROVE  TaskInv'
<1> DEFINE Fine(t) == IF task[t] = NoTask THEN step[t] = "start" /\ result[t] = "none" ELSE Works(t)
<1>0. /\ src' = src /\ urls \in Seq(Asked) /\ urls \in Seq(Urls)
      /\ \A t \in TaskIds : Fine(t)
  BY SourceKept DEF TaskInv, TypeInv, StarterTypes
<1>a. ASSUME UNCHANGED <<urls, compared>>, \A t \in TaskIds : Fine(t)' PROVE TaskInv'
  BY <1>0, <1>a, AskedKept DEF TaskInv
<1>b. ASSUME compared \subseteq compared', NEW t \in TaskIds,
             task'[t] = task[t], step'[t] = step[t], copied'[t] = copied[t], result'[t] = result[t]
      PROVE  Fine(t)'
  BY <1>0, <1>b, WorksKept
<1>1. CASE User
  BY <1>1, <1>a, <1>b, UserFrame DEF lister, work
<1>2. CASE Watch
  <2>1. UNCHANGED <<urls, compared>>
    BY <1>2, WatchFrame DEF lister
  <2>2. CASE UNCHANGED work
    BY <2>1, <2>2, <1>a, <1>b DEF work
  <2>3. CASE ~UNCHANGED work
    <3>1. WatchMirrorEvents /\ joinEvent \in Idle
      BY <1>2, <2>3 DEF Watch, JoinTakes, JoinStops, WatchMirrorEvents, WatcherStops, StopReturns,
         SeenInv, TypeInv, WatchTypes
    <3>2. QueueTask("report", NoTask, "watcher")
      BY <2>3, <3>1 DEF WatchMirrorEvents, Idle
    <3> QED BY <1>0, <2>1, <3>2, <1>a, QueuedWorks
  <2> QED BY <2>2, <2>3
<1>3. CASE Listing
  <2>1. UNCHANGED work
    BY <1>3, ListingFrame
  <2>2. compared \subseteq compared'
    BY <1>3 DEF Listing, ListSource, ListTarget, Compare, ListingEnds, ListingFails
  <2>3. urls' \in Seq(Asked')
    <3>1. CASE urls' = urls
      BY <1>0, <2>2, <3>1, AskedKept
    <3>2. CASE ListingFails
      <4>1. [do |-> "error", key |-> NoTask] \in Asked'
        BY DEF Asked, Urls, Url
      <4> QED BY <1>0, <2>2, <3>2, <4>1, AskedKept DEF ListingFails
    <3>3. ASSUME NEW k \in Keys, Compare(k) PROVE urls' \in Seq(Asked')
      <4>1. compared' = compared \cup {k} /\ srcSeen[k] = src[k] /\ urls' = urls \o UrlOf(k)
        BY <3>3 DEF Compare, SeenInv
      <4>2. UrlOf(k) \in Seq(Asked')
        <5>1. CASE src[k] # 0
          <6>1. ASSUME NEW do \in {"copy", "refuse"}
                PROVE  <<[do |-> do, key |-> k]>> \in Seq(Asked')
            <7>1. [do |-> do, key |-> k] \in Asked'
              BY <1>0, <4>1, <5>1 DEF Asked, Urls, Url
            <7> QED BY <7>1
          <6>2. \/ UrlOf(k) = <<>>
                \/ UrlOf(k) = <<[do |-> "copy", key |-> k]>>
                \/ UrlOf(k) = <<[do |-> "refuse", key |-> k]>>
            BY <4>1, <5>1, UrlOfListed
          <6>3. <<>> \in Seq(Asked')
            OBVIOUS
          <6> QED BY <6>1, <6>2, <6>3, Zenon
        <5>2. CASE src[k] = 0
          <6>1. <<[do |-> "remove", key |-> k]>> \in Seq(Asked')
            <7>1. [do |-> "remove", key |-> k] \in Asked'
              BY <1>0, <4>1, <5>2 DEF Asked, Urls, Url
            <7> QED BY <7>1
          <6>2. UrlOf(k) = <<>> \/ UrlOf(k) = <<[do |-> "remove", key |-> k]>>
            BY <4>1, <5>2 DEF UrlOf
          <6>3. <<>> \in Seq(Asked')
            OBVIOUS
          <6> QED BY <6>1, <6>2, <6>3, Zenon
        <5> QED BY <5>1, <5>2
      <4>3. urls \in Seq(Asked')
        BY <1>0, <2>2, AskedKept
      <4> QED BY <4>1, <4>2, <4>3
    <3> QED BY <1>3, <3>1, <3>2, <3>3 DEF Listing, ListSource, ListTarget, ListingEnds
  <2> QED BY <2>1, <2>2, <2>3, <1>b DEF TaskInv, work
<1>4. ASSUME NEW t \in TaskIds, TaskStep(t) PROVE TaskInv'
  <2>1. UNCHANGED <<urls, compared, task>>
    BY <1>4, TaskFrame DEF Environment, lister
  <2>2. Fine(t)'
    BY <1>4, <2>1, TaskSync
  <2>3. \A u \in TaskIds \ {t} : Fine(u)'
    BY <1>4, <2>1, <1>b, TaskFrame
  <2> QED BY <2>1, <2>2, <2>3, <1>a
<1>5. CASE StartMirror
  <2>1. CASE Head(urls).do \in {"copy", "remove"}
    <3>1. /\ QueueTask(Head(urls).do, Head(urls).key, "starter") /\ compared' = compared
          /\ urls' = Tail(urls) /\ urls # <<>>
      BY <1>5, <2>1 DEF StartMirror, lister
    <3>2. Head(urls) \in Asked /\ urls' \in Seq(Asked)
      BY <1>0, <3>1
    <3>3. \A t \in TaskIds : Fine(t)'
      BY <1>0, <2>1, <3>1, <3>2, QueuedWorks DEF Asked, Urls, Url
    <3> QED BY <1>0, <3>1, <3>2, <3>3, AskedKept DEF TaskInv
  <2>2. CASE Head(urls).do \notin {"copy", "remove"}
    BY <1>5, <2>2, <1>a, <1>b DEF StartMirror, lister, work
  <2> QED BY <2>1, <2>2
<1>6. CASE DeliverError
  <2>1. UNCHANGED <<compared, work>> /\ urls' = Tail(urls) /\ urls # <<>>
    BY <1>6 DEF DeliverError, lister, TypeInv, StarterTypes
  <2>2. urls' \in Seq(Asked)
    BY <1>0, <2>1
  <2> QED BY <1>0, <2>1, <2>2, <1>b, AskedKept DEF TaskInv, work
<1>7. ASSUME NEW t \in TaskIds, FinishTask(t) PROVE TaskInv'
  <2>1. UNCHANGED <<urls, compared>>
    BY <1>7 DEF FinishTask, lister
  <2>2. \A u \in TaskIds \ {t} : Fine(u)'
    BY <1>7, <2>1, <1>b DEF FinishTask, TypeInv, WorkTypes
  <2>3. Fine(t)'
    BY <1>7 DEF FinishTask, TypeInv, WorkTypes
  <2> QED BY <2>1, <2>2, <2>3, <1>a
<1>8. CASE \/ StarterEnds \/ Close \/ MonitorReturns \/ UNCHANGED vars
           \/ \E t \in TaskIds : StartTask(t) \/ Deliver(t)
  <2>1. UNCHANGED <<urls, compared, work>>
    BY <1>8 DEF StarterEnds, Close, MonitorReturns, vars, StartTask, Deliver, lister
  <2> QED BY <2>1, <1>a, <1>b DEF work
<1> QED
  BY <1>1, <1>2, <1>3, <1>4, <1>5, <1>6, <1>7, <1>8, StepCases DEF Others, Starter

\* What the steps do to a key that is on its way.
LEMMA UrlKept ==
  ASSUME urls \in Seq(Urls), NEW k,
         \/ urls' = urls
         \/ \E r \in Seq(Urls) : urls' = urls \o r
         \/ urls # <<>> /\ urls' = Tail(urls) /\ Head(urls).do \notin {"copy", "remove"}
  PROVE  UrlFor(k) => UrlFor(k)'
<1>1. ASSUME NEW n \in DOMAIN urls, urls[n].do \in {"copy", "remove"}, urls[n].key = k
      PROVE  UrlFor(k)'
  <2>1. CASE urls' = urls
    BY <1>1, <2>1 DEF UrlFor
  <2>2. ASSUME NEW r \in Seq(Urls), urls' = urls \o r PROVE UrlFor(k)'
    BY <1>1, <2>2, ConcatKeeps DEF UrlFor
  <2>3. CASE urls # <<>> /\ urls' = Tail(urls) /\ Head(urls).do \notin {"copy", "remove"}
    <3>1. n - 1 \in DOMAIN urls' /\ urls'[n - 1] = urls[n]
      BY <1>1, <2>3, TailKeeps
    <3> QED BY <1>1, <3>1 DEF UrlFor
  <2> QED BY <2>1, <2>2, <2>3
<1> QED BY <1>1 DEF UrlFor

LEMMA TaskKept ==
  ASSUME NEW k,
         \A t \in TaskIds :
           status[t] \in {"waiting", "running"} =>
             /\ task'[t] = task[t] /\ status'[t] \in {"waiting", "running"}
             /\ result'[t] = "ok" => result[t] = "ok"
  PROVE  TaskFor(k) => TaskFor(k)'
BY DEF TaskFor

LEMMA SameWay ==
  ASSUME WayInv, UNCHANGED <<opts, src, dst, compared>>, passedOver \subseteq passedOver',
         errDuringMirror => errDuringMirror',
         \A k \in Keys : UrlFor(k) => UrlFor(k)' \/ TaskFor(k)',
         \A k \in Keys : TaskFor(k) => TaskFor(k)' \/ errDuringMirror' \/ Done(k),
         \A t \in TaskIds :
           result'[t] = "denied" =>
             (result[t] = "denied" /\ task'[t] = task[t]) \/ task'[t].key \in passedOver',
         compared \subseteq Keys
  PROVE  WayInv'
<1>1. \A k : Done(k) => Done(k)'
  BY DEF Done, SyncedAtReturn
<1>2. \A t \in TaskIds : result'[t] = "denied" => Done(task[t].key)'
  BY <1>1 DEF WayInv, Done
<1>3. \A k \in compared : Done(k)' \/ errDuringMirror' \/ UrlFor(k)' \/ TaskFor(k)'
  BY <1>1 DEF WayInv
<1> QED BY <1>2, <1>3 DEF WayInv

LEMMA WayStep ==
  ASSUME TypeInv, EndInv, changes = 0, changes' = 0, SeenInv, TaskInv, WayInv, [Next]_vars
  PROVE  WayInv'
<1>0. /\ src' = src /\ urls \in Seq(Asked) /\ urls \in Seq(Urls) /\ compared \subseteq Keys
      /\ task \in [TaskIds -> Tasks \cup {NoTask}] /\ dst \in [Keys -> Versions]
      /\ status \in [TaskIds -> {"new", "waiting", "running", "delivered", "over"}]
      /\ result \in [TaskIds -> Results]
  BY SourceKept DEF TaskInv, TypeInv, StarterTypes, ListTypes, WorkTypes, Pool!TypeOK, TargetTypes
<1>n. \A t \in TaskIds : status[t] = "new" => result[t] = "none"
  BY DEF TaskInv, TypeInv, TasksMatch
<1>1. CASE User
  <2>1. UNCHANGED <<opts, dst, passedOver, compared, errDuringMirror, urls, status, task, result>>
    BY <1>1, UserFrame DEF target, lister, pool, work, judge
  <2> QED BY <1>0, <2>1, SameWay DEF UrlFor, TaskFor
<1>2. CASE Watch
  <2>1. UNCHANGED <<opts, dst, passedOver, compared, errDuringMirror, urls, result>>
    BY <1>2, WatchFrame DEF target, lister, judge
  <2>2. \A k \in Keys : TaskFor(k) => TaskFor(k)'
    BY <1>2, <2>1, WatchFrame, TaskKept
  <2>3. \A t \in TaskIds : result'[t] = "denied" => result[t] = "denied" /\ task'[t] = task[t]
    BY <1>2, <1>n, <2>1, WatchFrame
  <2> QED BY <1>0, <2>1, <2>2, <2>3, SameWay DEF UrlFor
<1>3. CASE Listing /\ UNCHANGED <<compared>>
  <2>1. UNCHANGED <<opts, dst, passedOver, compared, errDuringMirror, status, task, result>>
    BY <1>3, ListingFrame DEF target, pool, work, judge
  <2>2. urls' = urls \/ urls' = urls \o <<[do |-> "error", key |-> NoTask]>>
    BY <1>0, <1>3 DEF Listing, ListSource, ListTarget, Compare, ListingEnds, ListingFails
  <2>3. <<[do |-> "error", key |-> NoTask]>> \in Seq(Urls)
    BY DEF Urls, Url
  <2>4. \A k \in Keys : UrlFor(k) => UrlFor(k)'
    BY <1>0, <2>2, <2>3, UrlKept
  <2> QED BY <1>0, <2>1, <2>4, SameWay DEF TaskFor
<1>4. ASSUME NEW k \in Keys, Compare(k) PROVE WayInv'
  <2>1. /\ UNCHANGED <<opts, dst, passedOver, errDuringMirror, status, task, result>>
        /\ compared' = compared \cup {k} /\ urls' = urls \o UrlOf(k)
        /\ k \notin compared /\ srcSeen[k] = src[k] /\ dstSeen[k] = dst[k]
    BY <1>4 DEF Compare, target, pool, work, judge, SeenInv
  <2>2. UrlOf(k) \in Seq(Urls)
    BY UrlsOfKey
  <2>3. \A j \in compared : /\ UrlFor(j) => UrlFor(j)'
                            /\ TaskFor(j) => TaskFor(j)'
                            /\ Done(j) => Done(j)'
    BY <1>0, <2>1, <2>2, UrlKept DEF TaskFor, Done, SyncedAtReturn
  <2>4. ASSUME NEW do \in {"copy", "remove"}, UrlOf(k) = <<[do |-> do, key |-> k]>> PROVE UrlFor(k)'
    <3>1. 1 \in DOMAIN UrlOf(k) /\ UrlOf(k)[1] = [do |-> do, key |-> k]
      BY <2>4
    <3>2. /\ Len(urls) + 1 \in DOMAIN urls'
          /\ urls'[Len(urls) + 1] = [do |-> do, key |-> k]
      BY <1>0, <2>1, <2>2, <3>1, ConcatKeeps
    <3>3. [do |-> do, key |-> k].do = do /\ [do |-> do, key |-> k].key = k
      OBVIOUS
    <3> QED BY <3>2, <3>3 DEF UrlFor
  <2>6. \A t \in TaskIds : result'[t] = "denied" => Done(task[t].key)'
    BY <1>0, <2>1 DEF WayInv, Done, SyncedAtReturn
  <2>5. SyncedAtReturn(k)' \/ UrlFor(k)'
    <3>1. CASE src[k] # 0
      BY <1>0, <2>1, <2>4, <3>1, UrlOfListed DEF SyncedAtReturn
    <3>2. CASE src[k] = 0
      <4>1. CASE dst[k] # 0 /\ opts.isRemove
        BY <2>1, <2>4, <3>2, <4>1 DEF UrlOf
      <4> QED BY <1>0, <2>1, <3>2, <4>1 DEF SyncedAtReturn
    <3> QED BY <3>1, <3>2
  <2> QED BY <2>1, <2>3, <2>5, <2>6 DEF WayInv, Done
<1>5. ASSUME NEW t \in TaskIds, TaskStep(t) PROVE WayInv'
  <2>1. /\ UNCHANGED <<opts, compared, errDuringMirror, urls, status, task>>
        /\ \A u \in TaskIds \ {t} : result'[u] = result[u]
    BY <1>5, TaskFrame DEF Environment, lister, pool, judge
  <2>2. CASE /\ dst' = dst /\ passedOver \subseteq passedOver'
             /\ result'[t] # result[t] /\ result'[t] \in {"ok", "denied"} =>
                  task[t].key \in passedOver'
    <3>1. CASE task[t].key \in passedOver'
      <4>1. \A k \in Keys : k # task[t].key /\ TaskFor(k) => TaskFor(k)'
        BY <2>1 DEF TaskFor
      <4>2. \A k : Done(k) => Done(k)'
        BY <1>0, <2>1, <2>2 DEF Done, SyncedAtReturn
      <4>3. \A u \in TaskIds : result'[u] = "denied" => Done(task[u].key)'
        BY <2>1, <3>1, <4>2 DEF WayInv, Done
      <4>4. \A k \in compared : Done(k)' \/ errDuringMirror' \/ UrlFor(k)' \/ TaskFor(k)'
        BY <1>0, <2>1, <3>1, <4>1, <4>2 DEF WayInv, Done, UrlFor
      <4> QED BY <2>1, <4>3, <4>4 DEF WayInv
    <3>2. CASE task[t].key \notin passedOver'
      <4>1. result'[t] = "ok" => result[t] = "ok"
        BY <2>2, <3>2
      <4>2. \A k \in Keys : TaskFor(k) => TaskFor(k)'
        BY <2>1, <4>1, TaskKept
      <4>3. \A u \in TaskIds : result'[u] = "denied" => result[u] = "denied" /\ task'[u] = task[u]
        BY <2>1, <2>2, <3>2
      <4> QED BY <1>0, <2>1, <2>2, <4>2, <4>3, SameWay DEF UrlFor
    <3> QED BY <3>1, <3>2
  <2>3. CASE /\ task[t].do \in {"copy", "remove"} /\ result'[t] = "ok"
             /\ dst' = [dst EXCEPT ![task[t].key] = src[task[t].key]]
             /\ passedOver' = passedOver \ {task[t].key}
    <3>1. PICK j \in Keys : /\ task[t].key = j /\ dst' = [dst EXCEPT ![j] = src[j]]
                            /\ passedOver' = passedOver \ {j}
      BY <1>5, <2>3, TaskSync DEF Tasks
    <3>2. SyncedAtReturn(j)'
      <4>1. dst'[j] = src[j]
        BY <1>0, <3>1
      <4> QED BY <1>0, <4>1 DEF SyncedAtReturn
    <3>3. ASSUME NEW k \in Keys, k # j, TaskFor(k) PROVE TaskFor(k)'
      BY <2>1, <3>1, <3>3 DEF TaskFor
    <3>4. \A k : Done(k) => Done(k)'
      <4>1. \A k : k # j => dst'[k] = dst[k]
        BY <1>0, <3>1
      <4> QED BY <1>0, <2>1, <3>1, <3>2, <4>1 DEF Done, SyncedAtReturn
    <3>5. \A u \in TaskIds : result'[u] = "denied" => Done(task[u].key)'
      BY <2>1, <2>3, <3>4 DEF WayInv
    <3>6. \A k \in compared : Done(k)' \/ errDuringMirror' \/ UrlFor(k)' \/ TaskFor(k)'
      BY <1>0, <2>1, <3>2, <3>3, <3>4 DEF WayInv, UrlFor, Done
    <3> QED BY <2>1, <3>5, <3>6 DEF WayInv
  <2> QED BY <1>5, <2>2, <2>3, TaskSync
<1>6. CASE StartMirror
  <2>1. UNCHANGED <<opts, dst, passedOver, compared, errDuringMirror>>
    BY <1>6 DEF StartMirror, target, lister, judge
  <2>2. CASE Head(urls).do \notin {"copy", "remove"}
    BY <1>0, <1>6, <2>1, <2>2, SameWay DEF StartMirror, pool, work, UrlFor, TaskFor
  <2>3. CASE Head(urls).do \in {"copy", "remove"}
    <3>1. urls' = Tail(urls) /\ urls # <<>>
      BY <1>6, <2>3 DEF StartMirror
    <3>2. PICK j \in Keys : Head(urls).key = j /\ QueueTask(Head(urls).do, j, "starter")
      BY <1>0, <1>6, <2>3, <3>1 DEF StartMirror, Urls
    <3>3. PICK n \in TaskIds :
            /\ status[n] = "new" /\ status' = [status EXCEPT ![n] = "waiting"]
            /\ task' = [task EXCEPT ![n] = [do |-> Head(urls).do, key |-> j, by |-> "starter"]]
            /\ UNCHANGED result
      BY <2>3, <3>1, <3>2, Queued
    <3>4. TaskFor(j)'
      <4>1. task'[n] = [do |-> Head(urls).do, key |-> j, by |-> "starter"] /\ status'[n] = "waiting"
        BY <1>0, <3>3
      <4>2. task'[n] # NoTask
        BY <2>3, <3>2, <4>1, NoTaskAssumption DEF Task
      <4>3. result[n] = "none"
        BY <3>3 DEF TaskInv, TypeInv, TasksMatch
      <4>4. task'[n].do \in {"copy", "remove"} /\ task'[n].key = j
        BY <2>3, <4>1
      <4> QED BY <3>3, <4>1, <4>2, <4>3, <4>4 DEF TaskFor
    <3>5. \A k \in Keys : TaskFor(k) => TaskFor(k)'
      BY <1>0, <3>3, TaskKept
    <3>6. ASSUME NEW k \in Keys, k # j, UrlFor(k) PROVE UrlFor(k)'
      <4>1. PICK m \in DOMAIN urls : urls[m].do \in {"copy", "remove"} /\ urls[m].key = k
        BY <3>6 DEF UrlFor
      <4>2. m # 1
        BY <1>0, <3>1, <3>2, <3>6, <4>1, TailKeeps
      <4>3. m - 1 \in DOMAIN urls' /\ urls'[m - 1] = urls[m]
        BY <1>0, <3>1, <4>2, TailKeeps
      <4> QED BY <4>1, <4>3 DEF UrlFor
    <3>7. \A k \in Keys : UrlFor(k) => UrlFor(k)' \/ TaskFor(k)'
      BY <3>4, <3>6
    <3>8. \A t \in TaskIds : result'[t] = "denied" => result[t] = "denied" /\ task'[t] = task[t]
      BY <1>0, <1>n, <3>3
    <3> QED BY <1>0, <2>1, <3>5, <3>7, <3>8, SameWay
  <2> QED BY <2>2, <2>3
<1>7. CASE monitor = "range" /\ DeliverError
  <2>1. /\ UNCHANGED <<opts, dst, passedOver, compared, status, task, result>>
        /\ urls' = Tail(urls) /\ urls # <<>> /\ Head(urls).do \notin {"copy", "remove"}
    BY <1>7 DEF DeliverError, target, lister, pool, work, TypeInv, StarterTypes, EndInv
  <2>2. errDuringMirror => errDuringMirror'
    BY <1>7 DEF DeliverError, Judge
  <2>3. \A k \in Keys : UrlFor(k) => UrlFor(k)'
    BY <1>0, <2>1, UrlKept
  <2> QED BY <1>0, <2>1, <2>2, <2>3, SameWay DEF TaskFor
<1>8. ASSUME NEW t \in TaskIds, StartTask(t) PROVE WayInv'
  <2>1. UNCHANGED <<opts, dst, passedOver, compared, errDuringMirror, urls, task, result>>
    BY <1>8 DEF StartTask, target, lister, work, judge
  <2>2. status' = [status EXCEPT ![t] = "running"]
    BY <1>8 DEF StartTask, Pool!Start
  <2>3. \A k \in Keys : TaskFor(k) => TaskFor(k)'
    BY <1>0, <2>1, <2>2, TaskKept
  <2> QED BY <1>0, <2>1, <2>3, SameWay DEF UrlFor
<1>9. ASSUME monitor = "range", NEW t \in TaskIds, Deliver(t) PROVE WayInv'
  <2>1. UNCHANGED <<opts, dst, passedOver, compared, urls, task, result>>
    BY <1>9 DEF Deliver, target, lister, work
  <2>2. /\ status' = [status EXCEPT ![t] = "delivered"]
        /\ step[t] = "returned" /\ Judge(result[t] = "failed")
    BY <1>9 DEF Deliver, Pool!Hand
  <2>3. errDuringMirror' = (errDuringMirror \/ result[t] = "failed")
    BY <1>9, <2>2, JudgedEnd
  <2>4. task[t] # NoTask => result[t] \in {"ok", "denied", "failed"}
    BY <2>2 DEF TaskInv, Works
  <2>5. ASSUME NEW k \in Keys, TaskFor(k) PROVE TaskFor(k)' \/ errDuringMirror' \/ Done(k)
    <3>1. PICK u \in TaskIds :
            /\ task[u] # NoTask /\ task[u].do \in {"copy", "remove"} /\ task[u].key = k
            /\ status[u] \in {"waiting", "running"} /\ result[u] # "ok"
      BY <2>5 DEF TaskFor
    <3>2. CASE u = t
      <4>1. result[t] = "denied" => Done(k)
        BY <3>1, <3>2 DEF WayInv
      <4> QED BY <2>3, <2>4, <3>1, <3>2, <4>1
    <3>3. CASE u # t
      <4>1. status'[u] = status[u]
        BY <1>0, <2>2, <3>3
      <4> QED BY <2>1, <3>1, <4>1 DEF TaskFor
    <3> QED BY <3>2, <3>3
  <2> QED BY <1>0, <2>1, <2>3, <2>5, SameWay DEF UrlFor
<1>10. ASSUME NEW t \in TaskIds, FinishTask(t) PROVE WayInv'
  <2>1. UNCHANGED <<opts, dst, passedOver, compared, errDuringMirror, urls>>
    BY <1>10 DEF FinishTask, target, lister, judge
  <2>2. /\ status[t] = "delivered" /\ status' = [status EXCEPT ![t] = "over"]
        /\ task' = [task EXCEPT ![t] = NoTask] /\ result' = [result EXCEPT ![t] = "none"]
    BY <1>10 DEF FinishTask, Pool!Finish
  <2>3. \A k \in Keys : TaskFor(k) => TaskFor(k)'
    BY <1>0, <2>2, TaskKept
  <2>4. \A u \in TaskIds : result'[u] = "denied" => result[u] = "denied" /\ task'[u] = task[u]
    BY <1>0, <2>2
  <2> QED BY <1>0, <2>1, <2>3, <2>4, SameWay DEF UrlFor
<1>11. CASE StarterEnds \/ Close \/ MonitorReturns \/ UNCHANGED vars
  <2>1. UNCHANGED <<opts, dst, passedOver, compared, errDuringMirror, urls, status, task, result>>
    BY <1>11 DEF StarterEnds, Close, Pool!Close, MonitorReturns, vars, target, lister, pool, work,
       judge
  <2> QED BY <1>0, <2>1, SameWay DEF UrlFor, TaskFor
<1>12. CASE Listing
  BY <1>3, <1>4, <1>12 DEF Listing, ListSource, ListTarget, ListingEnds, ListingFails
<1> QED
  BY <1>1, <1>2, <1>5, <1>6, <1>7, <1>8, <1>9, <1>10, <1>11, <1>12, StepCases
  DEF Others, Starter, DeliverError, Deliver

LEMMA MirrorInvariant == Spec => [](TypeInv /\ EndInv /\ SyncInv)
<1>1. Init => TypeInv /\ EndInv /\ SyncInv
  BY InitialTypes, InitialEnd, InitialSync
<1>2. TypeInv /\ EndInv /\ SyncInv /\ [Next]_vars => (TypeInv /\ EndInv /\ SyncInv)'
  <2> SUFFICES ASSUME TypeInv, EndInv, SyncInv, [Next]_vars, changes' = 0
               PROVE  (SeenInv /\ TaskInv /\ WayInv)'
    BY TypeStep, EndStep DEF SyncInv
  <2>1. changes = 0
    <3>1. CASE User
      BY <3>1 DEF User, PutObject, DeleteObject, MakeBucket, RemoveBucket, StreamFails, Change, user,
         TypeInv, UserTypes
    <3>2. CASE ~User
      <4>1. UNCHANGED user
        BY <3>2, StepCases, WatchFrame, ListingFrame, TaskFrame, OthersFrame DEF Environment
      <4> QED BY <4>1 DEF user
    <3> QED BY <3>1, <3>2
  <2> QED BY <2>1, SeenStep, TaskInvStep, WayStep DEF SyncInv
<1> QED BY <1>1, <1>2, PTL DEF Spec

\* mirror says that nothing failed only when the target is what the source is,
\* but for the objects whose last copy or removal was denied, an error that it
\* ignores: for any number of objects, workers, failures and retries, with and
\* without --watch, --remove, --overwrite and --skip-errors.
THEOREM MirrorSuccessSynced == Spec => []SuccessMeansSynced
<1>1. TypeInv /\ EndInv /\ SyncInv => SuccessMeansSynced
  <2> SUFFICES ASSUME TypeInv, EndInv, SyncInv, monitor = "returned", ~errDuringMirror, changes = 0,
                      NEW k \in Keys \ passedOver
               PROVE  SyncedAtReturn(k)
    BY DEF SuccessMeansSynced
  <2>1. closed /\ starter = "done" /\ \A t \in TaskIds : status[t] \in {"new", "over"}
    BY DEF EndInv
  <2>2. urls = <<>> /\ listing = "complete" /\ compared = Keys
    BY <2>1 DEF EndInv, ErrorListed, TypeInv, ListTypes
  <2>3. ~UrlFor(k) /\ ~TaskFor(k)
    BY <2>1, <2>2 DEF UrlFor, TaskFor
  <2> QED BY <2>2, <2>3 DEF SyncInv, WayInv, Done
<1> QED
  BY <1>1, MirrorInvariant, PTL

-----------------------------------------------------------------------------
(***************************************************************************)
(* BucketBeforeObjects.                                                    *)
(***************************************************************************)
InHands(t) == status[t] \in {"running", "delivered"}
BucketTasks == {t \in TaskIds : task[t] # NoTask /\ task[t].do \in {"makeBucket", "removeBucket"}}

\* The tasks about the bucket come from the watcher and run alone; the watcher
\* waits until its last task has started.
AloneInv ==
  /\ \A t \in BucketTasks : t \in solo /\ task[t].by = "watcher"
  /\ \A t, u \in TaskIds : InHands(t) /\ InHands(u) /\ t \in solo => t = u
  /\ \A t, u \in TaskIds :
       /\ status[t] = "waiting" /\ task[t].by = "watcher"
       /\ status[u] = "waiting" /\ task[u].by = "watcher"
       => t = u
  /\ \A t \in TaskIds :
       status[t] \in {"new", "waiting", "over"} => step[t] = "start" /\ result[t] = "none"

\* When all that was queued is over, the target has the bucket.
Comes(do, s) == \E t \in BucketTasks : task[t].do = do /\ status[t] = s
Expected ==
  \/ errDuringMirror
  \/ Comes("makeBucket", "waiting")
  \/ /\ ~Comes("removeBucket", "waiting")
     /\ \/ Comes("makeBucket", "running")
        \/ dstBucket /\ ~Comes("removeBucket", "running")

\* The events that the watcher has yet to see, and what a put among them (or one
\* that a user may do next) can rely on.
Queue == IF joinEvent = NoTask THEN events ELSE <<joinEvent>> \o events
Put(p) == IF p \in DOMAIN Queue THEN Queue[p].type = "put" ELSE srcBucket /\ stream = "open"
Kept(m, p) == \A i \in DOMAIN Queue : m < i /\ i < p => Queue[i].type # "removeBucket"
Made(p) == \E m \in DOMAIN Queue : m < p /\ Queue[m].type = "makeBucket" /\ Kept(m, p)
QueueInv ==
  \A p \in 1..(Len(Queue) + 1) : Put(p) => Made(p) \/ (Kept(0, p) /\ Expected)

\* What a task finds, and what it returns.
FindsInv ==
  \A t \in TaskIds : task[t] # NoTask =>
    /\ task[t].do = "copy" /\ task[t].by = "watcher" =>
         /\ status[t] = "waiting" => Expected
         /\ InHands(t) => errDuringMirror \/ dstBucket
    /\ task[t].do = "makeBucket" =>
         /\ step[t] \in {"start", "returned"}
         /\ step[t] = "returned" => result[t] \in {"ok", "failed"}
         /\ result[t] = "ok" => dstBucket
    /\ result[t] = "noBucket" =>
         task[t].do = "copy" /\ (task[t].by = "watcher" => errDuringMirror)

BucketInv == AloneInv /\ QueueInv /\ FindsInv

LEMMA QueueTypes ==
  ASSUME TypeInv
  PROVE  Queue \in Seq(Events) /\ Len(Queue) \in Nat /\ DOMAIN Queue = 1..Len(Queue)
<1>1. Queue \in Seq(Events)
  <2>1. CASE joinEvent = NoTask
    BY <2>1 DEF Queue, TypeInv, WatchTypes
  <2>2. CASE joinEvent # NoTask
    <3>1. joinEvent \in Events /\ events \in Seq(Events)
      BY <2>2 DEF TypeInv, WatchTypes
    <3>2. <<joinEvent>> \o events \in Seq(Events)
      BY <3>1
    <3> QED BY <2>2, <3>2 DEF Queue
  <2> QED BY <2>1, <2>2
<1> QED BY <1>1

\* An event is added: a put of a user relies on what the user saw.
LEMMA QueueGrows ==
  ASSUME TypeInv, QueueInv, NEW e \in Events, Queue' = Append(Queue, e),
         Expected => Expected', stream' = stream,
         e.type = "put" => srcBucket /\ stream = "open",
         srcBucket' /\ stream = "open" =>
           e.type = "makeBucket" \/ (e.type # "removeBucket" /\ srcBucket)
  PROVE  QueueInv'
<1>1. /\ Len(Queue) \in Nat /\ DOMAIN Queue = 1..Len(Queue)
      /\ Len(Queue') = Len(Queue) + 1 /\ DOMAIN (Queue') = 1..(Len(Queue) + 1)
      /\ Queue'[Len(Queue) + 1] = e
      /\ \A i \in 1..Len(Queue) : Queue'[i] = Queue[i]
  BY QueueTypes
<1>2. ASSUME NEW p \in 1..(Len(Queue) + 1), Put(p)'
      PROVE  Made(p)' \/ (Kept(0, p)' /\ Expected')
  <2>1. Put(p)
    BY <1>1, <1>2 DEF Put
  <2>2. Kept(0, p) => Kept(0, p)'
    BY <1>1 DEF Kept
  <2>3. Made(p) => Made(p)'
    BY <1>1 DEF Made, Kept
  <2> QED BY <1>1, <2>1, <2>2, <2>3 DEF QueueInv
<1>3. ASSUME NEW p, p = Len(Queue) + 2, Put(p)' PROVE Made(p)' \/ (Kept(0, p)' /\ Expected')
  <2>0. PICK o \in 1..(Len(Queue) + 1) : o = Len(Queue) + 1
    BY <1>1
  <2>1. srcBucket' /\ stream = "open"
    BY <1>1, <1>3 DEF Put
  <2>2. CASE e.type = "makeBucket"
    <3>1. o \in DOMAIN (Queue') /\ o < p /\ Queue'[o].type = "makeBucket"
      BY <1>1, <1>3, <2>0, <2>2
    <3>2. Kept(o, p)'
      BY <1>1, <1>3, <2>0 DEF Kept
    <3> QED BY <1>1, <3>1, <3>2 DEF Made
  <2>3. CASE e.type # "removeBucket" /\ srcBucket
    <3>1. Put(o) /\ o \in 1..(Len(Queue) + 1)
      BY <1>1, <2>0, <2>1, <2>3 DEF Put
    <3>2. Kept(0, o) => Kept(0, p)'
      BY <1>1, <1>3, <2>0, <2>3 DEF Kept
    <3>3. Made(o) => Made(p)'
      BY <1>1, <1>3, <2>0, <2>3 DEF Made, Kept
    <3> QED BY <3>1, <3>2, <3>3 DEF QueueInv
  <2> QED BY <2>1, <2>2, <2>3
<1>4. Len(Queue') + 1 = Len(Queue) + 2
  BY <1>1
<1>5. \A p \in 1..(Len(Queue') + 1) : p \in 1..(Len(Queue) + 1) \/ p = Len(Queue) + 2
  BY <1>1
<1> QED
  BY <1>2, <1>3, <1>5 DEF QueueInv

\* The watcher takes its next event.
LEMMA QueueTaken ==
  ASSUME TypeInv, QueueInv, Queue # <<>>, Queue' = Tail(Queue), UNCHANGED <<stream, srcBucket>>,
         Head(Queue).type = "makeBucket" => Expected',
         Head(Queue).type # "removeBucket" /\ Expected => Expected'
  PROVE  QueueInv'
<1>1. /\ Len(Queue) \in Nat /\ DOMAIN Queue = 1..Len(Queue) /\ 1 \in DOMAIN Queue
      /\ Len(Queue') = Len(Queue) - 1 /\ DOMAIN (Queue') = 1..(Len(Queue) - 1)
      /\ Head(Queue) = Queue[1]
      /\ \A i \in 1..(Len(Queue) - 1) : Queue'[i] = Queue[i + 1]
  BY QueueTypes
<1>2. ASSUME NEW p \in 1..Len(Queue), Put(p)' PROVE Made(p)' \/ (Kept(0, p)' /\ Expected')
  <2>1. Put(p + 1) /\ p + 1 \in 1..(Len(Queue) + 1)
    BY <1>1, <1>2 DEF Put
  <2>2. CASE Kept(0, p + 1) /\ Expected
    <3>1. Kept(0, p)'
      BY <1>1, <2>2 DEF Kept
    <3>2. Queue[1].type # "removeBucket"
      BY <1>1, <2>2 DEF Kept
    <3> QED BY <1>1, <2>2, <3>1, <3>2
  <2>3. ASSUME NEW m \in DOMAIN Queue, m < p + 1, Queue[m].type = "makeBucket", Kept(m, p + 1)
        PROVE  Made(p)' \/ (Kept(0, p)' /\ Expected')
    <3>1. CASE m = 1
      <4>1. Kept(0, p)'
        BY <1>1, <2>3, <3>1 DEF Kept
      <4> QED BY <1>1, <2>3, <3>1, <4>1
    <3>2. CASE m # 1
      <4>1. m - 1 \in DOMAIN (Queue') /\ m - 1 < p /\ Queue'[m - 1].type = "makeBucket"
        BY <1>1, <2>3, <3>2
      <4>2. Kept(m - 1, p)'
        BY <1>1, <2>3, <3>2 DEF Kept
      <4> QED BY <4>1, <4>2 DEF Made
    <3> QED BY <3>1, <3>2
  <2> QED BY <2>1, <2>2, <2>3 DEF QueueInv, Made
<1>3. Len(Queue') + 1 = Len(Queue)
  BY <1>1
<1> QED
  BY <1>2, <1>3 DEF QueueInv

LEMMA QueueKept ==
  ASSUME QueueInv, Queue' = Queue, UNCHANGED <<stream, srcBucket>>, Expected => Expected'
  PROVE  QueueInv'
BY DEF QueueInv, Put, Made, Kept

\* What a step can do to the tasks and the bucket of the target.
Apart ==
  /\ UNCHANGED <<status, solo, task, step, result, dstBucket>>
  /\ errDuringMirror => errDuringMirror'
Watched(do, k) ==
  /\ WatchMirrorEvents /\ QueueTask(do, k, "watcher")
  /\ UNCHANGED <<dstBucket, errDuringMirror>> /\ ~Blocked("watcher")
  /\ do = "copy" => joinEvent.type = "put"
  /\ do = "makeBucket" => joinEvent.type = "makeBucket"
  /\ do = "removeBucket" => joinEvent.type = "removeBucket"
  /\ do \in {"copy", "remove"} => k \in Keys

LEMMA PoolCases ==
  ASSUME TypeInv, [Next]_vars
  PROVE  \/ Apart
         \/ \E do \in {"copy", "remove", "makeBucket", "removeBucket", "report"},
               k \in Keys \cup {NoTask} : Watched(do, k)
         \/ \E do \in {"copy", "remove"}, k \in Keys :
              QueueTask(do, k, "starter") /\ UNCHANGED <<dstBucket, errDuringMirror>>
         \/ \E t \in TaskIds : TaskStep(t) \/ StartTask(t) \/ FinishTask(t)
         \/ \E t \in TaskIds : Deliver(t) /\ monitor = "range"
<1>1. CASE User
  BY <1>1, UserFrame DEF Apart, target, pool, work, judge
<1>2. CASE Listing
  BY <1>2, ListingFrame DEF Apart, target, pool, work, judge
<1>3. CASE Watch
  <2>1. UNCHANGED <<dstBucket, errDuringMirror>>
    BY <1>3, WatchFrame DEF target, judge
  <2>2. CASE UNCHANGED <<pool, work>>
    BY <2>1, <2>2 DEF Apart, pool, work
  <2>3. CASE ~UNCHANGED <<pool, work>>
    <3>1. WatchMirrorEvents
      BY <1>3, <2>3 DEF Watch, JoinTakes, JoinStops, WatcherStops, StopReturns
    <3>2. joinEvent \in Events
      BY <3>1 DEF WatchMirrorEvents, TypeInv, WatchTypes
    <3>3. /\ joinEvent.key \in Keys \cup {NoTask}
          /\ joinEvent.type \in {"put", "delete"} => joinEvent.key \in Keys
      BY <3>2 DEF Event, Events
    <3>4. ~Blocked("watcher")
      BY <3>1 DEF WatchMirrorEvents, WatcherSelects
    <3>5. \E do \in {"copy", "remove", "makeBucket", "removeBucket", "report"},
             k \in Keys \cup {NoTask} :
            /\ QueueTask(do, k, "watcher")
            /\ do = "copy" => joinEvent.type = "put"
            /\ do = "makeBucket" => joinEvent.type = "makeBucket"
            /\ do = "removeBucket" => joinEvent.type = "removeBucket"
            /\ do \in {"copy", "remove"} => k \in Keys
      BY <2>3, <3>1, <3>3 DEF WatchMirrorEvents
    <3> QED BY <2>1, <3>1, <3>4, <3>5 DEF Watched
  <2> QED BY <2>2, <2>3
<1>4. CASE StartMirror
  <2>1. UNCHANGED <<dstBucket, errDuringMirror>> /\ urls \in Seq(Urls) /\ urls # <<>>
    BY <1>4 DEF StartMirror, target, judge, TypeInv, StarterTypes
  <2>2. CASE Head(urls).do \in {"copy", "remove"}
    BY <1>4, <2>1, <2>2 DEF StartMirror, Urls
  <2>3. CASE Head(urls).do \notin {"copy", "remove"}
    BY <1>4, <2>1, <2>3 DEF StartMirror, Apart, pool, work
  <2> QED BY <2>2, <2>3
<1>5. CASE StarterEnds \/ Close \/ MonitorReturns \/ UNCHANGED vars
  BY <1>5 DEF StarterEnds, Close, Pool!Close, MonitorReturns, vars, Apart, target, pool, work, judge
<1>6. CASE DeliverError
  BY <1>6 DEF DeliverError, Judge, Apart, target, pool, work
<1> QED
  BY <1>1, <1>2, <1>3, <1>4, <1>5, <1>6, StepCases DEF Others, Starter, Deliver

\* A task that is queued is new to the pool.
LEMMA QueuedFresh ==
  ASSUME TypeInv, NEW do \in {"copy", "remove", "makeBucket", "removeBucket", "report"},
         NEW k \in Keys \cup {NoTask}, NEW by \in {"starter", "watcher"},
         do \in {"copy", "remove"} => k \in Keys, QueueTask(do, k, by)
  PROVE  \E n \in TaskIds :
           /\ status[n] = "new" /\ task[n] = NoTask
           /\ status'[n] = "waiting" /\ task'[n] # NoTask
           /\ task'[n].do = do /\ task'[n].by = by
           /\ solo' = IF do \in {"makeBucket", "removeBucket"} THEN solo \cup {n} ELSE solo
           /\ \A t \in TaskIds \ {n} : status'[t] = status[t] /\ task'[t] = task[t]
           /\ UNCHANGED <<step, result>>
<1>1. PICK n \in TaskIds :
        /\ status[n] = "new" /\ status' = [status EXCEPT ![n] = "waiting"]
        /\ solo' = IF do \in {"makeBucket", "removeBucket"} THEN solo \cup {n} ELSE solo
        /\ task' = [task EXCEPT ![n] = [do |-> do, key |-> k, by |-> by]]
        /\ UNCHANGED <<step, result>>
  BY Queued
<1>2. task[n] = NoTask
  BY <1>1 DEF TypeInv, TasksMatch
<1>3. task'[n] = [do |-> do, key |-> k, by |-> by] /\ [do |-> do, key |-> k, by |-> by] # NoTask
  BY <1>1, NoTaskAssumption DEF TypeInv, WorkTypes, Task
<1>4. status'[n] = "waiting" /\ \A t \in TaskIds \ {n} : status'[t] = status[t] /\ task'[t] = task[t]
  BY <1>1 DEF TypeInv, WorkTypes, Pool!TypeOK
<1>5. task'[n].do = do /\ task'[n].by = by
  BY <1>3
<1>6. task'[n] # NoTask
  BY <1>3
<1> QED BY <1>1, <1>2, <1>4, <1>5, <1>6

LEMMA InitialBucket == Init => BucketInv
<1> SUFFICES ASSUME Init PROVE BucketInv
  OBVIOUS
<1>1. /\ joinEvent = NoTask /\ dstBucket = srcBucket
      /\ \A t \in TaskIds : /\ task[t] = NoTask /\ step[t] = "start" /\ result[t] = "none"
                            /\ status[t] = "new"
  BY DEF Init, Pool!Init
<1>2. AloneInv /\ FindsInv
  BY <1>1 DEF AloneInv, FindsInv, BucketTasks, InHands
<1>3. QueueInv
  <2>1. BucketTasks = {}
    BY <1>1 DEF BucketTasks
  <2>2. CASE stream = "notImplemented"
    <3>1. Queue = <<[type |-> "notImplemented", key |-> NoTask]>>
      BY <1>1, <2>2 DEF Init, Queue
    <3>2. DOMAIN Queue = {1} /\ Queue[1].type = "notImplemented"
      BY <3>1
    <3> QED BY <2>2, <3>2 DEF QueueInv, Put
  <2>3. CASE stream # "notImplemented"
    <3>1. Queue = <<>>
      BY <1>1, <2>3 DEF Init, Queue
    <3> QED BY <1>1, <2>1, <3>1 DEF QueueInv, Put, Kept, Expected, Comes
  <2> QED BY <2>2, <2>3
<1> QED BY <1>2, <1>3 DEF BucketInv

LEMMA AloneStep == ASSUME TypeInv, AloneInv, [Next]_vars PROVE AloneInv'
<1>0. /\ status \in [TaskIds -> {"new", "waiting", "running", "delivered", "over"}]
      /\ solo \subseteq TaskIds /\ task \in [TaskIds -> Tasks \cup {NoTask}]
      /\ step \in [TaskIds -> Steps] /\ result \in [TaskIds -> Results]
      /\ \A t \in TaskIds : task[t] = NoTask <=> status[t] \in {"new", "over"}
  BY DEF TypeInv, WorkTypes, Pool!TypeOK, TasksMatch
<1>1. CASE Apart
  BY <1>1 DEF Apart, AloneInv, BucketTasks, InHands
<1>2. ASSUME NEW do \in {"copy", "remove", "makeBucket", "removeBucket", "report"},
             NEW k \in Keys \cup {NoTask}, NEW by \in {"starter", "watcher"},
             do \in {"copy", "remove"} => k \in Keys, QueueTask(do, k, by),
             do \in {"makeBucket", "removeBucket"} => by = "watcher",
             by = "watcher" => ~Blocked("watcher")
      PROVE  AloneInv'
  <2>1. PICK n \in TaskIds :
           /\ status[n] = "new" /\ task[n] = NoTask
           /\ status'[n] = "waiting" /\ task'[n] # NoTask
           /\ task'[n].do = do /\ task'[n].by = by
           /\ solo' = IF do \in {"makeBucket", "removeBucket"} THEN solo \cup {n} ELSE solo
           /\ \A t \in TaskIds \ {n} : status'[t] = status[t] /\ task'[t] = task[t]
           /\ UNCHANGED <<step, result>>
    BY <1>2, QueuedFresh
  <2>2. \A t \in BucketTasks' : t \in solo' /\ task'[t].by = "watcher"
    BY <1>2, <2>1 DEF AloneInv, BucketTasks
  <2>3. \A t, u \in TaskIds : InHands(t)' /\ InHands(u)' /\ t \in solo' => t = u
    BY <2>1 DEF AloneInv, InHands
  <2>4. \A t, u \in TaskIds :
          /\ status'[t] = "waiting" /\ task'[t].by = "watcher"
          /\ status'[u] = "waiting" /\ task'[u].by = "watcher"
          => t = u
    BY <1>2, <2>1 DEF AloneInv, Blocked
  <2>5. \A t \in TaskIds :
          status'[t] \in {"new", "waiting", "over"} => step'[t] = "start" /\ result'[t] = "none"
    BY <2>1 DEF AloneInv
  <2> QED BY <2>2, <2>3, <2>4, <2>5 DEF AloneInv
<1>3. ASSUME NEW t \in TaskIds, TaskStep(t) PROVE AloneInv'
  <2>1. /\ UNCHANGED <<status, solo, task>> /\ status[t] = "running"
        /\ \A u \in TaskIds \ {t} : step'[u] = step[u] /\ result'[u] = result[u]
    BY <1>3, TaskFrame DEF Environment, pool
  <2> QED BY <2>1 DEF AloneInv, BucketTasks, InHands
<1>4. ASSUME NEW t \in TaskIds, StartTask(t) PROVE AloneInv'
  <2>1. /\ UNCHANGED <<solo, task, step, result>> /\ status[t] = "waiting"
        /\ status' = [status EXCEPT ![t] = "running"]
        /\ IF t \in solo THEN \A u \in TaskIds : ~InHands(u)
           ELSE \A u \in TaskIds : InHands(u) => u \notin solo
    BY <1>4 DEF StartTask, Pool!Start, Pool!InHand, work, InHands
  <2>2. \A u, v \in TaskIds : InHands(u)' /\ InHands(v)' /\ u \in solo' => u = v
    BY <1>0, <2>1 DEF AloneInv, InHands
  <2> QED BY <1>0, <2>1, <2>2 DEF AloneInv, BucketTasks
<1>5. ASSUME NEW t \in TaskIds, Deliver(t) PROVE AloneInv'
  <2>1. /\ UNCHANGED <<solo, task, step, result>> /\ status[t] = "running"
        /\ status' = [status EXCEPT ![t] = "delivered"]
    BY <1>5 DEF Deliver, Pool!Hand, work
  <2> QED BY <1>0, <2>1 DEF AloneInv, BucketTasks, InHands
<1>6. ASSUME NEW t \in TaskIds, FinishTask(t) PROVE AloneInv'
  <2>1. /\ solo' = solo \ {t} /\ task' = [task EXCEPT ![t] = NoTask]
        /\ step' = [step EXCEPT ![t] = "start"] /\ result' = [result EXCEPT ![t] = "none"]
        /\ status' = [status EXCEPT ![t] = "over"]
    BY <1>6 DEF FinishTask, Pool!Finish
  <2> QED BY <1>0, <2>1 DEF AloneInv, BucketTasks, InHands
<1> QED
  BY <1>1, <1>2, <1>3, <1>4, <1>5, <1>6, PoolCases DEF Watched

\* What the function of a task finds and does to the bucket.
LEMMA TaskBucket ==
  ASSUME TypeInv, FindsInv, NEW t \in TaskIds, TaskStep(t)
  PROVE  /\ task[t] # NoTask
         /\ \/ dstBucket' = dstBucket
            \/ task[t].do = "makeBucket" /\ dstBucket' = TRUE
            \/ task[t].do = "removeBucket" /\ dstBucket' = FALSE
         /\ task[t].do = "makeBucket" =>
              /\ step'[t] \in {"start", "returned"}
              /\ step'[t] = "returned" => result'[t] \in {"ok", "failed"}
              /\ result'[t] = "ok" => dstBucket'
         /\ result'[t] = "noBucket" =>
              task[t].do = "copy" /\ (result[t] = "noBucket" \/ ~dstBucket)
<1>1. status[t] = "running"
  BY TaskFrame
<1>2. task[t] # NoTask
  BY <1>1 DEF TypeInv, TasksMatch
<1>3. /\ step \in [TaskIds -> Steps] /\ result \in [TaskIds -> Results]
  BY DEF TypeInv, WorkTypes
<1>4. /\ task[t].do = "makeBucket" =>
           /\ step[t] \in {"start", "returned"}
           /\ step[t] = "returned" => result[t] \in {"ok", "failed"}
           /\ result[t] = "ok" => dstBucket
      /\ result[t] = "noBucket" => task[t].do = "copy"
  BY <1>2 DEF FindsInv
<1> USE <1>2, <1>3, <1>4 DEF Returns, UploadFails, Runs, target
<1>5. CASE Report(t)
  BY <1>5 DEF Report
<1>6. CASE Stat(t)
  BY <1>6 DEF Stat
<1>7. CASE Read(t)
  BY <1>7 DEF Read
<1>8. CASE Write(t)
  BY <1>8 DEF Write
<1>9. CASE CopyFails(t)
  BY <1>9 DEF CopyFails
<1>10. CASE Retry(t)
  BY <1>10 DEF Retry
<1>11. CASE RetryAbandoned(t)
  BY <1>11 DEF RetryAbandoned
<1>12. CASE Remove(t)
  BY <1>12 DEF Remove
<1>13. CASE CreateBucket(t)
  BY <1>13 DEF CreateBucket
<1>14. CASE DeleteBucket(t)
  BY <1>14 DEF DeleteBucket
<1> QED
  BY <1>5, <1>6, <1>7, <1>8, <1>9, <1>10, <1>11, <1>12, <1>13, <1>14 DEF TaskStep

\* A task about the bucket that is in hand is in hand alone.
LEMMA InHandAlone ==
  ASSUME AloneInv, NEW t \in BucketTasks, NEW u \in TaskIds, InHands(t), InHands(u)
  PROVE  t = u
BY DEF AloneInv, BucketTasks

LEMMA ExpectedStep ==
  ASSUME TypeInv, EndInv, AloneInv, FindsInv, [Next]_vars, Expected,
         ~(WatchMirrorEvents /\ joinEvent.type = "removeBucket")
  PROVE  Expected'
<1>0. /\ status \in [TaskIds -> {"new", "waiting", "running", "delivered", "over"}]
      /\ task \in [TaskIds -> Tasks \cup {NoTask}]
      /\ step \in [TaskIds -> Steps] /\ result \in [TaskIds -> Results]
      /\ \A t \in TaskIds : task[t] = NoTask <=> status[t] \in {"new", "over"}
  BY DEF TypeInv, WorkTypes, Pool!TypeOK, TasksMatch
<1>1. CASE Apart
  BY <1>1 DEF Apart, Expected, Comes, BucketTasks
<1>2. ASSUME NEW do \in {"copy", "remove", "makeBucket", "removeBucket", "report"},
             NEW k \in Keys \cup {NoTask}, NEW by \in {"starter", "watcher"},
             do \in {"copy", "remove"} => k \in Keys, QueueTask(do, k, by),
             do # "removeBucket", UNCHANGED <<dstBucket, errDuringMirror>>
      PROVE  Expected'
  <2>1. PICK n \in TaskIds :
           /\ status[n] = "new" /\ task[n] = NoTask
           /\ status'[n] = "waiting" /\ task'[n] # NoTask
           /\ task'[n].do = do
           /\ \A t \in TaskIds \ {n} : status'[t] = status[t] /\ task'[t] = task[t]
    BY <1>2, QueuedFresh
  <2>2. \A d, s : Comes(d, s) => Comes(d, s)'
    BY <2>1 DEF Comes, BucketTasks
  <2>3. Comes("removeBucket", "waiting")' => Comes("removeBucket", "waiting")
    BY <1>2, <2>1 DEF Comes, BucketTasks
  <2>4. Comes("removeBucket", "running")' => Comes("removeBucket", "running")
    BY <2>1 DEF Comes, BucketTasks
  <2> QED BY <1>2, <2>2, <2>3, <2>4 DEF Expected
<1>3. ASSUME NEW t \in TaskIds, TaskStep(t) PROVE Expected'
  <2>1. UNCHANGED <<status, task, errDuringMirror>> /\ status[t] = "running"
    BY <1>3, TaskFrame DEF Environment, pool, judge
  <2>2. \A d, s : Comes(d, s)' <=> Comes(d, s)
    BY <2>1 DEF Comes, BucketTasks
  <2>3. /\ task[t] # NoTask
        /\ \/ dstBucket' = dstBucket
           \/ task[t].do = "makeBucket" /\ dstBucket' = TRUE
           \/ task[t].do = "removeBucket" /\ dstBucket' = FALSE
    BY <1>3, TaskBucket
  <2>4. ASSUME task[t].do = "removeBucket", Comes("makeBucket", "running") PROVE FALSE
    <3>1. PICK u \in BucketTasks : task[u].do = "makeBucket" /\ status[u] = "running"
      BY <2>4 DEF Comes
    <3>2. u = t
      BY <2>1, <2>3, <2>4, <3>1, InHandAlone DEF BucketTasks, InHands
    <3> QED BY <2>4, <3>1, <3>2
  <2>5. task[t].do = "removeBucket" => Comes("removeBucket", "running")
    BY <2>1, <2>3 DEF Comes, BucketTasks
  <2> QED BY <2>1, <2>2, <2>3, <2>4, <2>5 DEF Expected
<1>4. ASSUME NEW t \in TaskIds, StartTask(t) PROVE Expected'
  <2>1. /\ UNCHANGED <<task, dstBucket, errDuringMirror>> /\ status[t] = "waiting"
        /\ status' = [status EXCEPT ![t] = "running"]
        /\ t \notin solo => \A u \in TaskIds : InHands(u) => u \notin solo
        /\ t \in solo => \A u \in TaskIds : ~InHands(u)
    BY <1>4 DEF StartTask, Pool!Start, Pool!InHand, work, InHands, target, judge
  <2>2. CASE t \notin BucketTasks
    <3>1. \A d, s : Comes(d, s)' <=> Comes(d, s)
      BY <1>0, <2>1, <2>2 DEF Comes, BucketTasks
    <3> QED BY <2>1, <3>1 DEF Expected
  <2>3. CASE t \in BucketTasks
    <3>1. t \in solo /\ task[t].by = "watcher"
      BY <2>3 DEF AloneInv
    <3>2. \A u \in BucketTasks : status[u] = "waiting" => u = t
      BY <2>1, <3>1 DEF AloneInv, BucketTasks
    <3>3. ~Comes("removeBucket", "waiting")'
      BY <1>0, <2>1, <3>2 DEF Comes, BucketTasks
    <3>4. \A u \in TaskIds : status[u] # "running"
      BY <2>1, <3>1 DEF InHands
    <3>5. CASE task[t].do = "makeBucket"
      <4>1. Comes("makeBucket", "running")'
        BY <1>0, <2>1, <2>3, <3>5 DEF Comes, BucketTasks
      <4> QED BY <3>3, <4>1 DEF Expected
    <3>6. CASE task[t].do = "removeBucket"
      <4>1. Comes("removeBucket", "waiting") /\ ~Comes("makeBucket", "waiting")
        BY <2>1, <2>3, <3>2, <3>6 DEF Comes
      <4> QED BY <2>1, <4>1 DEF Expected
    <3> QED BY <2>3, <3>5, <3>6 DEF BucketTasks
  <2> QED BY <2>2, <2>3
<1>5. ASSUME NEW t \in TaskIds, Deliver(t), monitor = "range" PROVE Expected'
  <2>1. /\ UNCHANGED <<task, dstBucket>> /\ status[t] = "running"
        /\ status' = [status EXCEPT ![t] = "delivered"] /\ step[t] = "returned"
        /\ Judge(result[t] = "failed")
    BY <1>5 DEF Deliver, Pool!Hand, work, target
  <2>2. errDuringMirror => errDuringMirror'
    BY <2>1 DEF Judge
  <2>3. \A d : Comes(d, "waiting")' <=> Comes(d, "waiting")
    BY <1>0, <2>1 DEF Comes, BucketTasks
  <2>4. \A d : Comes(d, "running")' => Comes(d, "running")
    BY <1>0, <2>1 DEF Comes, BucketTasks
  <2>5. CASE t \in BucketTasks /\ task[t].do = "makeBucket"
    <3>1. ~Comes("removeBucket", "running")
      <4>1. ASSUME NEW u \in BucketTasks, task[u].do = "removeBucket", status[u] = "running"
            PROVE  FALSE
        <5>1. u = t
          BY <2>1, <2>5, <4>1, InHandAlone DEF InHands, BucketTasks
        <5> QED BY <2>5, <4>1, <5>1
      <4> QED BY <4>1 DEF Comes
    <3>2. result[t] = "failed" \/ dstBucket
      BY <2>1, <2>5 DEF FindsInv, BucketTasks
    <3>3. result[t] = "failed" => errDuringMirror'
      BY <1>5, <2>1, JudgedEnd
    <3> QED BY <2>1, <2>2, <2>3, <2>4, <3>1, <3>2, <3>3 DEF Expected
  <2>6. CASE ~(t \in BucketTasks /\ task[t].do = "makeBucket")
    <3>1. Comes("makeBucket", "running") => Comes("makeBucket", "running")'
      BY <1>0, <2>1, <2>6 DEF Comes, BucketTasks
    <3> QED BY <2>1, <2>2, <2>3, <2>4, <3>1 DEF Expected
  <2> QED BY <2>5, <2>6
<1>6. ASSUME NEW t \in TaskIds, FinishTask(t) PROVE Expected'
  <2>1. /\ task' = [task EXCEPT ![t] = NoTask] /\ status[t] = "delivered"
        /\ status' = [status EXCEPT ![t] = "over"] /\ UNCHANGED <<dstBucket, errDuringMirror>>
    BY <1>6 DEF FinishTask, Pool!Finish, target, judge
  <2>2. \A d, s : s # "delivered" /\ s # "over" => (Comes(d, s)' <=> Comes(d, s))
    BY <1>0, <2>1 DEF Comes, BucketTasks
  <2> QED BY <2>1, <2>2 DEF Expected
<1> QED
  BY <1>1, <1>2, <1>3, <1>4, <1>5, <1>6, PoolCases DEF Watched

\* What a put relies on when the watcher comes to it.
LEMMA PutExpected ==
  ASSUME TypeInv, QueueInv, joinEvent # NoTask, joinEvent.type = "put"
  PROVE  Expected
<1>1. joinEvent \in Events /\ events \in Seq(Events)
  BY DEF TypeInv, WatchTypes
<1>2. Queue = <<joinEvent>> \o events
  BY DEF Queue
<1>3. 1 \in DOMAIN Queue /\ Queue[1] = joinEvent
  BY <1>1, <1>2
<1>4. Put(1) /\ 1 \in 1..(Len(Queue) + 1)
  BY <1>3, QueueTypes DEF Put
<1>5. ~Made(1)
  BY QueueTypes DEF Made
<1> QED BY <1>4, <1>5 DEF QueueInv

LEMMA FindsStep ==
  ASSUME TypeInv, EndInv, AloneInv, FindsInv, QueueInv, [Next]_vars
  PROVE  FindsInv'
<1>0. /\ status \in [TaskIds -> {"new", "waiting", "running", "delivered", "over"}]
      /\ task \in [TaskIds -> Tasks \cup {NoTask}]
      /\ step \in [TaskIds -> Steps] /\ result \in [TaskIds -> Results]
      /\ \A t \in TaskIds : task[t] = NoTask <=> status[t] \in {"new", "over"}
      /\ \A t \in TaskIds :
           status[t] \in {"new", "waiting", "over"} => step[t] = "start" /\ result[t] = "none"
  BY DEF TypeInv, WorkTypes, Pool!TypeOK, TasksMatch, AloneInv
<1>a. ASSUME NEW t \in TaskIds, task[t] # NoTask, task[t].by = "watcher", status[t] = "waiting",
             Expected
      PROVE  Expected'
  <2>1. ~WatchMirrorEvents
    BY <1>a DEF WatchMirrorEvents, WatcherSelects, Blocked
  <2> QED BY <1>a, <2>1, ExpectedStep
<1>1. CASE Apart
  BY <1>1, <1>a DEF Apart, FindsInv, InHands
<1>2. ASSUME NEW do \in {"copy", "remove", "makeBucket", "removeBucket", "report"},
             NEW k \in Keys \cup {NoTask}, NEW by \in {"starter", "watcher"},
             do \in {"copy", "remove"} => k \in Keys, QueueTask(do, k, by),
             do = "copy" /\ by = "watcher" => Expected',
             UNCHANGED <<dstBucket, errDuringMirror>>
      PROVE  FindsInv'
  <2>1. PICK n \in TaskIds :
           /\ status[n] = "new" /\ task[n] = NoTask
           /\ status'[n] = "waiting" /\ task'[n] # NoTask
           /\ task'[n].do = do /\ task'[n].by = by
           /\ \A t \in TaskIds \ {n} : status'[t] = status[t] /\ task'[t] = task[t]
           /\ UNCHANGED <<step, result>>
    BY <1>2, QueuedFresh
  <2>2. step[n] = "start" /\ result[n] = "none"
    BY <1>0, <2>1
  <2> QED BY <1>2, <1>a, <2>1, <2>2 DEF FindsInv, InHands
<1>3. ASSUME NEW t \in TaskIds, TaskStep(t) PROVE FindsInv'
  <2>1. /\ UNCHANGED <<status, task, errDuringMirror>> /\ status[t] = "running"
        /\ \A u \in TaskIds \ {t} : step'[u] = step[u] /\ result'[u] = result[u]
    BY <1>3, TaskFrame DEF Environment, pool, judge
  <2>2. /\ task[t] # NoTask
        /\ \/ dstBucket' = dstBucket
           \/ task[t].do = "makeBucket" /\ dstBucket' = TRUE
           \/ task[t].do = "removeBucket" /\ dstBucket' = FALSE
        /\ task[t].do = "makeBucket" =>
              /\ step'[t] \in {"start", "returned"}
              /\ step'[t] = "returned" => result'[t] \in {"ok", "failed"}
              /\ result'[t] = "ok" => dstBucket'
        /\ result'[t] = "noBucket" =>
              task[t].do = "copy" /\ (result[t] = "noBucket" \/ ~dstBucket)
    BY <1>3, TaskBucket
  <2>3. ASSUME NEW u \in TaskIds, u # t, InHands(u) PROVE dstBucket => dstBucket'
    <3>1. CASE task[t].do = "removeBucket"
      BY <2>1, <2>2, <2>3, <3>1, InHandAlone DEF BucketTasks, InHands
    <3> QED BY <2>2, <3>1
  <2>4. ASSUME NEW u \in TaskIds, u # t, task[u] # NoTask
        PROVE  /\ task[u].do = "copy" /\ task[u].by = "watcher" =>
                    /\ status[u] = "waiting" => Expected'
                    /\ InHands(u) => errDuringMirror \/ dstBucket'
               /\ task[u].do = "makeBucket" =>
                    /\ step[u] \in {"start", "returned"}
                    /\ step[u] = "returned" => result[u] \in {"ok", "failed"}
                    /\ result[u] = "ok" => dstBucket'
               /\ result[u] = "noBucket" =>
                    task[u].do = "copy" /\ (task[u].by = "watcher" => errDuringMirror)
    <3>1. result[u] = "ok" => InHands(u)
      BY <1>0 DEF InHands
    <3> QED BY <1>a, <2>3, <2>4, <3>1 DEF FindsInv
  <2>5. task[t].do = "copy" /\ task[t].by = "watcher" => errDuringMirror \/ (dstBucket /\ dstBucket')
    BY <2>1, <2>2 DEF FindsInv, InHands
  <2>6. result[t] = "noBucket" => (task[t].by = "watcher" => errDuringMirror)
    BY <2>2 DEF FindsInv
  <2> QED BY <2>1, <2>2, <2>4, <2>5, <2>6 DEF FindsInv, InHands
<1>4. ASSUME NEW t \in TaskIds, StartTask(t) PROVE FindsInv'
  <2>1. /\ UNCHANGED <<task, dstBucket, errDuringMirror, step, result>> /\ status[t] = "waiting"
        /\ status' = [status EXCEPT ![t] = "running"]
        /\ \A u \in TaskIds : InHands(u) => u \notin solo
    BY <1>4 DEF StartTask, Pool!Start, Pool!InHand, work, InHands, target, judge
  <2>2. ASSUME task[t].do = "copy", task[t].by = "watcher" PROVE errDuringMirror \/ dstBucket
    <3>1. Expected
      BY <1>0, <2>1, <2>2 DEF FindsInv
    <3>2. \A d : ~Comes(d, "running")
      BY <2>1 DEF Comes, AloneInv, BucketTasks, InHands
    <3>3. \A d : ~Comes(d, "waiting")
      <4>1. ASSUME NEW u \in BucketTasks, status[u] = "waiting" PROVE FALSE
        <5>1. u = t
          BY <2>1, <2>2, <4>1 DEF AloneInv, BucketTasks
        <5> QED BY <2>2, <5>1, <4>1 DEF BucketTasks
      <4> QED BY <4>1 DEF Comes
    <3> QED BY <3>1, <3>2, <3>3 DEF Expected
  <2>3. \A u \in TaskIds \ {t} : status'[u] = status[u]
    BY <1>0, <2>1
  <2>4. status'[t] = "running"
    BY <1>0, <2>1
  <2> QED BY <1>a, <2>1, <2>2, <2>3, <2>4 DEF FindsInv, InHands
<1>5. ASSUME NEW t \in TaskIds, Deliver(t), monitor = "range" PROVE FindsInv'
  <2>1. /\ UNCHANGED <<task, dstBucket, step, result>> /\ status[t] = "running"
        /\ status' = [status EXCEPT ![t] = "delivered"] /\ Judge(result[t] = "failed")
    BY <1>5 DEF Deliver, Pool!Hand, work, target
  <2>2. errDuringMirror => errDuringMirror'
    BY <2>1 DEF Judge
  <2>3. \A u \in TaskIds \ {t} : status'[u] = status[u]
    BY <1>0, <2>1
  <2>4. status'[t] = "delivered"
    BY <1>0, <2>1
  <2> QED BY <1>a, <2>1, <2>2, <2>3, <2>4 DEF FindsInv, InHands
<1>6. ASSUME NEW t \in TaskIds, FinishTask(t) PROVE FindsInv'
  <2>1. /\ task' = [task EXCEPT ![t] = NoTask]
        /\ step' = [step EXCEPT ![t] = "start"] /\ result' = [result EXCEPT ![t] = "none"]
        /\ status' = [status EXCEPT ![t] = "over"] /\ UNCHANGED <<dstBucket, errDuringMirror>>
    BY <1>6 DEF FinishTask, Pool!Finish, target, judge
  <2>2. /\ task'[t] = NoTask
        /\ \A u \in TaskIds \ {t} : /\ status'[u] = status[u] /\ task'[u] = task[u]
                                    /\ step'[u] = step[u] /\ result'[u] = result[u]
    BY <1>0, <2>1
  <2> QED BY <1>a, <2>1, <2>2 DEF FindsInv, InHands
<1>7. ASSUME NEW do \in {"copy", "remove", "makeBucket", "removeBucket", "report"},
             NEW k \in Keys \cup {NoTask}, Watched(do, k)
      PROVE  FindsInv'
  <2>1. ASSUME do = "copy" PROVE Expected'
    <3>1. joinEvent # NoTask /\ joinEvent.type = "put"
      BY <1>7, <2>1 DEF Watched, WatchMirrorEvents, TypeInv, WatchTypes
    <3> QED BY <3>1, PutExpected, ExpectedStep
  <2> QED BY <1>2, <1>7, <2>1 DEF Watched
<1> QED
  BY <1>1, <1>2, <1>3, <1>4, <1>5, <1>6, <1>7, PoolCases

LEMMA QueueStep ==
  ASSUME TypeInv, EndInv, AloneInv, FindsInv, QueueInv, [Next]_vars
  PROVE  QueueInv'
<1>0. /\ events \in Seq(Events) /\ joinEvent \in Events \cup {NoTask}
      /\ join = "send" <=> joinEvent # NoTask
  BY DEF TypeInv, WatchTypes
<1>1. CASE User
  <2>1. UNCHANGED <<joinEvent, stream>> /\ (Expected => Expected')
    <3>1. ~WatchMirrorEvents
      BY <1>0, <1>1, UserFrame DEF WatchMirrorEvents
    <3> QED BY <1>1, <3>1, UserFrame, ExpectedStep
  <2>2. ASSUME NEW e \in Events, events' = Append(events, e) PROVE Queue' = Append(Queue, e)
    <3>1. CASE joinEvent = NoTask
      BY <2>1, <2>2, <3>1 DEF Queue
    <3>2. CASE joinEvent # NoTask
      <4>1. <<joinEvent>> \o Append(events, e) = Append(<<joinEvent>> \o events, e)
        BY <1>0, <3>2
      <4> QED BY <2>1, <2>2, <3>2, <4>1 DEF Queue
    <3> QED BY <3>1, <3>2
  <2>3. CASE stream # "open"
    <3>1. events' = events
      BY <1>1, <2>3 DEF User, PutObject, DeleteObject, MakeBucket, RemoveBucket, StreamFails,
         Change, Notify
    <3>2. Queue' = Queue
      BY <2>1, <3>1 DEF Queue
    <3>3. \A p \in 1..(Len(Queue) + 1) : /\ Put(p)' => Put(p)
                                         /\ Made(p) => Made(p)'
                                         /\ Kept(0, p) => Kept(0, p)'
      BY <2>1, <2>3, <3>2 DEF Put, Made, Kept
    <3> QED BY <2>1, <3>2, <3>3 DEF QueueInv
  <2>4. CASE stream = "open"
    <3>1. ASSUME NEW type \in {"put", "delete", "makeBucket", "removeBucket", "error"},
                 NEW k \in Keys \cup {NoTask}, type \in {"put", "delete"} => k \in Keys,
                 Notify(type, k),
                 type = "put" => srcBucket,
                 srcBucket' => type = "makeBucket" \/ (type # "removeBucket" /\ srcBucket)
          PROVE  QueueInv'
      <4>1. [type |-> type, key |-> k] \in Events
        BY <3>1 DEF Events, Event
      <4>2. PICK e \in Events : e.type = type /\ events' = Append(events, e)
        BY <2>4, <3>1, <4>1 DEF Notify
      <4>3. Queue' = Append(Queue, e)
        BY <2>2, <4>2
      <4> QED BY <2>1, <2>4, <3>1, <4>2, <4>3, QueueGrows
    <3>2. CASE \E k \in Keys : PutObject(k)
      BY <3>1, <3>2 DEF PutObject, Change
    <3>3. CASE \E k \in Keys : DeleteObject(k)
      <4>1. PICK k \in Keys : DeleteObject(k)
        BY <3>3
      <4>2. CASE srcBucket
        BY <3>1, <4>1, <4>2 DEF DeleteObject, Change
      <4>3. CASE ~srcBucket
        BY <3>1, <4>1, <4>3 DEF DeleteObject, Change
      <4> QED BY <4>2, <4>3
    <3>4. CASE MakeBucket
      BY <3>1, <3>4 DEF MakeBucket, Change
    <3>5. CASE RemoveBucket
      BY <3>1, <3>5 DEF RemoveBucket, Change
    <3>6. CASE StreamFails
      BY <3>1, <3>6 DEF StreamFails, user
    <3> QED BY <1>1, <3>2, <3>3, <3>4, <3>5, <3>6 DEF User
  <2> QED BY <2>3, <2>4
<1>2. CASE ~User /\ ~WatchMirrorEvents
  <2>1. Expected => Expected'
    BY <1>2, ExpectedStep
  <2>2. UNCHANGED <<stream, srcBucket>>
    BY <1>2, StepCases, WatchFrame, ListingFrame, TaskFrame, OthersFrame DEF Environment, user, watch
  <2>3. Queue' = Queue
    <3>1. CASE JoinTakes
      <4>1. joinEvent = NoTask /\ joinEvent' = Head(events) /\ events' = Tail(events) /\ events # <<>>
        BY <1>0, <3>1 DEF JoinTakes
      <4>2. Head(events) \in Events /\ <<Head(events)>> \o Tail(events) = events
        BY <1>0, <4>1
      <4>3. Head(events) # NoTask
        BY <4>2, NoTaskAssumption DEF Events
      <4> QED BY <4>1, <4>2, <4>3 DEF Queue
    <3>2. CASE ~JoinTakes
      <4>1. UNCHANGED <<joinEvent, events>>
        BY <1>2, <3>2, StepCases, ListingFrame, TaskFrame, OthersFrame
        DEF Environment, watch, Watch, JoinStops, WatcherStops, StopReturns
      <4> QED BY <4>1 DEF Queue
    <3> QED BY <3>1, <3>2
  <2> QED BY <2>1, <2>2, <2>3, QueueKept
<1>3. CASE WatchMirrorEvents
  <2>1. /\ joinEvent # NoTask /\ joinEvent' = NoTask /\ UNCHANGED <<events, stream, srcBucket, opts>>
    BY <1>0, <1>3 DEF WatchMirrorEvents, user
  <2>2. Queue = <<joinEvent>> \o events /\ Queue' = events
    BY <2>1 DEF Queue
  <2>3. Queue # <<>> /\ Head(Queue) = joinEvent /\ Tail(Queue) = events
    BY <1>0, <2>1, <2>2
  <2>4. ASSUME joinEvent.type = "makeBucket" PROVE Expected'
    <3>1. QueueTask("makeBucket", NoTask, "watcher")
      BY <1>3, <2>4 DEF WatchMirrorEvents
    <3>2. PICK n \in TaskIds : status'[n] = "waiting" /\ task'[n] # NoTask /\ task'[n].do = "makeBucket"
      BY <3>1, QueuedFresh
    <3> QED BY <3>2 DEF Expected, Comes, BucketTasks
  <2> QED BY <2>1, <2>2, <2>3, <2>4, QueueTaken, ExpectedStep
<1> QED BY <1>1, <1>2, <1>3

LEMMA BucketInvariant == Spec => []BucketInv
<1>1. TypeInv /\ EndInv /\ BucketInv /\ [Next]_vars => BucketInv'
  BY AloneStep, FindsStep, QueueStep DEF BucketInv
<1>2. Spec => [](TypeInv /\ EndInv)
  BY MirrorInvariant, PTL
<1> QED BY InitialBucket, <1>1, <1>2, PTL DEF Spec

\* An object that an event asked for finds its bucket, unless an error has been
\* counted: the barrier keeps the order of the events for any number of buckets'
\* removals and creations, workers and retries.
THEOREM MirrorBucketFirst == Spec => []BucketBeforeObjects
<1>1. TypeInv /\ BucketInv => BucketBeforeObjects
  <2> SUFFICES ASSUME TypeInv, BucketInv, NEW t \in TaskIds, result[t] = "noBucket",
                      task[t].by = "watcher"
               PROVE  errDuringMirror
    BY DEF BucketBeforeObjects
  <2>1. task[t] # NoTask
    BY DEF BucketInv, AloneInv, TypeInv, TasksMatch
  <2> QED BY <2>1 DEF BucketInv, FindsInv
<1> QED
  BY <1>1, MirrorInvariant, BucketInvariant, PTL

-----------------------------------------------------------------------------
(***************************************************************************)
(* QuietMeansInSync, for one worker and without --remove.                  *)
(***************************************************************************)
On(t, do, k) == task[t] # NoTask /\ task[t].do = do /\ task[t].key = k

\* A stream that is not open has nothing to tell but that it is not implemented.
OneWatch ==
  stream # "open" =>
    /\ \A n \in DOMAIN Queue : Queue[n].type = "notImplemented"
    /\ opts.isWatch /\ watcher = "select" => Queue # <<>>

\* One task is in hand at a time, and nothing is removed from the target but what
\* an event asks for.
SafeUrls == {u \in Urls : u.do # "remove"}
OneInv ==
  /\ ~opts.isRemove
  /\ \A t, u \in TaskIds : InHands(t) /\ InHands(u) => t = u
  /\ \A t \in TaskIds : task[t] # NoTask =>
       /\ task[t].do # "removeBucket"
       /\ task[t].do = "remove" => task[t].by = "watcher" /\ step[t] \in {"start", "returned"}
       /\ task[t].do \in {"copy", "remove"} /\ task[t].by = "watcher" => task[t].key \in changed
  /\ urls \in Seq(SafeUrls)
  /\ OneWatch

\* The last event about an object, of those that the watcher has not had, says
\* whether the source has it.
About(n, k) == Queue[n].type \in {"put", "delete"} /\ Queue[n].key = k
Ahead(k) == \E n \in DOMAIN Queue : About(n, k)
LastInv ==
  \A k \in Keys : \A n \in DOMAIN Queue : About(n, k) =>
    /\ k \in changed /\ stream = "open"
    /\ \/ Queue[n].type = "put" <=> src[k] # 0
       \/ \E m \in DOMAIN Queue : n < m /\ About(m, k)

\* An object that was changed: an event about it is ahead, or the task of its
\* last event waits, or has brought the target up to date, or will; and nothing
\* that is in hand undoes it.
Waits(t, do, k) == status[t] = "waiting" /\ task[t].by = "watcher" /\ On(t, do, k)
WillDo(t) == status[t] = "running" /\ (step[t] \in {"retry", "returned"} => result[t] = "failed")
CopySettled(k) ==
  /\ \A t \in TaskIds : InHands(t) => ~On(t, "remove", k)
  /\ \A t \in TaskIds : On(t, "copy", k) /\ step[t] = "write" => copied[t] = src[k]
  /\ \/ dst[k] = src[k] \/ k \in passedOver
     \/ \E t \in TaskIds : On(t, "copy", k) /\ task[t].by = "watcher" /\ WillDo(t)
RemovalSettled(k) ==
  /\ \A t \in TaskIds : On(t, "copy", k) => step[t] # "write"
  /\ \/ dst[k] = 0 \/ k \in passedOver
     \/ \E t \in TaskIds : On(t, "remove", k) /\ WillDo(t)
Settled(k) ==
  /\ \A t \in TaskIds : ~Waits(t, "copy", k) /\ ~Waits(t, "remove", k)
  /\ IF src[k] # 0 THEN CopySettled(k) ELSE RemovalSettled(k)
Due(k) ==
  \/ Ahead(k)
  \/ \E t \in TaskIds : Waits(t, IF src[k] # 0 THEN "copy" ELSE "remove", k)
  \/ Settled(k)

\* An object that nobody changed is the comparison's.
CopyUrl(k) == \E n \in DOMAIN urls : urls[n].do = "copy" /\ urls[n].key = k
WillSettle(t) == status[t] \in {"waiting", "running"} /\ result[t] \notin {"ok", "denied"}
Listed(k) ==
  /\ src[k] # 0 => dstBucket
  /\ srcSeen[k] \in {-1, src[k]}
  /\ k \notin compared => dstSeen[k] \in {-1, dst[k]}
  /\ k \in compared => srcSeen[k] # -1
  /\ CopyUrl(k) => k \in compared /\ src[k] # 0
  /\ \A t \in TaskIds : On(t, "copy", k) =>
       /\ k \in compared /\ src[k] # 0
       /\ step[t] = "write" => copied[t] = src[k]
       /\ step[t] = "retry" => result[t] \in {"denied", "failed"}
       /\ step[t] = "returned" => result[t] \in {"ok", "denied", "failed"}
Compared(k) ==
  k \in compared /\ src[k] # 0 =>
    \/ dst[k] = src[k] \/ k \in passedOver
    \/ CopyUrl(k) \/ \E t \in TaskIds : On(t, "copy", k) /\ WillSettle(t)

Compares(k) == Listed(k) /\ Compared(k)
QuietInv ==
  stream = "open" /\ opts.isOverwrite /\ ~errDuringMirror =>
    \A k \in Keys : IF k \in changed THEN Due(k) ELSE Compares(k)

\* One task is in hand: the one that is started, when there is one worker.
LEMMA NoneInHand ==
  ASSUME MaxWorkers = 1, Cardinality(Pool!InHand) < MaxWorkers
  PROVE  \A t \in TaskIds : ~InHands(t)
<1>1. IsFiniteSet(TaskIds)
  <2>1. Cardinality(Keys) \in Nat
    BY MirrorAssumption, FS_CardinalityType
  <2> QED BY <2>1, MirrorAssumption, FS_Interval DEF TaskIds
<1>2. Pool!InHand \subseteq TaskIds
  BY DEF Pool!InHand
<1>3. IsFiniteSet(Pool!InHand)
  BY <1>1, <1>2, FS_Subset
<1>4. Cardinality(Pool!InHand) \in Nat
  BY <1>3, FS_CardinalityType
<1>5. Pool!InHand = {}
  BY <1>3, <1>4, FS_EmptySet
<1> QED BY <1>5 DEF Pool!InHand, InHands

\* The queue of the watcher when an event is added or taken.
LEMMA QueueAppended ==
  ASSUME TypeInv, NEW e \in Events, events' = Append(events, e), joinEvent' = joinEvent
  PROVE  Queue' = Append(Queue, e)
<1>0. /\ events \in Seq(Events) /\ joinEvent \in Events \cup {NoTask}
  BY DEF TypeInv, WatchTypes
<1>1. CASE joinEvent = NoTask
  BY <1>1 DEF Queue
<1>2. CASE joinEvent # NoTask
  <2>1. <<joinEvent>> \o Append(events, e) = Append(<<joinEvent>> \o events, e)
    BY <1>0, <1>2
  <2> QED BY <1>2, <2>1 DEF Queue
<1> QED BY <1>1, <1>2

LEMMA QueueHead ==
  ASSUME TypeInv, WatchMirrorEvents
  PROVE  /\ Queue # <<>> /\ Queue' = Tail(Queue) /\ Queue[1] = joinEvent
         /\ joinEvent \in Events
<1>1. /\ joinEvent \in Events /\ joinEvent # NoTask /\ joinEvent' = NoTask /\ events' = events
      /\ events \in Seq(Events)
  BY DEF WatchMirrorEvents, TypeInv, WatchTypes
<1>2. Queue = <<joinEvent>> \o events /\ Queue' = events
  BY <1>1 DEF Queue
<1> QED BY <1>1, <1>2

LEMMA QueueSame ==
  ASSUME TypeInv, [Next]_vars, ~User, ~WatchMirrorEvents
  PROVE  Queue' = Queue /\ UNCHANGED <<src, changed, stream>>
<1>0. /\ events \in Seq(Events) /\ joinEvent \in Events \cup {NoTask}
      /\ join = "send" <=> joinEvent # NoTask
  BY DEF TypeInv, WatchTypes
<1>1. UNCHANGED <<src, changed, stream>>
  BY StepCases, WatchFrame, ListingFrame, TaskFrame, OthersFrame DEF Environment, user, watch
<1>2. CASE JoinTakes
  <2>1. joinEvent = NoTask /\ joinEvent' = Head(events) /\ events' = Tail(events) /\ events # <<>>
    BY <1>0, <1>2 DEF JoinTakes
  <2>2. Head(events) \in Events /\ <<Head(events)>> \o Tail(events) = events
    BY <1>0, <2>1
  <2>3. Head(events) # NoTask
    BY <2>2, NoTaskAssumption DEF Events
  <2> QED BY <1>1, <2>1, <2>2, <2>3 DEF Queue
<1>3. CASE ~JoinTakes
  <2>1. UNCHANGED <<joinEvent, events>>
    BY <1>3, StepCases, ListingFrame, TaskFrame, OthersFrame
    DEF Environment, watch, Watch, JoinStops, WatcherStops, StopReturns
  <2> QED BY <1>1, <2>1 DEF Queue
<1> QED BY <1>2, <1>3

\* What a change by a user is: an object with its event, or none.
LEMMA UserChanges ==
  ASSUME TypeInv, User
  PROVE  /\ UNCHANGED <<stream, joinEvent>>
         /\ \/ \E k \in Keys, type \in {"put", "delete"} :
                 /\ src' = [src EXCEPT ![k] = src'[k]] /\ (src'[k] # 0 <=> type = "put")
                 /\ changed' = changed \cup {k}
                 /\ Notify(type, k)
            \/ /\ src' = src /\ changed' = changed
               /\ \E type \in {"makeBucket", "removeBucket", "error"} : Notify(type, NoTask)
<1>1. UNCHANGED <<stream, joinEvent>>
  BY UserFrame
<1>2. src \in [Keys -> Versions] /\ changes \in Nat /\ changed \subseteq Keys
  BY MirrorAssumption DEF TypeInv, UserTypes
<1>3. ASSUME NEW k \in Keys, PutObject(k)
      PROVE  /\ src' = [src EXCEPT ![k] = src'[k]] /\ src'[k] # 0
             /\ changed' = changed \cup {k} /\ Notify("put", k)
  BY <1>2, <1>3 DEF PutObject, Change
<1>4. ASSUME NEW k \in Keys, DeleteObject(k)
      PROVE  /\ src' = [src EXCEPT ![k] = src'[k]] /\ src'[k] = 0
             /\ changed' = changed \cup {k} /\ Notify("delete", k)
  BY <1>2, <1>4 DEF DeleteObject, Change
<1>5. NoTask \notin Keys
  BY NoTaskAssumption
<1>6. CASE MakeBucket
  BY <1>1, <1>5, <1>6 DEF MakeBucket, Change
<1>7. CASE RemoveBucket
  BY <1>1, <1>5, <1>7 DEF RemoveBucket, Change
<1>8. CASE StreamFails
  BY <1>1, <1>8 DEF StreamFails, user
<1> QED BY <1>1, <1>3, <1>4, <1>6, <1>7, <1>8 DEF User

LEMMA InitialLast == Init => LastInv
<1> SUFFICES ASSUME Init, NEW k \in Keys, NEW n \in DOMAIN Queue, About(n, k) PROVE FALSE
  BY DEF LastInv
<1>1. joinEvent = NoTask /\ \A m \in DOMAIN events : events[m].type = "notImplemented"
  BY DEF Init
<1> QED BY <1>1 DEF Queue, About

LEMMA LastStep == ASSUME TypeInv, LastInv, [Next]_vars PROVE LastInv'
<1>0. Queue \in Seq(Events) /\ Len(Queue) \in Nat /\ DOMAIN Queue = 1..Len(Queue)
  BY QueueTypes
<1>1. CASE User
  <2>1. UNCHANGED <<stream, joinEvent>>
    BY <1>1, UserChanges
  <2>2. ASSUME NEW type \in {"put", "delete", "makeBucket", "removeBucket", "error"},
               NEW k \in Keys \cup {NoTask}, type \in {"put", "delete"} => k \in Keys,
               Notify(type, k), stream = "open"
        PROVE  Queue' = Append(Queue, [type |-> type, key |-> k])
    <3>1. [type |-> type, key |-> k] \in Events
      BY <2>2 DEF Event, Events
    <3> QED BY <2>1, <2>2, <3>1, QueueAppended DEF Notify
  <2>3. CASE stream # "open"
    <3>1. Queue' = Queue
      BY <1>1, <2>1, <2>3, UserChanges DEF Notify, Queue
    <3>2. \A k \in Keys : \A n \in DOMAIN Queue : ~About(n, k)
      BY <2>3 DEF LastInv
    <3> QED BY <3>1, <3>2 DEF LastInv, About
  <2>4. ASSUME stream = "open",
               NEW k \in Keys, NEW type \in {"put", "delete"}, src' = [src EXCEPT ![k] = src'[k]],
               src'[k] # 0 <=> type = "put", changed' = changed \cup {k}, Notify(type, k)
        PROVE  LastInv'
    <3>1. /\ Queue' = Append(Queue, [type |-> type, key |-> k])
          /\ src \in [Keys -> Versions]
      BY <2>2, <2>4 DEF TypeInv, UserTypes
    <3>2. /\ DOMAIN Queue' = 1..(Len(Queue) + 1)
          /\ \A n \in DOMAIN Queue : Queue'[n] = Queue[n]
          /\ Queue'[Len(Queue) + 1] = [type |-> type, key |-> k]
      BY <1>0, <3>1
    <3>3. PICK last \in DOMAIN Queue' : last = Len(Queue) + 1 /\ About(last, k)'
      <4>1. Len(Queue) + 1 \in DOMAIN Queue'
        BY <1>0, <3>2
      <4>2. \A l : l = Len(Queue) + 1 => About(l, k)'
        BY <2>4, <3>2 DEF About
      <4> QED BY <4>1, <4>2
    <3> SUFFICES ASSUME NEW l \in Keys, NEW n \in DOMAIN Queue', About(n, l)'
                 PROVE  /\ l \in changed' /\ stream' = "open"
                        /\ \/ Queue'[n].type = "put" <=> src'[l] # 0
                           \/ \E m \in DOMAIN Queue' : n < m /\ About(m, l)'
      BY DEF LastInv
    <3>4. CASE n = Len(Queue) + 1
      BY <2>1, <2>4, <3>2, <3>4 DEF About
    <3>5. CASE n \in DOMAIN Queue
      <4>1. About(n, l)
        BY <3>2, <3>5 DEF About
      <4>2. /\ l \in changed
            /\ \/ Queue[n].type = "put" <=> src[l] # 0
               \/ \E m \in DOMAIN Queue : n < m /\ About(m, l)
        BY <3>5, <4>1 DEF LastInv
      <4>3. CASE l = k
        <5>1. n < last
          BY <1>0, <3>3, <3>5
        <5> QED BY <2>1, <2>4, <3>3, <4>2, <4>3, <5>1
      <4>4. CASE l # k
        <5>1. src'[l] = src[l]
          BY <2>4, <3>1, <4>4
        <5>2. \A m \in DOMAIN Queue : About(m, l) => m \in DOMAIN Queue' /\ About(m, l)'
          BY <1>0, <3>2 DEF About
        <5> QED BY <2>1, <2>4, <3>2, <3>5, <4>2, <5>1, <5>2
      <4> QED BY <4>3, <4>4
    <3> QED BY <1>0, <3>2, <3>4, <3>5
  <2>5. ASSUME stream = "open", src' = src, changed' = changed,
               NEW type \in {"makeBucket", "removeBucket", "error"}, Notify(type, NoTask)
        PROVE  LastInv'
    <3>1. Queue' = Append(Queue, [type |-> type, key |-> NoTask])
      BY <2>2, <2>5
    <3>2. /\ DOMAIN Queue' = 1..(Len(Queue) + 1)
          /\ \A n \in DOMAIN Queue : Queue'[n] = Queue[n]
          /\ Queue'[Len(Queue) + 1] = [type |-> type, key |-> NoTask]
      BY <1>0, <3>1
    <3>3. \A n \in DOMAIN Queue', l \in Keys : About(n, l)' => n \in DOMAIN Queue
      BY <1>0, <3>2, <2>5 DEF About
    <3>4. \A n \in DOMAIN Queue, l \in Keys : n \in DOMAIN Queue' /\ (About(n, l)' <=> About(n, l))
      BY <1>0, <3>2 DEF About
    <3> QED BY <2>1, <2>5, <3>2, <3>3, <3>4 DEF LastInv
  <2> QED BY <1>1, <2>3, <2>4, <2>5, UserChanges
<1>2. CASE WatchMirrorEvents
  <2>1. Queue # <<>> /\ Queue' = Tail(Queue) /\ UNCHANGED <<src, changed, stream>>
    BY <1>2, QueueHead DEF WatchMirrorEvents, user
  <2>2. /\ DOMAIN Queue' = 1..(Len(Queue) - 1)
        /\ \A n \in 1..(Len(Queue) - 1) : Queue'[n] = Queue[n + 1]
    BY <1>0, <2>1
  <2>3. \A n \in DOMAIN Queue' : n + 1 \in DOMAIN Queue
    BY <1>0, <2>2
  <2>4. \A n \in DOMAIN Queue', k \in Keys : About(n, k)' <=> About(n + 1, k)
    BY <1>0, <2>2 DEF About
  <2> SUFFICES ASSUME NEW k \in Keys, NEW n \in DOMAIN Queue', About(n, k)'
               PROVE  /\ k \in changed' /\ stream' = "open"
                      /\ \/ Queue'[n].type = "put" <=> src'[k] # 0
                         \/ \E m \in DOMAIN Queue' : n < m /\ About(m, k)'
    BY DEF LastInv
  <2>5. /\ k \in changed /\ stream = "open"
        /\ \/ Queue[n + 1].type = "put" <=> src[k] # 0
           \/ \E m \in DOMAIN Queue : n + 1 < m /\ About(m, k)
    BY <2>3, <2>4 DEF LastInv
  <2>6. ASSUME NEW m \in DOMAIN Queue, n + 1 < m, About(m, k)
        PROVE  \E l \in DOMAIN Queue' : n < l /\ About(l, k)'
    <3>1. m - 1 \in DOMAIN Queue' /\ n < m - 1 /\ (m - 1) + 1 = m
      BY <1>0, <2>2, <2>6
    <3>2. About(m - 1, k)'
      BY <2>4, <2>6, <3>1
    <3> QED BY <3>1, <3>2
  <2> QED BY <2>1, <2>2, <2>5, <2>6
<1>3. CASE ~User /\ ~WatchMirrorEvents
  <2>1. Queue' = Queue /\ UNCHANGED <<src, changed, stream>>
    BY <1>3, QueueSame
  <2> QED BY <2>1 DEF LastInv, About
<1> QED BY <1>1, <1>2, <1>3

\* What QueueTask does, to the last field.
LEMMA QueuedTask ==
  ASSUME TypeInv, NEW do \in {"copy", "remove", "makeBucket", "removeBucket", "report"},
         NEW k \in Keys \cup {NoTask}, NEW by \in {"starter", "watcher"},
         do \in {"copy", "remove"} => k \in Keys, QueueTask(do, k, by)
  PROVE  \E n \in TaskIds :
           /\ status[n] = "new" /\ task[n] = NoTask /\ status'[n] = "waiting"
           /\ task'[n] # NoTask /\ task'[n].do = do /\ task'[n].key = k /\ task'[n].by = by
           /\ \A t \in TaskIds \ {n} : status'[t] = status[t] /\ task'[t] = task[t]
           /\ UNCHANGED <<step, copied, result>>
<1>1. PICK n \in TaskIds :
        /\ status[n] = "new" /\ status' = [status EXCEPT ![n] = "waiting"]
        /\ task' = [task EXCEPT ![n] = [do |-> do, key |-> k, by |-> by]]
        /\ UNCHANGED <<step, copied, result>>
  BY Queued
<1>2. task[n] = NoTask
  BY <1>1 DEF TypeInv, TasksMatch
<1>3. task'[n] = [do |-> do, key |-> k, by |-> by] /\ [do |-> do, key |-> k, by |-> by] # NoTask
  BY <1>1, NoTaskAssumption DEF TypeInv, WorkTypes, Task
<1>4. status'[n] = "waiting" /\ \A t \in TaskIds \ {n} : status'[t] = status[t] /\ task'[t] = task[t]
  BY <1>1 DEF TypeInv, WorkTypes, Pool!TypeOK
<1>5. task'[n].do = do /\ task'[n].key = k /\ task'[n].by = by
  BY <1>3
<1>6. task'[n] # NoTask
  BY <1>3
<1> QED BY <1>1, <1>2, <1>4, <1>5, <1>6

\* What a task to remove an object returns.
LEMMA TaskRemoves ==
  ASSUME TypeInv, NEW t \in TaskIds, TaskStep(t), task[t] # NoTask, task[t].do = "remove",
         step[t] \in {"start", "returned"}
  PROVE  /\ step'[t] = "returned"
         /\ \/ /\ dst' = [dst EXCEPT ![task[t].key] = 0]
               /\ passedOver' = passedOver \ {task[t].key}
            \/ dst' = dst /\ passedOver' = passedOver \cup {task[t].key}
            \/ dst' = dst /\ passedOver' = passedOver /\ result'[t] = "failed"
<1>1. step \in [TaskIds -> Steps] /\ result \in [TaskIds -> Results]
  BY DEF TypeInv, WorkTypes
<1>2. Remove(t)
  BY DEF TaskStep, Report, Stat, Read, Write, CopyFails, Retry, RetryAbandoned, CreateBucket,
     DeleteBucket, Runs
<1> QED BY <1>1, <1>2 DEF Remove, Returns

\* What a step of a task to copy an object does.
LEMMA TaskCopies ==
  ASSUME TypeInv, opts.isOverwrite, NEW t \in TaskIds, TaskStep(t), task[t] # NoTask,
         task[t].do = "copy", NEW k, k = task[t].key
  PROVE  \/ /\ dst' = dst /\ step[t] = "read" /\ step'[t] = "write" /\ result'[t] = result[t]
            /\ copied'[t] = src[k] /\ src[k] # 0 /\ passedOver' = passedOver
         \/ /\ dst' = [dst EXCEPT ![k] = copied[t]] /\ step[t] = "write"
            /\ step'[t] = "returned" /\ result'[t] = "ok"
            /\ passedOver' = passedOver \ {k}
         \/ /\ dst' = dst /\ step'[t] = "read" /\ passedOver' = passedOver
            /\ \/ step[t] = "start" /\ result'[t] = result[t]
               \/ step[t] = "retry" /\ result'[t] = "none"
         \/ /\ dst' = dst /\ step'[t] \in {"retry", "returned"} /\ passedOver' = passedOver
            /\ \/ result'[t] = "failed"
               \/ result'[t] = "ignored" /\ src[k] = 0 /\ step[t] = "read"
               \/ result'[t] = "noBucket" /\ ~dstBucket /\ step[t] = "write"
               \/ result'[t] = result[t] /\ step[t] = "retry" /\ step'[t] = "returned"
         \/ /\ dst' = dst /\ step'[t] \in {"retry", "returned"} /\ result'[t] = "denied"
            /\ passedOver' = passedOver \cup {k}
<1>1. /\ step \in [TaskIds -> Steps] /\ copied \in [TaskIds -> Versions]
      /\ result \in [TaskIds -> Results]
  BY DEF TypeInv, WorkTypes
<1> USE <1>1 DEF Returns, UploadFails, Runs, target
<1>2. CASE Stat(t)
  BY <1>2 DEF Stat
<1>3. CASE Read(t)
  <2>1. CASE src[k] = 0
    BY <1>3, <2>1 DEF Read
  <2>2. CASE src[k] # 0
    BY <1>3, <2>2 DEF Read
  <2> QED BY <2>1, <2>2
<1>4. CASE Write(t)
  <2>1. CASE dstBucket
    BY <1>4, <2>1 DEF Write
  <2>2. CASE ~dstBucket
    BY <1>4, <2>2 DEF Write
  <2> QED BY <2>1, <2>2
<1>5. CASE CopyFails(t)
  BY <1>5 DEF CopyFails
<1>6. CASE Retry(t)
  BY <1>6 DEF Retry
<1>7. CASE RetryAbandoned(t)
  BY <1>7 DEF RetryAbandoned
<1>8. ~(Report(t) \/ Remove(t) \/ CreateBucket(t) \/ DeleteBucket(t))
  BY DEF Report, Remove, CreateBucket, DeleteBucket
<1> QED BY <1>2, <1>3, <1>4, <1>5, <1>6, <1>7, <1>8 DEF TaskStep

\* The target changes but by these.
LEMMA TaskElse ==
  ASSUME TypeInv, NEW t \in TaskIds, TaskStep(t), NEW k \in Keys
  PROVE  \/ dst'[k] = dst[k] /\ (k \in passedOver => k \in passedOver')
         \/ task[t].do \in {"copy", "remove"} /\ task[t].key = k
<1>1. dst \in [Keys -> Versions]
  BY DEF TypeInv, TargetTypes
<1> QED
  BY <1>1 DEF TaskStep, Report, Stat, Read, Write, CopyFails, Retry, RetryAbandoned, Remove,
     CreateBucket, DeleteBucket, Runs, target

LEMMA InitialOne == ASSUME Init, \A o \in Options : ~o.isRemove PROVE OneInv
<1>1. /\ opts \in Options /\ urls = <<>> /\ joinEvent = NoTask
      /\ \A t \in TaskIds : task[t] = NoTask /\ status[t] = "new"
  BY DEF Init, Pool!Init
<1>2. stream # "open" =>
        /\ \A n \in DOMAIN events : events[n].type = "notImplemented"
        /\ opts.isWatch => events # <<>>
  <2>1. opts.isWatch /\ stream # "open" => stream = "notImplemented"
    BY DEF Init
  <2>2. CASE stream = "notImplemented"
    BY <2>2 DEF Init
  <2>3. CASE stream # "notImplemented"
    BY <2>1, <2>3 DEF Init
  <2> QED BY <2>2, <2>3
<1> QED BY <1>1, <1>2 DEF OneInv, OneWatch, InHands, Queue

LEMMA OneWatches == ASSUME TypeInv, OneWatch, [Next]_vars PROVE OneWatch'
<1>0. opts' = opts
  BY StepCases, UserFrame, WatchFrame, ListingFrame, TaskFrame, OthersFrame DEF Environment
<1>1. CASE User
  <2>1. UNCHANGED <<stream, watcher, joinEvent>>
    BY <1>1, UserFrame
  <2>2. events' = events \/ stream = "open"
    BY <1>1 DEF User, PutObject, DeleteObject, MakeBucket, RemoveBucket, StreamFails, Change, Notify
  <2> QED BY <1>0, <2>1, <2>2 DEF OneWatch, Queue
<1>2. CASE WatchMirrorEvents
  <2>1. /\ stream' = stream /\ Queue # <<>> /\ Queue' = Tail(Queue) /\ Queue[1] = joinEvent
        /\ Queue \in Seq(Events)
    BY <1>2, QueueHead, QueueTypes DEF WatchMirrorEvents
  <2>2. watcher' = "select" => joinEvent.type # "notImplemented"
    BY <1>2 DEF WatchMirrorEvents, WatcherSelects
  <2>3. \A n \in DOMAIN Queue' : n + 1 \in DOMAIN Queue /\ Queue'[n] = Queue[n + 1]
    BY <2>1
  <2>4. 1 \in DOMAIN Queue
    BY <2>1
  <2> QED BY <1>0, <2>1, <2>2, <2>3, <2>4 DEF OneWatch
<1>3. CASE ~User /\ ~WatchMirrorEvents
  <2>1. Queue' = Queue /\ stream' = stream
    BY <1>3, QueueSame
  <2>2. watcher' = "select" => watcher = "select"
    BY <1>3, StepCases, ListingFrame, TaskFrame, OthersFrame
    DEF Environment, watch, Watch, JoinTakes, JoinStops, WatcherStops, StopReturns
  <2> QED BY <1>0, <2>1, <2>2 DEF OneWatch
<1> QED BY <1>1, <1>2, <1>3

LEMMA SafeUrlOfKey ==
  ASSUME NEW k \in Keys, ~opts.isRemove
  PROVE  /\ UrlOf(k) \in Seq(SafeUrls)
         /\ srcSeen[k] = 0 => UrlOf(k) = <<>>
<1>1. \A do \in {"copy", "refuse"} : <<[do |-> do, key |-> k]>> \in Seq(SafeUrls)
  BY DEF Url, Urls, SafeUrls
<1>a. /\ <<[do |-> "copy", key |-> k]>> \in Seq(SafeUrls) /\ <<>> \in Seq(SafeUrls)
      /\ <<[do |-> "refuse", key |-> k]>> \in Seq(SafeUrls)
  BY <1>1
<1>2. CASE srcSeen[k] # 0
  <2>1. \/ UrlOf(k) = <<>>
        \/ UrlOf(k) = <<[do |-> "copy", key |-> k]>>
        \/ UrlOf(k) = <<[do |-> "refuse", key |-> k]>>
    BY <1>2, UrlOfListed
  <2> QED BY <1>a, <1>2, <2>1, Zenon
<1>3. CASE srcSeen[k] = 0
  BY <1>a, <1>3 DEF UrlOf
<1> QED BY <1>2, <1>3

LEMMA OneInHand ==
  ASSUME MaxWorkers = 1, TypeInv, OneInv, [Next]_vars
  PROVE  \A t, u \in TaskIds : InHands(t)' /\ InHands(u)' => t = u
<1>0. status \in [TaskIds -> {"new", "waiting", "running", "delivered", "over"}]
  BY DEF TypeInv, Pool!TypeOK
<1>1. ASSUME \A t \in TaskIds : InHands(t)' => InHands(t) PROVE \A t, u \in TaskIds : InHands(t)' /\ InHands(u)' => t = u
  BY <1>1 DEF OneInv
<1>2. CASE User \/ Listing
  BY <1>1, <1>2, UserFrame, ListingFrame DEF pool, InHands
<1>3. CASE Watch
  BY <1>1, <1>3, WatchFrame DEF InHands
<1>4. ASSUME NEW t \in TaskIds, TaskStep(t) PROVE \A u, v \in TaskIds : InHands(u)' /\ InHands(v)' => u = v
  BY <1>1, <1>4, TaskFrame DEF Environment, pool, InHands
<1>5. ASSUME NEW t \in TaskIds, StartTask(t) PROVE \A u, v \in TaskIds : InHands(u)' /\ InHands(v)' => u = v
  <2>1. (\A u \in TaskIds : ~InHands(u)) /\ status' = [status EXCEPT ![t] = "running"]
    BY <1>5, NoneInHand DEF StartTask, Pool!Start
  <2> QED BY <1>0, <2>1 DEF InHands
<1>6. ASSUME NEW t \in TaskIds, Deliver(t) \/ FinishTask(t)
      PROVE \A u, v \in TaskIds : InHands(u)' /\ InHands(v)' => u = v
  BY <1>0, <1>1, <1>6 DEF Deliver, FinishTask, Pool!Hand, Pool!Finish, InHands
<1>7. CASE StartMirror
  <2>1. \/ UNCHANGED pool
        \/ \E do \in {"copy", "remove"}, k \in Keys : QueueTask(do, k, "starter")
    <3>1. urls \in Seq(Urls) /\ urls # <<>>
      BY <1>7 DEF StartMirror, TypeInv, StarterTypes
    <3> QED BY <1>7, <3>1 DEF StartMirror, Urls
  <2>2. ASSUME NEW do \in {"copy", "remove"}, NEW k \in Keys, QueueTask(do, k, "starter")
        PROVE  \A t \in TaskIds : InHands(t)' => InHands(t)
    BY <2>2, QueuedTask DEF InHands
  <2> QED BY <1>1, <2>1, <2>2 DEF pool, InHands
<1>8. CASE StarterEnds \/ DeliverError \/ Close \/ MonitorReturns \/ UNCHANGED vars
  BY <1>1, <1>8 DEF StarterEnds, DeliverError, Close, Pool!Close, MonitorReturns, vars, pool, InHands
<1> QED BY <1>2, <1>3, <1>4, <1>5, <1>6, <1>7, <1>8, StepCases DEF Others, Starter

LEMMA UrlsStaySafe ==
  ASSUME TypeInv, OneInv, [Next]_vars PROVE urls' \in Seq(SafeUrls)
<1>0. urls \in Seq(SafeUrls) /\ ~opts.isRemove
  BY DEF OneInv
<1>1. CASE urls' = urls
  BY <1>0, <1>1
<1>2. ASSUME NEW k \in Keys, Compare(k) PROVE urls' \in Seq(SafeUrls)
  <2>1. urls' = urls \o UrlOf(k) /\ UrlOf(k) \in Seq(SafeUrls)
    BY <1>0, <1>2, SafeUrlOfKey DEF Compare
  <2> QED BY <1>0, <2>1
<1>3. CASE ListingFails
  <2>1. [do |-> "error", key |-> NoTask] \in SafeUrls
    BY DEF Url, Urls, SafeUrls
  <2> QED BY <1>0, <1>3, <2>1 DEF ListingFails
<1>4. CASE StartMirror \/ DeliverError
  <2>1. urls # <<>>
    BY <1>4 DEF StartMirror, DeliverError, TypeInv, StarterTypes
  <2>2. urls' = urls \/ urls' = Tail(urls)
    BY <1>4 DEF StartMirror, DeliverError
  <2> QED BY <1>0, <2>1, <2>2
<1>5. \/ urls' = urls \/ ListingFails \/ StartMirror \/ DeliverError
      \/ \E k \in Keys : Compare(k)
  BY StepCases, UserFrame, WatchFrame, TaskFrame
  DEF Listing, ListSource, ListTarget, ListingEnds, Others, Starter, StarterEnds, Close,
      MonitorReturns, StartTask, Deliver, FinishTask, vars, Environment
<1> QED BY <1>1, <1>2, <1>3, <1>4, <1>5

LEMMA OneStep ==
  ASSUME MaxWorkers = 1, TypeInv, AloneInv, LastInv, OneInv, [Next]_vars
  PROVE  OneInv'
<1>0. /\ step \in [TaskIds -> Steps] /\ result \in [TaskIds -> Results]
      /\ task \in [TaskIds -> Tasks \cup {NoTask}]
      /\ \A t \in TaskIds : status[t] = "new" => step[t] = "start"
  BY DEF TypeInv, WorkTypes, AloneInv
<1>1. opts' = opts
  BY StepCases, UserFrame, WatchFrame, ListingFrame, TaskFrame, OthersFrame DEF Environment
<1>2. changed \subseteq changed'
  <2>1. CASE User
    BY <2>1, UserChanges
  <2>2. CASE ~User
    BY <2>2, StepCases, WatchFrame, ListingFrame, TaskFrame, OthersFrame DEF Environment, user
  <2> QED BY <2>1, <2>2
<1> DEFINE Harmless(t) ==
      task[t] # NoTask =>
       /\ task[t].do # "removeBucket"
       /\ task[t].do = "remove" => task[t].by = "watcher" /\ step[t] \in {"start", "returned"}
       /\ task[t].do \in {"copy", "remove"} /\ task[t].by = "watcher" => task[t].key \in changed
<1>3. ASSUME NEW t \in TaskIds, task'[t] = task[t],
             task[t] # NoTask /\ task[t].do = "remove" => step'[t] \in {step[t], "returned"}
      PROVE  Harmless(t)'
  BY <1>2, <1>3 DEF OneInv
<1>4. ASSUME NEW do \in {"copy", "remove", "makeBucket", "removeBucket", "report"},
             NEW k \in Keys \cup {NoTask}, NEW by \in {"starter", "watcher"},
             do \in {"copy", "remove"} => k \in Keys, QueueTask(do, k, by),
             do # "removeBucket", do = "remove" => by = "watcher",
             do \in {"copy", "remove"} /\ by = "watcher" => k \in changed
      PROVE  \A t \in TaskIds : Harmless(t)'
  <2>1. PICK n \in TaskIds :
           /\ status[n] = "new" /\ task[n] = NoTask /\ status'[n] = "waiting"
           /\ task'[n] # NoTask /\ task'[n].do = do /\ task'[n].key = k /\ task'[n].by = by
           /\ \A t \in TaskIds \ {n} : status'[t] = status[t] /\ task'[t] = task[t]
           /\ UNCHANGED <<step, copied, result>>
    BY <1>4, QueuedTask
  <2>2. Harmless(n)'
    BY <1>0, <1>2, <1>4, <2>1
  <2>3. \A t \in TaskIds \ {n} : Harmless(t)'
    BY <1>3, <2>1
  <2> QED BY <2>2, <2>3
<1>5. \A t \in TaskIds : Harmless(t)'
  <2>1. CASE User
    BY <1>3, <2>1, UserFrame DEF work
  <2>2. CASE Listing
    BY <1>3, <2>2, ListingFrame DEF work
  <2>3. CASE Watch
    <3>1. CASE WatchMirrorEvents
      <4>1. /\ joinEvent \in Events /\ Queue[1] = joinEvent /\ Queue # <<>> /\ Queue \in Seq(Events)
        BY <3>1, QueueHead, QueueTypes
      <4>2. /\ joinEvent.key \in Keys \cup {NoTask}
            /\ joinEvent.type \in {"put", "delete"} => joinEvent.key \in Keys
        BY <4>1 DEF Event, Events
      <4>3. joinEvent.type \in {"put", "delete"} => joinEvent.key \in changed
        <5>1. 1 \in DOMAIN Queue
          BY <4>1
        <5> QED BY <4>1, <4>2, <5>1 DEF LastInv, About
      <4>4. \/ UNCHANGED <<pool, work>>
            \/ QueueTask("copy", joinEvent.key, "watcher") /\ joinEvent.type = "put"
            \/ QueueTask("remove", joinEvent.key, "watcher") /\ joinEvent.type = "delete"
            \/ QueueTask("makeBucket", NoTask, "watcher")
            \/ QueueTask("report", NoTask, "watcher")
        BY <3>1 DEF WatchMirrorEvents, OneInv
      <4>5. UNCHANGED <<pool, work>> => \A t \in TaskIds : Harmless(t)'
        BY <1>3 DEF work
      <4> QED BY <1>4, <4>2, <4>3, <4>4, <4>5
    <3>2. CASE ~WatchMirrorEvents
      <4>1. UNCHANGED work
        BY <2>3, <3>2 DEF Watch, JoinTakes, JoinStops, WatcherStops, StopReturns
      <4> QED BY <1>3, <4>1 DEF work
    <3> QED BY <3>1, <3>2
  <2>4. ASSUME NEW t \in TaskIds, TaskStep(t) PROVE \A u \in TaskIds : Harmless(u)'
    <3>1. /\ task' = task /\ status[t] = "running"
          /\ \A u \in TaskIds \ {t} : step'[u] = step[u]
      BY <2>4, TaskFrame DEF Environment
    <3>2. task[t] # NoTask /\ task[t].do = "remove" => step'[t] = "returned"
      BY <2>4, TaskRemoves DEF OneInv
    <3>3. \A u \in TaskIds \ {t} : Harmless(u)'
      BY <1>3, <3>1
    <3>4. Harmless(t)'
      BY <1>3, <3>1, <3>2
    <3> QED BY <3>3, <3>4
  <2>5. ASSUME NEW t \in TaskIds, FinishTask(t) PROVE \A u \in TaskIds : Harmless(u)'
    <3>1. /\ task'[t] = NoTask
          /\ \A u \in TaskIds \ {t} : task'[u] = task[u] /\ step'[u] = step[u]
      BY <1>0, <2>5 DEF FinishTask
    <3> QED BY <1>3, <3>1
  <2>6. CASE StartMirror
    <3>1. urls \in Seq(SafeUrls) /\ urls # <<>> /\ Head(urls) \in SafeUrls
      BY <2>6 DEF StartMirror, OneInv, TypeInv, StarterTypes
    <3>2. CASE Head(urls).do = "copy"
      <4>1. Head(urls).key \in Keys
        BY <3>1, <3>2 DEF SafeUrls, Urls
      <4>2. QueueTask("copy", Head(urls).key, "starter")
        BY <2>6, <3>2 DEF StartMirror
      <4> QED BY <1>4, <4>1, <4>2
    <3>3. CASE Head(urls).do # "copy"
      <4>1. UNCHANGED work
        BY <2>6, <3>1, <3>3 DEF StartMirror, SafeUrls
      <4> QED BY <1>3, <4>1 DEF work
    <3> QED BY <3>2, <3>3
  <2>7. CASE \/ StarterEnds \/ DeliverError \/ Close \/ MonitorReturns \/ UNCHANGED vars
             \/ \E t \in TaskIds : StartTask(t) \/ Deliver(t)
    BY <1>3, <2>7 DEF StarterEnds, DeliverError, Close, MonitorReturns, vars, StartTask, Deliver, work
  <2> QED BY <2>1, <2>2, <2>3, <2>4, <2>5, <2>6, <2>7, StepCases DEF Others, Starter
<1>6. OneWatch'
  BY OneWatches DEF OneInv
<1> QED BY <1>1, <1>5, <1>6, OneInHand, UrlsStaySafe DEF OneInv

\* Due at the steps that change neither the tasks nor the object.
SameTasks == UNCHANGED <<status, task, step, copied, result>>
LEMMA DueKept ==
  ASSUME NEW k, Due(k), Ahead(k) => Ahead(k)', src'[k] = src[k], dst'[k] = dst[k], k \in passedOver => k \in passedOver',
         SameTasks
  PROVE  Due(k)'
BY DEF Due, Settled, CopySettled, RemovalSettled, Waits, WillDo, On, InHands, SameTasks

\* A task that is queued for another object, or by the comparison.
LEMMA DueQueued ==
  ASSUME TypeInv, AloneInv, NEW k, Due(k), Ahead(k) => Ahead(k)', src'[k] = src[k], dst'[k] = dst[k], k \in passedOver => k \in passedOver',
         NEW n \in TaskIds, status[n] = "new", task[n] = NoTask, status'[n] = "waiting",
         task'[n].key = k =>
           task'[n].do # "remove" /\ (task'[n].by = "watcher" => task'[n].do # "copy"),
         \A t \in TaskIds \ {n} : status'[t] = status[t] /\ task'[t] = task[t],
         UNCHANGED <<step, copied, result>>
  PROVE  Due(k)'
<1>1. step[n] = "start" /\ ~InHands(n) /\ ~InHands(n)' /\ ~WillDo(n)
  BY DEF AloneInv, InHands, WillDo
<1>2. ASSUME NEW t \in TaskIds, NEW do \in {"copy", "remove"}
      PROVE  Waits(t, do, k)' <=> Waits(t, do, k)
  BY <1>2 DEF Waits, On
<1>3. CASE Ahead(k) \/ \E t \in TaskIds : Waits(t, IF src[k] # 0 THEN "copy" ELSE "remove", k)
  BY <1>2, <1>3 DEF Due
<1>4. CASE Settled(k)
  <2>1. \A t \in TaskIds : t # n =>
          /\ InHands(t)' = InHands(t) /\ WillDo(t)' = WillDo(t)
          /\ \A do \in {"copy", "remove"} : On(t, do, k)' = On(t, do, k)
    BY DEF InHands, WillDo, On
  <2>2. ~On(n, "remove", k)'
    BY DEF On
  <2>3. src[k] # 0 /\ CopySettled(k) => CopySettled(k)'
    BY <1>1, <2>1, <2>2 DEF CopySettled
  <2>4. src[k] = 0 /\ RemovalSettled(k) => RemovalSettled(k)'
    BY <1>1, <2>1, <2>2 DEF RemovalSettled
  <2> QED BY <1>2, <1>4, <2>3, <2>4 DEF Due, Settled
<1> QED BY <1>3, <1>4 DEF Due

\* The events that a step of the watcher leaves.
LEMMA AheadTaken ==
  ASSUME TypeInv, WatchMirrorEvents, NEW k
  PROVE  (\E n \in DOMAIN Queue : n > 1 /\ About(n, k)) => Ahead(k)'
<1>1. Queue # <<>> /\ Queue' = Tail(Queue) /\ Queue \in Seq(Events)
  BY QueueHead, QueueTypes
<1>2. ASSUME NEW n \in DOMAIN Queue, n > 1, About(n, k) PROVE Ahead(k)'
  <2>1. PICK m \in DOMAIN Queue' : m = n - 1 /\ Queue'[m] = Queue[n]
    BY <1>1, <1>2
  <2>2. About(m, k)'
    BY <1>2, <2>1 DEF About
  <2> QED BY <2>2 DEF Ahead
<1> QED BY <1>2

LEMMA DueUser ==
  ASSUME TypeInv, User, stream = "open", NEW k \in Keys, k \in changed => Due(k), k \in changed'
  PROVE  Due(k)'
<1>0. Queue \in Seq(Events) /\ src \in [Keys -> Versions]
  BY QueueTypes DEF TypeInv, UserTypes
<1>1. UNCHANGED joinEvent /\ SameTasks /\ UNCHANGED <<dst, passedOver>>
  BY UserFrame DEF SameTasks, pool, work, target
<1>2. ASSUME NEW type \in {"put", "delete", "makeBucket", "removeBucket", "error"},
             NEW j \in Keys \cup {NoTask}, type \in {"put", "delete"} => j \in Keys, Notify(type, j)
      PROVE  /\ Ahead(k) => Ahead(k)'
             /\ j = k /\ type \in {"put", "delete"} => Ahead(k)'
  <2>1. [type |-> type, key |-> j] \in Events
    BY <1>2 DEF Event, Events
  <2>2. Queue' = Append(Queue, [type |-> type, key |-> j])
    BY <1>1, <1>2, <2>1, QueueAppended DEF Notify
  <2>3. \A n \in DOMAIN Queue : n \in DOMAIN Queue' /\ Queue'[n] = Queue[n]
    BY <1>0, <2>2
  <2>4. PICK last \in DOMAIN Queue' : Queue'[last] = [type |-> type, key |-> j]
    BY <1>0, <2>2
  <2>5. \A n \in DOMAIN Queue : About(n, k) => About(n, k)'
    BY <2>3 DEF About
  <2>6. j = k /\ type \in {"put", "delete"} => About(last, k)'
    BY <2>4 DEF About
  <2> QED BY <2>3, <2>5, <2>6 DEF Ahead
<1>3. ASSUME NEW j \in Keys, NEW type \in {"put", "delete"}, src' = [src EXCEPT ![j] = src'[j]],
             changed' = changed \cup {j}, Notify(type, j)
      PROVE  Due(k)'
  <2>1. CASE j = k
    BY <1>2, <1>3, <2>1 DEF Due
  <2>2. CASE j # k
    <3>1. k \in changed /\ src'[k] = src[k] /\ (Ahead(k) => Ahead(k)')
      BY <1>0, <1>2, <1>3, <2>2
    <3> QED BY <1>1, <3>1, DueKept
  <2> QED BY <2>1, <2>2
<1>4. ASSUME src' = src, changed' = changed, NEW type \in {"makeBucket", "removeBucket", "error"},
             Notify(type, NoTask)
      PROVE  Due(k)'
  <2>1. Ahead(k) => Ahead(k)'
    BY <1>2, <1>4
  <2> QED BY <1>1, <1>4, <2>1, DueKept
<1> QED BY <1>3, <1>4, UserChanges

LEMMA DueWatch ==
  ASSUME TypeInv, AloneInv, LastInv, OneInv, WatchMirrorEvents, NEW k \in changed, k \in Keys, Due(k)
  PROVE  Due(k)'
<1>0. /\ Queue \in Seq(Events) /\ Queue # <<>> /\ Queue[1] = joinEvent /\ joinEvent \in Events
      /\ 1 \in DOMAIN Queue /\ DOMAIN Queue \subseteq Nat \ {0}
  BY QueueTypes, QueueHead
<1>1. /\ joinEvent.key \in Keys \cup {NoTask}
      /\ joinEvent.type \in {"put", "delete"} => joinEvent.key \in Keys
  BY <1>0 DEF Event, Events
<1>2. src' = src /\ dst' = dst /\ passedOver' = passedOver
  BY DEF WatchMirrorEvents, user, target
<1>3. \/ UNCHANGED <<pool, work>> /\ joinEvent.type \notin {"put", "delete"}
      \/ QueueTask("copy", joinEvent.key, "watcher") /\ joinEvent.type = "put"
      \/ QueueTask("remove", joinEvent.key, "watcher") /\ joinEvent.type = "delete"
      \/ QueueTask("makeBucket", NoTask, "watcher") /\ joinEvent.type = "makeBucket"
      \/ QueueTask("report", NoTask, "watcher") /\ joinEvent.type = "error"
  BY <1>0 DEF WatchMirrorEvents, OneInv, Events
<1>4. CASE ~About(1, k)
  <2>1. Ahead(k) => Ahead(k)'
    BY <1>0, <1>4, AheadTaken DEF Ahead
  <2>2. CASE UNCHANGED <<pool, work>>
    BY <1>2, <2>1, <2>2, DueKept DEF SameTasks, pool, work
  <2>3. ASSUME NEW do \in {"copy", "remove", "makeBucket", "removeBucket", "report"},
               NEW j \in Keys \cup {NoTask}, do \in {"copy", "remove"} => j \in Keys,
               do \in {"copy", "remove"} => j # k,
               QueueTask(do, j, "watcher")
        PROVE  Due(k)'
    <3>1. PICK n \in TaskIds :
           /\ status[n] = "new" /\ task[n] = NoTask /\ status'[n] = "waiting"
           /\ task'[n] # NoTask /\ task'[n].do = do /\ task'[n].key = j /\ task'[n].by = "watcher"
           /\ \A t \in TaskIds \ {n} : status'[t] = status[t] /\ task'[t] = task[t]
           /\ UNCHANGED <<step, copied, result>>
      BY <2>3, QueuedTask
    <3>2. task'[n].key = k => task'[n].do # "remove" /\ task'[n].do # "copy"
      BY <2>3, <3>1
    <3> QED BY <1>2, <2>1, <3>1, <3>2, DueQueued
  <2>4. joinEvent.type \in {"put", "delete"} => joinEvent.key # k
    BY <1>0, <1>4 DEF About
  <2> QED BY <1>1, <1>3, <2>2, <2>3, <2>4
<1>5. CASE About(1, k) /\ \E n \in DOMAIN Queue : n > 1 /\ About(n, k)
  BY <1>5, AheadTaken DEF Due
<1>6. CASE About(1, k) /\ ~\E n \in DOMAIN Queue : n > 1 /\ About(n, k)
  <2>1. /\ joinEvent.key = k /\ joinEvent.type \in {"put", "delete"}
        /\ joinEvent.type = "put" <=> src[k] # 0
    BY <1>0, <1>6 DEF About, LastInv
  <2> DEFINE do == IF src[k] # 0 THEN "copy" ELSE "remove"
  <2>2. QueueTask(do, k, "watcher")
    BY <1>3, <2>1
  <2>3. do \in {"copy", "remove"}
    OBVIOUS
  <2> HIDE DEF do
  <2>4. PICK n \in TaskIds :
           /\ status'[n] = "waiting"
           /\ task'[n] # NoTask /\ task'[n].do = do /\ task'[n].key = k /\ task'[n].by = "watcher"
    BY <2>2, <2>3, QueuedTask
  <2>5. Waits(n, do, k)'
    BY <1>2, <2>4 DEF Waits, On, do
  <2> QED BY <1>2, <2>5 DEF Due, do
<1> QED BY <1>4, <1>5, <1>6

LEMMA DueStart ==
  ASSUME MaxWorkers = 1, TypeInv, AloneInv, OneInv, NEW k \in Keys, Due(k), NEW t \in TaskIds,
         StartTask(t)
  PROVE  Due(k)'
<1>1. /\ status[t] = "waiting" /\ status'[t] = "running" /\ step[t] = "start" /\ result[t] = "none"
      /\ \A u \in TaskIds \ {t} : status'[u] = status[u]
      /\ UNCHANGED <<src, dst, passedOver, task, step, copied, result>> /\ Queue' = Queue
      /\ \A u \in TaskIds : ~InHands(u)
  BY NoneInHand DEF StartTask, Pool!Start, TypeInv, Pool!TypeOK, AloneInv, user, target, work, watch,
     Queue
<1>2. Ahead(k)' = Ahead(k)
  BY <1>1 DEF Ahead, About
<1>3. \A u \in TaskIds : /\ InHands(u)' <=> u = t
                         /\ WillDo(u)' <=> u = t
                         /\ ~WillDo(u)
                         /\ \A do \in {"copy", "remove"} : /\ On(u, do, k)' = On(u, do, k)
                                                           /\ Waits(u, do, k)' => Waits(u, do, k)
  BY <1>1 DEF InHands, WillDo, On, Waits
<1>4. \A u \in TaskIds : step[u] = "write" => status[u] \notin {"waiting", "new", "over"}
  BY DEF AloneInv
<1>5. ASSUME NEW do \in {"copy", "remove"}, Waits(t, do, k)
      PROVE  \A u \in TaskIds : ~Waits(u, "copy", k)' /\ ~Waits(u, "remove", k)'
  <2>1. \A u \in TaskIds : Waits(u, "copy", k) \/ Waits(u, "remove", k) => u = t
    BY <1>5 DEF AloneInv, Waits
  <2> QED BY <1>1, <1>3, <2>1 DEF Waits
<1>6. \A u \in TaskIds : On(u, "copy", k) => step[u] # "write"
  <2>1. \A u \in TaskIds : On(u, "copy", k) => status[u] \notin {"running", "delivered"}
    BY <1>1 DEF InHands
  <2> QED BY <1>4, <2>1 DEF On, TypeInv, Pool!TypeOK
<1>7. CASE Ahead(k)
  BY <1>2, <1>7 DEF Due
<1>8. ASSUME src[k] # 0, NEW u \in TaskIds, Waits(u, "copy", k) PROVE Due(k)'
  <2>1. CASE u = t
    <3>1. CopySettled(k)'
      BY <1>1, <1>3, <1>6, <1>8, <2>1 DEF CopySettled, Waits, On
    <3> QED BY <1>1, <1>5, <1>8, <2>1, <3>1 DEF Due, Settled
  <2>2. CASE u # t
    BY <1>1, <1>8, <2>2 DEF Due, Waits, On
  <2> QED BY <2>1, <2>2
<1>9. ASSUME src[k] = 0, NEW u \in TaskIds, Waits(u, "remove", k) PROVE Due(k)'
  <2>1. CASE u = t
    <3>1. RemovalSettled(k)'
      BY <1>1, <1>3, <1>6, <1>9, <2>1 DEF RemovalSettled, Waits
    <3> QED BY <1>1, <1>5, <1>9, <2>1, <3>1 DEF Due, Settled
  <2>2. CASE u # t
    BY <1>1, <1>9, <2>2 DEF Due, Waits, On
  <2> QED BY <2>1, <2>2
<1>10. CASE Settled(k)
  <2>1. \A u \in TaskIds : ~Waits(u, "copy", k)' /\ ~Waits(u, "remove", k)'
    BY <1>3, <1>10 DEF Settled
  <2>2. ~On(t, "remove", k)
    BY <1>1, <1>10 DEF Settled, Waits, On, OneInv
  <2>3. src[k] # 0 => CopySettled(k)'
    BY <1>1, <1>3, <1>6, <1>10, <2>2 DEF Settled, CopySettled
  <2>4. src[k] = 0 => RemovalSettled(k)'
    BY <1>1, <1>3, <1>6, <1>10 DEF Settled, RemovalSettled
  <2> QED BY <1>1, <2>1, <2>3, <2>4 DEF Due, Settled
<1> QED BY <1>7, <1>8, <1>9, <1>10 DEF Due

\* The monitor that counts no error is handed none.
LEMMA DeliveredWell ==
  ASSUME TypeInv, EndInv, NEW t \in TaskIds, Deliver(t), ~errDuringMirror'
  PROVE  /\ result[t] # "failed" /\ step[t] = "returned"
         /\ status[t] = "running" /\ status'[t] = "delivered"
         /\ \A u \in TaskIds \ {t} : status'[u] = status[u]
         /\ UNCHANGED <<src, dst, passedOver, dstBucket, task, step, copied, result, lister, urls>>
         /\ Queue' = Queue
<1>1. errDuringMirror' = (errDuringMirror \/ result[t] = "failed")
  <2>1. (result[t] = "failed") \in BOOLEAN
    OBVIOUS
  <2> QED BY <2>1, JudgedEnd DEF Deliver
<1> QED
  BY <1>1 DEF Deliver, Pool!Hand, TypeInv, Pool!TypeOK, user, target, work, watch, Queue

LEMMA DueDeliver ==
  ASSUME TypeInv, EndInv, NEW k \in Keys, Due(k), NEW t \in TaskIds, Deliver(t), ~errDuringMirror'
  PROVE  Due(k)'
<1>1. /\ result[t] # "failed" /\ step[t] = "returned"
      /\ status[t] = "running" /\ status'[t] = "delivered"
      /\ \A u \in TaskIds \ {t} : status'[u] = status[u]
      /\ UNCHANGED <<src, dst, passedOver, task, step, copied, result>> /\ Queue' = Queue
  BY DeliveredWell
<1>2. Ahead(k)' = Ahead(k)
  BY <1>1 DEF Ahead, About
<1>3. \A u \in TaskIds : /\ InHands(u)' = InHands(u) /\ (WillDo(u) => WillDo(u)')
                         /\ \A do \in {"copy", "remove"} : /\ On(u, do, k)' = On(u, do, k)
                                                           /\ Waits(u, do, k)' <=> Waits(u, do, k)
  BY <1>1 DEF InHands, WillDo, On, Waits
<1>4. CopySettled(k) => CopySettled(k)'
  BY <1>1, <1>3 DEF CopySettled
<1>5. RemovalSettled(k) => RemovalSettled(k)'
  BY <1>1, <1>3 DEF RemovalSettled
<1> QED BY <1>1, <1>2, <1>3, <1>4, <1>5 DEF Due, Settled

LEMMA Finished1 ==
  ASSUME TypeInv, NEW t \in TaskIds, FinishTask(t)
  PROVE  /\ status[t] = "delivered" /\ status'[t] = "over" /\ task'[t] = NoTask
         /\ \A u \in TaskIds \ {t} :
              /\ status'[u] = status[u] /\ task'[u] = task[u] /\ step'[u] = step[u]
              /\ copied'[u] = copied[u] /\ result'[u] = result[u]
         /\ UNCHANGED <<src, dst, passedOver, dstBucket, lister, urls>> /\ Queue' = Queue
BY DEF FinishTask, Pool!Finish, TypeInv, Pool!TypeOK, WorkTypes, user, target, watch, Queue

LEMMA DueFinish ==
  ASSUME TypeInv, NEW k \in Keys, Due(k), NEW t \in TaskIds, FinishTask(t)
  PROVE  Due(k)'
<1>1. /\ status[t] = "delivered" /\ status'[t] = "over" /\ task'[t] = NoTask
      /\ \A u \in TaskIds \ {t} :
           /\ status'[u] = status[u] /\ task'[u] = task[u] /\ step'[u] = step[u]
           /\ copied'[u] = copied[u] /\ result'[u] = result[u]
      /\ UNCHANGED <<src, dst, passedOver>> /\ Queue' = Queue
  BY Finished1
<1>2. Ahead(k)' = Ahead(k)
  BY <1>1 DEF Ahead, About
<1>3. \A do \in {"copy", "remove"} : ~On(t, do, k)' /\ ~Waits(t, do, k) /\ ~Waits(t, do, k)'
  BY <1>1 DEF On, Waits
<1>4. ~WillDo(t) /\ ~InHands(t)'
  BY <1>1 DEF WillDo, InHands
<1>5. \A u \in TaskIds \ {t} :
        /\ InHands(u)' = InHands(u) /\ WillDo(u)' = WillDo(u)
        /\ \A do \in {"copy", "remove"} : /\ On(u, do, k)' = On(u, do, k)
                                          /\ Waits(u, do, k)' = Waits(u, do, k)
  BY <1>1 DEF InHands, WillDo, On, Waits
<1>6. CopySettled(k) => CopySettled(k)'
  BY <1>1, <1>3, <1>4, <1>5 DEF CopySettled
<1>7. RemovalSettled(k) => RemovalSettled(k)'
  BY <1>1, <1>3, <1>4, <1>5 DEF RemovalSettled
<1> QED BY <1>1, <1>2, <1>3, <1>5, <1>6, <1>7 DEF Due, Settled

LEMMA DueTask ==
  ASSUME TypeInv, OneInv, opts.isOverwrite, FindsInv', ~errDuringMirror',
         NEW k \in Keys, Due(k), NEW t \in TaskIds, TaskStep(t)
  PROVE  Due(k)'
<1>0. /\ UNCHANGED <<src, status, task>> /\ Queue' = Queue /\ status[t] = "running" /\ task[t] # NoTask
      /\ \A u \in TaskIds \ {t} :
           step'[u] = step[u] /\ copied'[u] = copied[u] /\ result'[u] = result[u]
  BY TaskFrame DEF Environment, user, pool, watch, Queue, TypeInv, TasksMatch
<1>1. dst \in [Keys -> Versions] /\ step \in [TaskIds -> Steps]
  BY DEF TypeInv, TargetTypes, WorkTypes
<1>2. Ahead(k)' = Ahead(k)
  BY <1>0 DEF Ahead, About
<1>3. \A u \in TaskIds, do \in {"copy", "remove"} :
        /\ On(u, do, k)' = On(u, do, k) /\ Waits(u, do, k)' = Waits(u, do, k)
        /\ InHands(u)' = InHands(u)
  BY <1>0 DEF On, Waits, InHands
<1>4. InHands(t) /\ \A u \in TaskIds : WillDo(u) => u = t
  BY <1>0 DEF InHands, WillDo, OneInv
<1>5. CASE Ahead(k) \/ \E u \in TaskIds : Waits(u, IF src[k] # 0 THEN "copy" ELSE "remove", k)
  BY <1>0, <1>2, <1>3, <1>5 DEF Due
<1>6. CASE Settled(k) /\ src[k] # 0
  <2>1. /\ ~On(t, "remove", k) /\ CopySettled(k)
        /\ \A u \in TaskIds : On(u, "copy", k) /\ step[u] = "write" => copied[u] = src[k]
    BY <1>4, <1>6 DEF Settled, CopySettled
  <2>2. CASE ~On(t, "copy", k)
    <3>1. dst'[k] = dst[k] /\ (k \in passedOver => k \in passedOver')
      BY <1>0, <2>1, <2>2, TaskElse DEF On
    <3>2. \A u \in TaskIds : On(u, "copy", k) => WillDo(u)' = WillDo(u)
      BY <1>0, <2>2 DEF WillDo
    <3>3. CopySettled(k)'
      BY <1>0, <1>3, <2>1, <2>2, <3>1, <3>2 DEF CopySettled
    <3> QED BY <1>0, <1>3, <1>6, <3>3 DEF Due, Settled
  <2>3. CASE On(t, "copy", k)
    <3>0. task[t].do = "copy" /\ task[t].key = k /\ k = task[t].key
      BY <2>3 DEF On
    <3>1. dst[k] = src[k] \/ k \in passedOver \/ (task[t].by = "watcher" /\ WillDo(t))
      BY <1>4, <2>1 DEF CopySettled
    <3>2. step'[t] = "write" => copied'[t] = src'[k]
      BY <1>0, <3>0, TaskCopies
    <3>3. result'[t] = "noBucket" => task[t].by # "watcher"
      BY <1>0, <3>0 DEF FindsInv
    <3>4. dst'[k] = src[k] \/ k \in passedOver' \/ (task[t].by = "watcher" /\ WillDo(t)')
      <4>1. CASE dst' = [dst EXCEPT ![k] = copied[t]] /\ step[t] = "write"
        BY <1>1, <2>1, <2>3, <4>1
      <4>2. CASE ~(dst' = [dst EXCEPT ![k] = copied[t]] /\ step[t] = "write")
        <5>0. dst' = dst /\ passedOver \subseteq passedOver'
          BY <1>0, <3>0, <4>2, TaskCopies
        <5>1. CASE dst[k] = src[k] \/ k \in passedOver
          BY <5>0, <5>1
        <5>2. CASE task[t].by = "watcher" /\ WillDo(t) /\ k \notin passedOver'
          <6>1. \/ step'[t] \in {"read", "write"}
                \/ step'[t] \in {"retry", "returned"} /\ result'[t] = "failed"
                \/ step'[t] \in {"retry", "returned"} /\ step[t] = "retry" /\ result'[t] = result[t]
            BY <1>0, <1>6, <3>0, <3>3, <4>2, <5>2, TaskCopies
          <6>2. WillDo(t)'
            BY <1>0, <5>2, <6>1 DEF WillDo
          <6> QED BY <5>2, <6>2
        <5> QED BY <3>1, <5>1, <5>2
      <4> QED BY <1>0, <3>0, <4>1, <4>2, TaskCopies
    <3>5. CopySettled(k)'
      BY <1>0, <1>3, <2>1, <2>3, <3>2, <3>4 DEF CopySettled, Settled
    <3> QED BY <1>0, <1>3, <1>6, <3>5 DEF Due, Settled
  <2> QED BY <2>2, <2>3
<1>7. CASE Settled(k) /\ src[k] = 0
  <2>1. RemovalSettled(k)
    BY <1>7 DEF Settled
  <2>2. \A u \in TaskIds : On(u, "copy", k) => step'[u] # "write"
    <3>1. On(t, "copy", k) => step'[t] # "write"
      BY <1>0, <1>7, TaskCopies DEF On
    <3> QED BY <1>0, <2>1, <3>1 DEF RemovalSettled
  <2>3. CASE On(t, "remove", k)
    <3>1. /\ step'[t] = "returned"
          /\ dst' = [dst EXCEPT ![k] = 0] \/ k \in passedOver' \/ result'[t] = "failed"
      BY <2>3, TaskRemoves DEF On, OneInv
    <3>2. dst'[k] = 0 \/ k \in passedOver' \/ WillDo(t)'
      BY <1>0, <1>1, <3>1 DEF WillDo
    <3>3. RemovalSettled(k)'
      BY <1>0, <1>3, <2>2, <2>3, <3>2 DEF RemovalSettled
    <3> QED BY <1>0, <1>3, <1>7, <3>3 DEF Due, Settled
  <2>4. CASE ~On(t, "remove", k)
    <3>1. dst'[k] = dst[k] /\ (k \in passedOver => k \in passedOver')
      <4>1. CASE On(t, "copy", k)
        <5>1. step[t] # "write"
          BY <2>1, <4>1 DEF RemovalSettled
        <5>2. task[t].do = "copy" /\ k = task[t].key
          BY <4>1 DEF On
        <5> QED BY <1>0, <5>1, <5>2, TaskCopies
      <4>2. CASE ~On(t, "copy", k)
        BY <1>0, <2>4, <4>2, TaskElse DEF On
      <4> QED BY <4>1, <4>2
    <3>2. \A u \in TaskIds : On(u, "remove", k) => WillDo(u)' = WillDo(u)
      BY <1>0, <2>4 DEF WillDo
    <3>3. RemovalSettled(k)'
      BY <1>0, <1>3, <2>1, <2>2, <3>1, <3>2 DEF RemovalSettled
    <3> QED BY <1>0, <1>3, <1>7, <3>3 DEF Due, Settled
  <2> QED BY <2>3, <2>4
<1> QED BY <1>5, <1>6, <1>7 DEF Due

\* Objects that nobody changed, at the steps that leave their tasks alone.
LEMMA ComparesKept ==
  ASSUME NEW k, Compares(k), src'[k] = src[k], dst'[k] = dst[k], k \in passedOver => k \in passedOver',
         src[k] # 0 /\ dstBucket => dstBucket',
         srcSeen'[k] = srcSeen[k], dstSeen'[k] = dstSeen[k], k \in compared' <=> k \in compared,
         CopyUrl(k)' <=> CopyUrl(k), SameTasks
  PROVE  Compares(k)'
BY DEF Compares, Listed, Compared, WillSettle, On, SameTasks

\* A task that is queued for another object, or for one that is to be copied.
LEMMA ComparesQueued ==
  ASSUME TypeInv, AloneInv, NEW k, Compares(k),
         src'[k] = src[k], dst'[k] = dst[k], k \in passedOver => k \in passedOver',
         dstBucket' = dstBucket, UNCHANGED lister,
         NEW n \in TaskIds, status[n] = "new", task[n] = NoTask, status'[n] = "waiting",
         \A t \in TaskIds \ {n} : status'[t] = status[t] /\ task'[t] = task[t],
         UNCHANGED <<step, copied, result>>,
         CopyUrl(k)' => CopyUrl(k),
         On(n, "copy", k)' => CopyUrl(k), CopyUrl(k) => CopyUrl(k)' \/ On(n, "copy", k)'
  PROVE  Compares(k)'
<1>1. step'[n] = "start" /\ result'[n] = "none"
  BY DEF AloneInv
<1>2. WillSettle(n)'
  BY <1>1 DEF WillSettle
<1>3. \A t \in TaskIds : t # n =>
        WillSettle(t)' = WillSettle(t) /\ On(t, "copy", k)' = On(t, "copy", k)
  BY DEF WillSettle, On
<1>4. ~On(n, "copy", k)
  BY DEF On
<1>5. Listed(k)'
  <2>1. On(n, "copy", k)' => k \in compared' /\ src'[k] # 0
    BY DEF Compares, Listed, lister
  <2>2. \A t \in TaskIds : t # n /\ On(t, "copy", k)' =>
          /\ k \in compared' /\ src'[k] # 0
          /\ step'[t] = "write" => copied'[t] = src'[k]
          /\ step'[t] = "retry" => result'[t] \in {"denied", "failed"}
          /\ step'[t] = "returned" => result'[t] \in {"ok", "denied", "failed"}
    BY <1>3 DEF Compares, Listed, lister
  <2> QED BY <1>1, <2>1, <2>2 DEF Compares, Listed, lister
<1>6. Compared(k)'
  BY <1>2, <1>3, <1>4 DEF Compares, Compared, lister
<1> QED BY <1>5, <1>6 DEF Compares

LEMMA ComparesUser ==
  ASSUME TypeInv, User, NEW k \in Keys, Compares(k), k \notin changed'
  PROVE  Compares(k)'
<1>1. UNCHANGED <<target, lister, urls, pool, work>>
  BY UserFrame
<1>2. src'[k] = src[k]
  BY UserChanges DEF TypeInv, UserTypes
<1> QED BY <1>1, <1>2, ComparesKept DEF target, lister, pool, work, SameTasks, CopyUrl

LEMMA ComparesWatch ==
  ASSUME TypeInv, AloneInv, OneInv', WatchMirrorEvents, NEW k \in Keys, Compares(k), k \notin changed'
  PROVE  Compares(k)'
<1>1. UNCHANGED <<src, dst, passedOver, dstBucket, lister, urls>> /\ (CopyUrl(k)' <=> CopyUrl(k))
  BY DEF WatchMirrorEvents, user, target, CopyUrl
<1>2. joinEvent \in Events
  BY QueueHead
<1>3. /\ joinEvent.key \in Keys \cup {NoTask}
      /\ joinEvent.type \in {"put", "delete"} => joinEvent.key \in Keys
  BY <1>2 DEF Event, Events
<1>4. \/ UNCHANGED <<pool, work>>
      \/ \E do \in {"copy", "remove", "makeBucket", "removeBucket", "report"},
            j \in Keys \cup {NoTask} :
           (do \in {"copy", "remove"} => j \in Keys) /\ QueueTask(do, j, "watcher")
  BY <1>3 DEF WatchMirrorEvents
<1>5. CASE UNCHANGED <<pool, work>>
  BY <1>1, <1>5, ComparesKept DEF pool, work, lister, SameTasks
<1>6. ASSUME NEW do \in {"copy", "remove", "makeBucket", "removeBucket", "report"},
             NEW j \in Keys \cup {NoTask}, do \in {"copy", "remove"} => j \in Keys,
             QueueTask(do, j, "watcher")
      PROVE  Compares(k)'
  <2>1. PICK n \in TaskIds :
         /\ status[n] = "new" /\ task[n] = NoTask /\ status'[n] = "waiting"
         /\ task'[n] # NoTask /\ task'[n].do = do /\ task'[n].key = j /\ task'[n].by = "watcher"
         /\ \A t \in TaskIds \ {n} : status'[t] = status[t] /\ task'[t] = task[t]
         /\ UNCHANGED <<step, copied, result>>
    BY <1>6, QueuedTask
  <2>2. ~On(n, "copy", k)'
    BY <2>1 DEF On, OneInv
  <2> QED BY <1>1, <2>1, <2>2, ComparesQueued
<1> QED BY <1>4, <1>5, <1>6

LEMMA ComparesListing ==
  ASSUME TypeInv, OneInv, opts.isOverwrite, Listing, NEW k \in Keys, Compares(k)
  PROVE  Compares(k)'
<1>0. /\ UNCHANGED <<src, dst, passedOver, dstBucket>> /\ SameTasks
      /\ urls \in Seq(Urls) /\ src[k] # -1
      /\ srcSeen \in [Keys -> Versions \cup {-1}] /\ dstSeen \in [Keys -> Versions \cup {-1}]
  BY ListingFrame, VersionsAreNaturals
  DEF user, target, pool, work, SameTasks, TypeInv, StarterTypes, UserTypes, ListTypes
<1>1. ASSUME NEW j \in Keys, ListSource(j) PROVE Compares(k)'
  <2>1. UNCHANGED <<urls, dstSeen, compared>> /\ srcSeen' = [srcSeen EXCEPT ![j] = src[j]]
    BY <1>1 DEF ListSource
  <2>2. srcSeen'[k] = srcSeen[k] \/ srcSeen'[k] = src[k]
    BY <1>0, <2>1
  <2> QED BY <1>0, <2>1, <2>2 DEF Compares, Listed, Compared, CopyUrl, SameTasks, WillSettle, On
<1>2. ASSUME NEW j \in Keys, ListTarget(j) PROVE Compares(k)'
  <2>1. UNCHANGED <<urls, srcSeen, compared>> /\ dstSeen' = [dstSeen EXCEPT ![j] = dst[j]]
    BY <1>2 DEF ListTarget
  <2>2. dstSeen'[k] = dstSeen[k] \/ dstSeen'[k] = dst[k]
    BY <1>0, <2>1
  <2> QED BY <1>0, <2>1, <2>2 DEF Compares, Listed, Compared, CopyUrl, SameTasks, WillSettle, On
<1>3. ASSUME NEW j \in Keys, Compare(j), j # k PROVE Compares(k)'
  <2>1. /\ UNCHANGED <<srcSeen, dstSeen>> /\ compared' = compared \cup {j} /\ urls' = urls \o UrlOf(j)
        /\ UrlOf(j) \in Seq(Urls)
    BY <1>3, UrlsOfKey DEF Compare
  <2>2. \A n \in DOMAIN UrlOf(j) : UrlOf(j)[n].key = j
    BY DEF UrlOf
  <2>3. CopyUrl(k)' <=> CopyUrl(k)
    <3>1. \A n \in DOMAIN urls : n \in DOMAIN urls' /\ urls'[n] = urls[n]
      BY <1>0, <2>1, ConcatKeeps
    <3>2. \A n \in DOMAIN urls' : n \notin DOMAIN urls =>
            n - Len(urls) \in DOMAIN UrlOf(j) /\ urls'[n] = UrlOf(j)[n - Len(urls)]
      BY <1>0, <2>1, ConcatAdds
    <3> QED BY <1>3, <2>2, <3>1, <3>2 DEF CopyUrl
  <2> QED BY <1>0, <1>3, <2>1, <2>3, ComparesKept
<1>4. CASE Compare(k)
  <2>1. /\ UNCHANGED <<srcSeen, dstSeen>> /\ compared' = compared \cup {k} /\ urls' = urls \o UrlOf(k)
        /\ k \notin compared /\ srcSeen[k] # -1 /\ dstSeen[k] # -1
    BY <1>4 DEF Compare
  <2>2. srcSeen[k] = src[k] /\ dstSeen[k] = dst[k] /\ ~CopyUrl(k) /\ \A t \in TaskIds : ~On(t, "copy", k)
    BY <2>1 DEF Compares, Listed
  <2>3. CASE src[k] = 0
    <3>1. urls' = urls
      BY <1>0, <2>1, <2>2, <2>3, SafeUrlOfKey DEF OneInv
    <3>2. ~CopyUrl(k)'
      BY <2>2, <3>1 DEF CopyUrl
    <3>3. \A t \in TaskIds : ~On(t, "copy", k)'
      BY <1>0, <2>2 DEF On, SameTasks
    <3> QED BY <1>0, <2>1, <2>2, <2>3, <3>2, <3>3 DEF Compares, Listed, Compared
  <2>4. CASE src[k] # 0
    <3>1. dst[k] = src[k] \/ UrlOf(k) = <<[do |-> "copy", key |-> k]>>
      BY <2>2, <2>4, UrlOfListed
    <3>2. UrlOf(k) = <<[do |-> "copy", key |-> k]>> => CopyUrl(k)'
      <4> SUFFICES ASSUME UrlOf(k) = <<[do |-> "copy", key |-> k]>> PROVE CopyUrl(k)'
        OBVIOUS
      <4>1. UrlOf(k) \in Seq(Urls) /\ 1 \in DOMAIN UrlOf(k) /\ UrlOf(k)[1] = [do |-> "copy", key |-> k]
        BY UrlsOfKey
      <4>2. Len(urls) + 1 \in DOMAIN urls' /\ urls'[Len(urls) + 1] = UrlOf(k)[1]
        BY <1>0, <2>1, <4>1, ConcatKeeps
      <4> QED BY <4>1, <4>2 DEF CopyUrl
    <3>3. \A t \in TaskIds : ~On(t, "copy", k)'
      BY <1>0, <2>2 DEF On, SameTasks
    <3>4. Listed(k)'
      BY <1>0, <2>1, <2>2, <2>4, <3>3 DEF Compares, Listed
    <3>5. Compared(k)'
      BY <1>0, <3>1, <3>2 DEF Compared
    <3> QED BY <3>4, <3>5 DEF Compares
  <2> QED BY <2>3, <2>4
<1>5. CASE ListingEnds
  BY <1>0, <1>5, ComparesKept DEF ListingEnds, CopyUrl
<1>6. CASE ListingFails
  <2>1. UNCHANGED <<srcSeen, dstSeen, compared>> /\ urls' = Append(urls, [do |-> "error", key |-> NoTask])
    BY <1>6 DEF ListingFails
  <2>2. /\ \A n \in DOMAIN urls : n \in DOMAIN urls' /\ urls'[n] = urls[n]
        /\ \A n \in DOMAIN urls' : n \in DOMAIN urls \/ urls'[n].do = "error"
    BY <1>0, <2>1
  <2>3. CopyUrl(k)' <=> CopyUrl(k)
    BY <2>2 DEF CopyUrl
  <2> QED BY <1>0, <2>1, <2>3, ComparesKept
<1> QED BY <1>1, <1>2, <1>3, <1>4, <1>5, <1>6 DEF Listing

\* What the starter takes from the comparison.
LEMMA UrlTaken ==
  ASSUME urls \in Seq(Urls), urls # <<>>, urls' = Tail(urls), NEW k
  PROVE  /\ CopyUrl(k)' => CopyUrl(k)
         /\ CopyUrl(k) => CopyUrl(k)' \/ (Head(urls).do = "copy" /\ Head(urls).key = k)
         /\ Head(urls).do = "copy" /\ Head(urls).key = k => CopyUrl(k)
<1>1. /\ 1 \in DOMAIN urls /\ Head(urls) = urls[1]
      /\ \A n \in DOMAIN urls' : n + 1 \in DOMAIN urls /\ urls'[n] = urls[n + 1]
      /\ \A n \in DOMAIN urls : n # 1 => n - 1 \in DOMAIN urls' /\ urls'[n - 1] = urls[n]
  BY TailKeeps
<1>2. CopyUrl(k)' => CopyUrl(k)
  <2> SUFFICES ASSUME NEW n \in DOMAIN urls', urls'[n].do = "copy", urls'[n].key = k
               PROVE  CopyUrl(k)
    BY DEF CopyUrl
  <2> QED BY <1>1 DEF CopyUrl
<1>3. CopyUrl(k) => CopyUrl(k)' \/ (Head(urls).do = "copy" /\ Head(urls).key = k)
  <2> SUFFICES ASSUME NEW n \in DOMAIN urls, urls[n].do = "copy", urls[n].key = k, n # 1
               PROVE  CopyUrl(k)'
    BY <1>1 DEF CopyUrl
  <2>1. n - 1 \in DOMAIN urls' /\ urls'[n - 1] = urls[n]
    BY <1>1
  <2> QED BY <2>1 DEF CopyUrl
<1>4. Head(urls).do = "copy" /\ Head(urls).key = k => CopyUrl(k)
  BY <1>1 DEF CopyUrl
<1> QED BY <1>2, <1>3, <1>4

LEMMA StarterStarts ==
  ASSUME TypeInv, OneInv, StartMirror
  PROVE  /\ UNCHANGED <<src, changed, dst, passedOver, dstBucket, lister>> /\ Queue' = Queue
         /\ \/ UNCHANGED <<urls, pool, work>>
            \/ \E k \in Keys : /\ Head(urls).do = "copy" /\ Head(urls).key = k
                               /\ QueueTask("copy", k, "starter") /\ urls' = Tail(urls)
<1>1. urls \in Seq(SafeUrls) /\ urls # <<>> /\ Head(urls) \in SafeUrls
  BY DEF StartMirror, OneInv, TypeInv, StarterTypes
<1>2. UNCHANGED <<src, changed, dst, passedOver, dstBucket, lister>> /\ Queue' = Queue
  BY DEF StartMirror, user, target, watch, Queue
<1>3. CASE Head(urls).do = "copy"
  <2>1. Head(urls).key \in Keys
    BY <1>1, <1>3 DEF SafeUrls, Urls
  <2>2. QueueTask("copy", Head(urls).key, "starter") /\ urls' = Tail(urls)
    BY <1>3 DEF StartMirror
  <2> QED BY <1>2, <1>3, <2>1, <2>2
<1>4. CASE Head(urls).do # "copy"
  BY <1>1, <1>2, <1>4 DEF StartMirror, SafeUrls
<1> QED BY <1>3, <1>4

LEMMA QuietStarter ==
  ASSUME TypeInv, AloneInv, OneInv, StartMirror, NEW k \in Keys
  PROVE  (Due(k) => Due(k)') /\ (Compares(k) => Compares(k)')
<1>1. /\ UNCHANGED <<src, dst, passedOver, dstBucket, lister>> /\ Queue' = Queue
      /\ Ahead(k) => Ahead(k)'
  BY StarterStarts DEF Ahead, About
<1>2. CASE UNCHANGED <<urls, pool, work>>
  <2>1. SameTasks /\ (CopyUrl(k)' <=> CopyUrl(k))
    BY <1>2 DEF SameTasks, pool, work, CopyUrl
  <2> QED BY <1>1, <2>1, DueKept, ComparesKept DEF lister
<1>3. ASSUME NEW j \in Keys, Head(urls).do = "copy", Head(urls).key = j,
             QueueTask("copy", j, "starter"), urls' = Tail(urls)
      PROVE  (Due(k) => Due(k)') /\ (Compares(k) => Compares(k)')
  <2>1. PICK n \in TaskIds :
         /\ status[n] = "new" /\ task[n] = NoTask /\ status'[n] = "waiting"
         /\ task'[n] # NoTask /\ task'[n].do = "copy" /\ task'[n].key = j /\ task'[n].by = "starter"
         /\ \A t \in TaskIds \ {n} : status'[t] = status[t] /\ task'[t] = task[t]
         /\ UNCHANGED <<step, copied, result>>
    BY <1>3, QueuedTask
  <2>2. urls \in Seq(Urls) /\ urls # <<>>
    BY DEF StartMirror, TypeInv, StarterTypes
  <2>3. /\ CopyUrl(k)' => CopyUrl(k)
        /\ CopyUrl(k) => CopyUrl(k)' \/ j = k
        /\ j = k => CopyUrl(k)
    BY <1>3, <2>2, UrlTaken
  <2>4. On(n, "copy", k)' <=> j = k
    BY <2>1 DEF On
  <2>5. Due(k) => Due(k)'
    BY <1>1, <2>1, DueQueued
  <2>6. Compares(k) => Compares(k)'
    BY <1>1, <2>1, <2>3, <2>4, ComparesQueued
  <2> QED BY <2>5, <2>6
<1> QED BY <1>2, <1>3, StarterStarts

LEMMA QuietError ==
  ASSUME TypeInv, EndInv, DeliverError, NEW k \in Keys
  PROVE  (Due(k) => Due(k)') /\ (Compares(k) => Compares(k)')
<1>1. /\ UNCHANGED <<src, dst, passedOver, dstBucket, lister>> /\ SameTasks /\ Queue' = Queue
      /\ urls' = Tail(urls) /\ urls \in Seq(Urls) /\ urls # <<>> /\ Head(urls).do # "copy"
  BY DEF DeliverError, user, target, pool, work, watch, Queue, SameTasks, TypeInv, StarterTypes, EndInv
<1>2. (CopyUrl(k)' <=> CopyUrl(k)) /\ (Ahead(k) => Ahead(k)')
  BY <1>1, UrlTaken DEF Ahead, About
<1> QED BY <1>1, <1>2, DueKept, ComparesKept DEF lister

LEMMA ComparesStart ==
  ASSUME TypeInv, NEW k \in Keys, Compares(k), NEW t \in TaskIds, StartTask(t)
  PROVE  Compares(k)'
<1>1. /\ status[t] = "waiting" /\ status'[t] = "running"
      /\ \A u \in TaskIds \ {t} : status'[u] = status[u]
      /\ UNCHANGED <<src, dst, passedOver, dstBucket, lister, urls, task, step, copied, result>>
  BY DEF StartTask, Pool!Start, TypeInv, Pool!TypeOK, user, target, work
<1>2. \A u \in TaskIds : WillSettle(u)' = WillSettle(u) /\ On(u, "copy", k)' = On(u, "copy", k)
  BY <1>1 DEF WillSettle, On
<1> QED BY <1>1, <1>2 DEF Compares, Listed, Compared, CopyUrl, lister

LEMMA ComparesDeliver ==
  ASSUME TypeInv, EndInv, NEW k \in Keys, Compares(k), NEW t \in TaskIds, Deliver(t),
         ~errDuringMirror'
  PROVE  Compares(k)'
<1>1. /\ result[t] # "failed" /\ step[t] = "returned"
      /\ \A u \in TaskIds \ {t} : status'[u] = status[u]
      /\ UNCHANGED <<src, dst, passedOver, dstBucket, task, step, copied, result, lister, urls>>
  BY DeliveredWell
<1>2. \A u \in TaskIds : On(u, "copy", k)' = On(u, "copy", k) /\ (u # t => WillSettle(u)' = WillSettle(u))
  BY <1>1 DEF WillSettle, On
<1>3. On(t, "copy", k) => ~WillSettle(t)
  BY <1>1 DEF Compares, Listed, WillSettle
<1> QED BY <1>1, <1>2, <1>3 DEF Compares, Listed, Compared, CopyUrl, lister

LEMMA ComparesFinish ==
  ASSUME TypeInv, NEW k \in Keys, Compares(k), NEW t \in TaskIds, FinishTask(t)
  PROVE  Compares(k)'
<1>1. /\ status[t] = "delivered" /\ task'[t] = NoTask
      /\ \A u \in TaskIds \ {t} :
           /\ status'[u] = status[u] /\ task'[u] = task[u] /\ step'[u] = step[u]
           /\ copied'[u] = copied[u] /\ result'[u] = result[u]
      /\ UNCHANGED <<src, dst, passedOver, dstBucket, lister, urls>>
  BY Finished1
<1>2. ~WillSettle(t) /\ ~On(t, "copy", k)'
  BY <1>1 DEF WillSettle, On
<1>3. \A u \in TaskIds \ {t} :
        On(u, "copy", k)' = On(u, "copy", k) /\ WillSettle(u)' = WillSettle(u)
  BY <1>1 DEF WillSettle, On
<1> QED BY <1>1, <1>2, <1>3 DEF Compares, Listed, Compared, CopyUrl, lister

LEMMA ComparesTask ==
  ASSUME TypeInv, FindsInv, OneInv, opts.isOverwrite, NEW k \in Keys, k \notin changed, Compares(k),
         NEW t \in TaskIds, TaskStep(t)
  PROVE  Compares(k)'
<1>0. /\ UNCHANGED <<src, status, task, lister, urls>> /\ status[t] = "running" /\ task[t] # NoTask
      /\ \A u \in TaskIds \ {t} :
           step'[u] = step[u] /\ copied'[u] = copied[u] /\ result'[u] = result[u]
  BY TaskFrame DEF Environment, user, pool, TypeInv, TasksMatch
<1>1. dst \in [Keys -> Versions] /\ step \in [TaskIds -> Steps]
  BY DEF TypeInv, TargetTypes, WorkTypes
<1>2. src'[k] # 0 => dstBucket'
  BY <1>0, TaskBucket DEF OneInv, Compares, Listed
<1>3. ~On(t, "remove", k)
  BY DEF On, OneInv
<1>4. \A u \in TaskIds : On(u, "copy", k)' = On(u, "copy", k)
  BY <1>0 DEF On
<1>5. \A u \in TaskIds \ {t} : WillSettle(u)' = WillSettle(u)
  BY <1>0 DEF WillSettle
<1>6. CASE ~On(t, "copy", k)
  <2>1. dst'[k] = dst[k] /\ (k \in passedOver => k \in passedOver')
    BY <1>0, <1>3, <1>6, TaskElse DEF On
  <2> QED BY <1>0, <1>2, <1>4, <1>5, <1>6, <2>1 DEF Compares, Listed, Compared, CopyUrl, lister
<1>7. CASE On(t, "copy", k)
  <2>1. task[t].do = "copy" /\ k = task[t].key
    BY <1>7 DEF On
  <2>2. /\ k \in compared /\ src[k] # 0 /\ dstBucket
        /\ step[t] = "write" => copied[t] = src[k]
        /\ step[t] = "retry" => result[t] \in {"denied", "failed"}
        /\ step[t] = "returned" => result[t] \in {"ok", "denied", "failed"}
    BY <1>7 DEF Compares, Listed
  <2>3. /\ step'[t] = "write" => copied'[t] = src[k]
        /\ step'[t] = "retry" => result'[t] \in {"denied", "failed"}
        /\ step'[t] = "returned" => result'[t] \in {"ok", "denied", "failed"}
    BY <1>0, <2>1, <2>2, TaskCopies
  <2>4. dst'[k] = src[k] \/ (dst' = dst /\ passedOver \subseteq passedOver')
    BY <1>0, <1>1, <2>1, <2>2, TaskCopies
  <2>5. dst' = dst /\ WillSettle(t) => WillSettle(t)' \/ dst'[k] = src[k] \/ k \in passedOver'
    <3>1. \/ dst'[k] = src[k] \/ k \in passedOver'
          \/ result'[t] \in {result[t], "none", "failed"}
      BY <1>0, <1>1, <2>1, <2>2, TaskCopies
    <3> QED BY <1>0, <3>1 DEF WillSettle
  <2>6. Listed(k)'
    BY <1>0, <1>2, <1>4, <2>2, <2>3 DEF Compares, Listed, CopyUrl, lister
  <2>7. Compared(k)'
    BY <1>0, <1>4, <1>5, <1>7, <2>4, <2>5 DEF Compares, Compared, CopyUrl, lister
  <2> QED BY <2>6, <2>7 DEF Compares
<1> QED BY <1>6, <1>7

LEMMA InitialQuiet == Init => QuietInv
<1> SUFFICES ASSUME Init, NEW k \in Keys PROVE k \notin changed /\ Compares(k)
  BY DEF QuietInv
<1>1. src[k] # 0 => dstBucket
  BY DEF Init
<1>2. srcSeen[k] = -1 /\ dstSeen[k] = -1 /\ k \notin compared /\ k \notin changed
  BY DEF Init
<1>3. ~CopyUrl(k) /\ \A t \in TaskIds : ~On(t, "copy", k)
  BY DEF Init, CopyUrl, On
<1> QED BY <1>1, <1>2, <1>3 DEF Compares, Listed, Compared

\* What no step takes back.
LEMMA QuietMonotone ==
  ASSUME TypeInv, [Next]_vars
  PROVE  /\ opts' = opts /\ stream' = stream
         /\ errDuringMirror => errDuringMirror'
         /\ changed \subseteq changed' /\ (~User => changed' = changed)
<1>1. CASE User
  <2>1. UNCHANGED <<opts, stream, errDuringMirror>>
    BY <1>1, UserFrame DEF judge
  <2>2. changed \subseteq changed'
    BY <1>1, UserChanges
  <2> QED BY <1>1, <2>1, <2>2
<1>2. CASE Watch
  BY <1>2, WatchFrame DEF judge, user
<1>3. CASE Listing
  BY <1>3, ListingFrame DEF judge, user, watch
<1>4. ASSUME NEW t \in TaskIds, TaskStep(t)
      PROVE  UNCHANGED <<opts, stream, errDuringMirror, changed>>
  BY <1>4, TaskFrame DEF Environment, judge, user, watch
<1>5. CASE Others
  <2>1. UNCHANGED <<opts, stream, changed>>
    BY <1>5, OthersFrame DEF user, watch
  <2>2. errDuringMirror => errDuringMirror'
    BY <1>5 DEF Others, Starter, StartMirror, StarterEnds, DeliverError, Close, MonitorReturns,
       StartTask, Deliver, FinishTask, Judge, judge, vars
  <2> QED BY <2>1, <2>2
<1> QED BY <1>1, <1>2, <1>3, <1>4, <1>5, StepCases

\* The steps that leave the tasks and what they work on alone.
LEMMA QuietFrame ==
  ASSUME UNCHANGED <<src, dst, passedOver, dstBucket, lister, urls, pool, work>>, Queue' = Queue, NEW k
  PROVE  (Due(k) => Due(k)') /\ (Compares(k) => Compares(k)')
<1>1. SameTasks /\ (CopyUrl(k)' <=> CopyUrl(k)) /\ (Ahead(k) => Ahead(k)')
  BY DEF SameTasks, pool, work, CopyUrl, Ahead, About
<1> QED BY <1>1, DueKept, ComparesKept DEF lister

LEMMA QuietOthers ==
  ASSUME MaxWorkers = 1, TypeInv, EndInv, AloneInv, OneInv, Others, ~errDuringMirror',
         NEW k \in Keys
  PROVE  (Due(k) => Due(k)') /\ (Compares(k) => Compares(k)')
<1>1. CASE StartMirror
  BY <1>1, QuietStarter
<1>2. CASE DeliverError
  BY <1>2, QuietError
<1>3. ASSUME NEW t \in TaskIds, StartTask(t) \/ Deliver(t) \/ FinishTask(t)
      PROVE  (Due(k) => Due(k)') /\ (Compares(k) => Compares(k)')
  BY <1>3, DueStart, DueDeliver, DueFinish, ComparesStart, ComparesDeliver, ComparesFinish
<1>4. CASE StarterEnds \/ MonitorReturns \/ UNCHANGED vars
  <2>1. UNCHANGED <<src, dst, passedOver, dstBucket, lister, urls, pool, work>> /\ Queue' = Queue
    BY <1>4 DEF StarterEnds, MonitorReturns, vars, user, target, watch, Queue
  <2> QED BY <2>1, QuietFrame
<1>5. CASE Close
  <2>1. UNCHANGED <<src, dst, passedOver, dstBucket, lister, urls, status, work>> /\ Queue' = Queue
    BY <1>5 DEF Close, Pool!Close, user, target, watch, Queue
  <2>2. SameTasks /\ (CopyUrl(k)' <=> CopyUrl(k)) /\ (Ahead(k) => Ahead(k)')
    BY <2>1 DEF SameTasks, work, CopyUrl, Ahead, About
  <2> QED BY <2>1, <2>2, DueKept, ComparesKept DEF lister
<1> QED BY <1>1, <1>2, <1>3, <1>4, <1>5 DEF Others, Starter

LEMMA QuietStep ==
  ASSUME MaxWorkers = 1, TypeInv, EndInv, AloneInv, FindsInv, FindsInv', LastInv, OneInv, OneInv',
         QuietInv, [Next]_vars
  PROVE  QuietInv'
<1> SUFFICES ASSUME stream' = "open", opts'.isOverwrite, ~errDuringMirror', NEW k \in Keys
             PROVE  IF k \in changed' THEN Due(k)' ELSE Compares(k)'
  BY DEF QuietInv
<1>0. /\ stream = "open" /\ opts.isOverwrite /\ ~errDuringMirror
      /\ k \in changed => k \in changed' /\ Due(k)
      /\ k \notin changed => Compares(k)
      /\ ~User => (k \in changed' <=> k \in changed)
  BY QuietMonotone DEF QuietInv
<1>1. CASE User
  <2>1. k \in changed' => Due(k)'
    BY <1>0, <1>1, DueUser
  <2>2. k \notin changed' => Compares(k)'
    BY <1>0, <1>1, ComparesUser
  <2> QED BY <2>1, <2>2
<1>2. CASE ~User /\ ((Due(k) => Due(k)') /\ (k \notin changed /\ Compares(k) => Compares(k)'))
  BY <1>0, <1>2
<1>3. CASE ~User /\ WatchMirrorEvents
  <2>1. k \in changed => Due(k)'
    BY <1>0, <1>3, DueWatch
  <2>2. k \notin changed => Compares(k)'
    BY <1>0, <1>3, ComparesWatch
  <2> QED BY <1>0, <1>3, <2>1, <2>2
<1>4. CASE ~User /\ Watch /\ ~WatchMirrorEvents
  <2>1. UNCHANGED <<src, dst, passedOver, dstBucket, lister, urls, pool, work>>
    BY <1>4 DEF Watch, JoinTakes, JoinStops, WatcherStops, StopReturns, user, target
  <2>2. Queue' = Queue
    BY <1>4, QueueSame
  <2> QED BY <1>2, <1>4, <2>1, <2>2, QuietFrame
<1>5. CASE ~User /\ Listing
  <2>1. UNCHANGED <<src, dst, passedOver, pool, work, watch>>
    BY <1>5, ListingFrame DEF user, target
  <2>2. SameTasks /\ (Ahead(k) => Ahead(k)')
    BY <2>1 DEF SameTasks, pool, work, watch, Ahead, About, Queue
  <2>3. Due(k) => Due(k)'
    BY <2>1, <2>2, DueKept
  <2>4. Compares(k) => Compares(k)'
    BY <1>0, <1>5, ComparesListing
  <2> QED BY <1>2, <1>5, <2>3, <2>4
<1>6. ASSUME NEW t \in TaskIds, TaskStep(t), ~User
      PROVE  IF k \in changed' THEN Due(k)' ELSE Compares(k)'
  <2>1. Due(k) => Due(k)'
    BY <1>0, <1>6, DueTask
  <2>2. k \notin changed /\ Compares(k) => Compares(k)'
    BY <1>0, <1>6, ComparesTask
  <2> QED BY <1>2, <1>6, <2>1, <2>2
<1>7. CASE ~User /\ Others
  <2>1. (Due(k) => Due(k)') /\ (Compares(k) => Compares(k)')
    BY <1>7, QuietOthers
  <2> QED BY <1>2, <1>7, <2>1
<1> QED BY <1>1, <1>3, <1>4, <1>5, <1>6, <1>7, StepCases

\* What is due or compared is done when nothing is left to do.
LEMMA QuietShows ==
  ASSUME TypeInv, EndInv, OneInv, QuietInv, Quiet
  PROVE  \A k \in Keys \ passedOver :
           /\ src[k] # 0 => dst[k] = src[k]
           /\ src[k] = 0 /\ k \in changed => dst[k] = 0
<1>1. joinEvent = NoTask /\ events = <<>>
  BY DEF Quiet, TypeInv, WatchTypes
<1>2. Queue = <<>>
  BY <1>1 DEF Queue
<1>3. stream = "open" /\ opts.isOverwrite /\ ~errDuringMirror
  BY <1>2 DEF OneInv, OneWatch, Quiet
<1>4. \A t \in TaskIds : task[t] = NoTask /\ status[t] \in {"new", "over"}
  BY DEF Quiet, TypeInv, TasksMatch
<1>5. urls = <<>> /\ compared = Keys
  BY <1>3 DEF Quiet, EndInv
<1> SUFFICES ASSUME NEW k \in Keys \ passedOver
             PROVE  /\ src[k] # 0 => dst[k] = src[k]
                    /\ src[k] = 0 /\ k \in changed => dst[k] = 0
  OBVIOUS
<1>6. ~Ahead(k) /\ ~CopyUrl(k)
  BY <1>2, <1>5 DEF Ahead, CopyUrl
<1>7. CASE k \in changed
  <2>1. Due(k)
    BY <1>3, <1>7 DEF QuietInv
  <2>2. Settled(k)
    BY <1>4, <1>6, <2>1 DEF Due, Waits
  <2> QED BY <1>4, <2>2 DEF Settled, CopySettled, RemovalSettled, On
<1>8. CASE k \notin changed
  <2>1. Compared(k)
    BY <1>3, <1>8 DEF QuietInv, Compares
  <2> QED BY <1>4, <1>5, <1>6, <1>8, <2>1 DEF Compared, On
<1> QED BY <1>7, <1>8

\* A mirror that watches, with one worker and without --remove, has brought the
\* target up to date when it is quiet: however the changes of the users, the
\* comparison of the sites, the events and the tasks interleave; but for the
\* objects whose last copy or removal was denied.
THEOREM QuietIsInSync ==
  ASSUME MaxWorkers = 1, \A o \in Options : ~o.isRemove
  PROVE  Spec => []QuietMeansInSync
<1>1. Init => LastInv /\ OneInv /\ QuietInv
  BY InitialLast, InitialOne, InitialQuiet
<1>2. /\ TypeInv /\ EndInv /\ BucketInv /\ BucketInv' /\ LastInv /\ OneInv /\ QuietInv /\ [Next]_vars
      => LastInv' /\ OneInv' /\ QuietInv'
  <2> SUFFICES ASSUME TypeInv, EndInv, BucketInv, BucketInv', LastInv, OneInv, QuietInv, [Next]_vars
               PROVE  LastInv' /\ OneInv' /\ QuietInv'
    OBVIOUS
  <2>1. AloneInv /\ FindsInv /\ FindsInv'
    BY DEF BucketInv
  <2>2. LastInv' /\ OneInv'
    BY <2>1, LastStep, OneStep
  <2> QED BY <2>1, <2>2, QuietStep
<1>3. Spec => [](TypeInv /\ EndInv)
  BY MirrorInvariant, PTL
<1>4. TypeInv /\ EndInv /\ OneInv /\ QuietInv => QuietMeansInSync
  BY QuietShows DEF QuietMeansInSync
<1> QED BY <1>1, <1>2, <1>3, <1>4, BucketInvariant, PTL DEF Spec

===============================================================================
