------------------------------- MODULE MirrorJob -------------------------------
(***************************************************************************)
(* One mirror job (mirror of cmd/mirror-main.go) while users change the    *)
(* source: the starter goroutine that turns the comparison into tasks, the *)
(* watcher that turns events into tasks, the tasks themselves, the monitor *)
(* that judges their results and cancels, and the end of the job.  The     *)
(* workers are a TaskPool, which ParallelManager implements.               *)
(*                                                                         *)
(* An object is a version number, 0 when there is none.  The keys are the  *)
(* objects of one bucket.  The events of the source arrive in order.       *)
(***************************************************************************)
EXTENDS Integers, Sequences, FiniteSets

CONSTANTS
  Keys,        \* the objects of the bucket
  Options,     \* the mirrorOptions to consider
  Changes,     \* what users do: "put", "delete", "makeBucket", "removeBucket"
  MaxChanges,  \* bound: how often they do it
  Failures,    \* what may fail: "copy", "remove", "bucket", "listing", "watch";
               \* "denied": copies and removals, with an error that the mirror
               \* ignores (no permission, a broken link)
  MaxWatchErrors, \* bound: errors of the event stream
  MaxWorkers,  \* workers of the pool
  maxRetries,  \* of newRetryManager (3 in the code)
  NoTask       \* no task, no event

ASSUME MirrorAssumption ==
  /\ IsFiniteSet(Keys)
  /\ Changes \subseteq {"put", "delete", "makeBucket", "removeBucket"}
  /\ Failures \subseteq {"copy", "remove", "bucket", "listing", "watch", "denied"}
  /\ MaxChanges \in Nat /\ MaxWatchErrors \in Nat
  /\ MaxWorkers \in Nat \ {0} /\ maxRetries \in Nat
  /\ \A o \in Options :
       o \in [isWatch: BOOLEAN, isRemove: BOOLEAN, isOverwrite: BOOLEAN,
              skipErrors: BOOLEAN, isRetriable: BOOLEAN]

Old == MaxChanges + 2
Versions == 0..Old
\* Every comparison, event and error of the event stream queues one task.
TaskIds == 1..(Cardinality(Keys) + MaxChanges + MaxWatchErrors)
Event == [type: {"put", "delete", "makeBucket", "removeBucket", "error",
                 "notImplemented"},
          key: Keys \cup {NoTask}]
Task == [do: {"copy", "remove", "makeBucket", "removeBucket", "report"},
         key: Keys \cup {NoTask}, by: {"starter", "watcher"}]
ASSUME NoTaskAssumption == NoTask \notin Keys \cup Task \cup Event

VARIABLES
  opts,                   \* the options of this job
  src, dst,               \* key -> version, on either side
  srcBucket, dstBucket,   \* the bucket exists
  passedOver,             \* keys whose last copy or removal was denied
  changes, changed,       \* number of changes, the keys they were about
  stream,                 \* of events: "open", "none" or not implemented
  events, watchErrors,    \* the stream of events; the errors it had
  join, joinEvent,        \* the goroutine of Watcher.Join, what it carries
  watcher,                \* where watchMirror is
  srcSeen, dstSeen,       \* what the listings said of a key, -1 before
  compared,               \* the keys that were compared
  urls, listing,          \* URLsCh and diffCh; how the listings stand
  starter,                \* where startMirror is
  status, solo, closed,   \* the pool
  task,                   \* task id -> what it does
  step, copied, tries,    \* task id -> how far its function is
  result,                 \* task id -> the URLs its function returned
  monitor,                \* where monitorMirrorStatus is
  cancelInProgress, errDuringMirror, cancelled

user == <<src, srcBucket, changes, changed>>
target == <<dst, dstBucket, passedOver>>
watch == <<stream, events, watchErrors, join, joinEvent, watcher>>
lister == <<srcSeen, dstSeen, compared, listing>>
pool == <<status, solo, closed>>
work == <<task, step, copied, tries, result>>
judge == <<monitor, cancelInProgress, errDuringMirror, cancelled>>
vars == <<opts, user, target, watch, lister, urls, starter, pool, work, judge>>

Pool == INSTANCE TaskPool WITH Ids <- TaskIds

Init ==
  /\ opts \in Options
  /\ srcBucket \in IF "makeBucket" \in Changes THEN BOOLEAN ELSE {TRUE}
  /\ dstBucket = srcBucket
  /\ src \in [Keys -> IF srcBucket THEN {0, 1} ELSE {0}]
  /\ dst \in [Keys -> IF dstBucket THEN {0, 1, Old} ELSE {0}]
  /\ passedOver = {}
  /\ changes = 0 /\ changed = {}
  /\ stream \in IF ~opts.isWatch THEN {"none"}
                 ELSE IF "watch" \in Failures THEN {"open", "notImplemented"}
                 ELSE {"open"}
  /\ events = IF stream # "notImplemented" THEN <<>>
              ELSE <<[type |-> "notImplemented", key |-> NoTask]>>
  /\ watchErrors = 0
  /\ join = IF opts.isWatch THEN "select" ELSE "gone"
  /\ joinEvent = NoTask
  /\ watcher = IF opts.isWatch THEN "select" ELSE "done"
  /\ srcSeen = [k \in Keys |-> -1] /\ dstSeen = [k \in Keys |-> -1]
  /\ compared = {} /\ urls = <<>> /\ listing = "on"
  /\ starter = "select"
  /\ Pool!Init
  /\ task = [t \in TaskIds |-> NoTask]
  /\ step = [t \in TaskIds |-> "start"]
  /\ copied = [t \in TaskIds |-> 0] /\ tries = [t \in TaskIds |-> 0]
  /\ result = [t \in TaskIds |-> "none"]
  /\ monitor = "range" /\ cancelInProgress = FALSE
  /\ errDuringMirror = FALSE /\ cancelled = FALSE

-----------------------------------------------------------------------------
(***************************************************************************)
(* The users of the source, and its stream of events.                      *)
(***************************************************************************)
Notify(type, key) ==
  events' = IF stream = "open"
            THEN Append(events, [type |-> type, key |-> key]) ELSE events

Change(type, key) ==
  /\ type \in Changes /\ changes < MaxChanges
  /\ changes' = changes + 1
  /\ changed' = changed \cup ({key} \cap Keys)
  /\ Notify(type, key)
  /\ UNCHANGED <<opts, target, stream, watchErrors, join, joinEvent, watcher,
                 lister, urls, starter, pool, work, judge>>

PutObject(k) ==
  /\ srcBucket
  /\ src' = [src EXCEPT ![k] = changes + 2]
  /\ Change("put", k) /\ UNCHANGED srcBucket

DeleteObject(k) ==
  /\ src[k] # 0
  /\ src' = [src EXCEPT ![k] = 0]
  /\ Change("delete", k) /\ UNCHANGED srcBucket

MakeBucket ==
  /\ ~srcBucket /\ srcBucket' = TRUE
  /\ Change("makeBucket", NoTask) /\ UNCHANGED src

RemoveBucket ==
  /\ srcBucket /\ \A k \in Keys : src[k] = 0
  /\ srcBucket' = FALSE
  /\ Change("removeBucket", NoTask) /\ UNCHANGED src

\* The stream fails and goes on.
StreamFails ==
  /\ "watch" \in Failures /\ stream = "open" /\ watchErrors < MaxWatchErrors
  /\ watchErrors' = watchErrors + 1
  /\ Notify("error", NoTask)
  /\ UNCHANGED <<opts, user, target, stream, join, joinEvent, watcher, lister,
                 urls, starter, pool, work, judge>>

(***************************************************************************)
(* The pool.  A producer is in doQueueTask until a worker has its task.    *)
(***************************************************************************)
Blocked(p) == \E t \in TaskIds : status[t] = "waiting" /\ task[t].by = p
IsNext(t) == /\ status[t] = "new"
             /\ \A u \in TaskIds : status[u] = "new" => t <= u

\* Mutant: bucket tasks are queued like any other.
QueueTaskNoBarrier(do, key, by) ==
  /\ \E t \in TaskIds :
       /\ IsNext(t) /\ Pool!Submit(t, FALSE)
       /\ task' = [task EXCEPT ![t] = [do |-> do, key |-> key, by |-> by]]
  /\ UNCHANGED <<step, copied, tries, result>>

\* queueTask; queueTaskWithBarrier for buckets.
QueueTask(do, key, by) ==
  /\ \E t \in TaskIds :
       /\ IsNext(t) /\ Pool!Submit(t, do \in {"makeBucket", "removeBucket"})
       /\ task' = [task EXCEPT ![t] = [do |-> do, key |-> key, by |-> by]]
  /\ UNCHANGED <<step, copied, tries, result>>

\* Mutant: the cap of the workers does not hold.
StartTaskPastCap(t) ==
  /\ Pool!Start(t)
  /\ UNCHANGED <<opts, user, target, watch, lister, urls, starter, work, judge>>

StartTask(t) ==
  /\ Cardinality(Pool!InHand) < MaxWorkers
  /\ Pool!Start(t)
  /\ UNCHANGED <<opts, user, target, watch, lister, urls, starter, work, judge>>

FinishTask(t) ==
  /\ Pool!Finish(t)
  /\ task' = [task EXCEPT ![t] = NoTask]
  /\ step' = [step EXCEPT ![t] = "start"]
  /\ copied' = [copied EXCEPT ![t] = 0] /\ tries' = [tries EXCEPT ![t] = 0]
  /\ result' = [result EXCEPT ![t] = "none"]
  /\ UNCHANGED <<opts, user, target, watch, lister, urls, starter, judge>>

(***************************************************************************)
(* watchMirror, and the goroutine of Join that feeds it.                   *)
(***************************************************************************)
JoinTakes ==
  /\ join = "select" /\ events # <<>>
  /\ join' = "send" /\ joinEvent' = Head(events) /\ events' = Tail(events)
  /\ UNCHANGED <<opts, user, target, stream, watchErrors, watcher, lister, urls,
                 starter, pool, work, judge>>

\* DoneChan is closed, or the channels of a stream that does not exist.
JoinStops ==
  /\ join = "select"
  /\ watcher = "stopping" \/ (stream = "notImplemented" /\ events = <<>>)
  /\ join' = "gone"
  /\ UNCHANGED <<opts, user, target, stream, events, watchErrors, joinEvent,
                 watcher, lister, urls, starter, pool, work, judge>>

WatcherSelects == watcher = "select" /\ ~Blocked("watcher")

\* The select of watchMirror receives an event or error from Join, and queues
\* what watchMirrorEvents makes of it.
WatchMirrorEvents ==
  /\ WatcherSelects /\ join = "send"
  /\ LET e == joinEvent IN
       CASE e.type = "put" -> QueueTask("copy", e.key, "watcher")
         [] e.type = "delete" -> QueueTask("remove", e.key, "watcher")
         [] e.type = "makeBucket" -> QueueTask("makeBucket", NoTask, "watcher")
         [] e.type = "removeBucket" /\ opts.isRemove ->
              QueueTask("removeBucket", NoTask, "watcher")
         [] e.type = "error" -> QueueTask("report", NoTask, "watcher")
         [] OTHER -> UNCHANGED <<pool, work>>
  /\ watcher' = IF joinEvent.type = "notImplemented" THEN "stopping"
                ELSE watcher
  /\ join' = "select" /\ joinEvent' = NoTask
  /\ UNCHANGED <<opts, user, target, stream, events, watchErrors, lister, urls,
                 starter, judge>>

\* The select finds the context done; Stop closes DoneChan ...
WatcherStops ==
  /\ WatcherSelects /\ cancelled
  /\ watcher' = "stopping"
  /\ UNCHANGED <<opts, user, target, stream, events, watchErrors, join,
                 joinEvent, lister, urls, starter, pool, work, judge>>

\* ... and waits for the goroutine of Join.
StopReturns ==
  /\ watcher = "stopping" /\ join = "gone"
  /\ watcher' = "done"
  /\ UNCHANGED <<opts, user, target, stream, events, watchErrors, join,
                 joinEvent, lister, urls, starter, pool, work, judge>>

(***************************************************************************)
(* The comparison (Difference has its detail) and startMirror.             *)
(***************************************************************************)
ListSource(k) ==
  /\ listing = "on" /\ srcSeen[k] = -1
  /\ srcSeen' = [srcSeen EXCEPT ![k] = src[k]]
  /\ UNCHANGED <<opts, user, target, watch, dstSeen, compared, listing, urls,
                 starter, pool, work, judge>>

ListTarget(k) ==
  /\ listing = "on" /\ dstSeen[k] = -1
  /\ dstSeen' = [dstSeen EXCEPT ![k] = dst[k]]
  /\ UNCHANGED <<opts, user, target, watch, srcSeen, compared, listing, urls,
                 starter, pool, work, judge>>

UrlOf(k) ==
  CASE srcSeen[k] # 0 /\ dstSeen[k] = 0 -> <<[do |-> "copy", key |-> k]>>
    [] srcSeen[k] = 0 /\ dstSeen[k] # 0 /\ opts.isRemove ->
         <<[do |-> "remove", key |-> k]>>
    [] srcSeen[k] # 0 /\ dstSeen[k] \notin {0, srcSeen[k]} ->
         <<[do |-> IF opts.isOverwrite THEN "copy" ELSE "refuse", key |-> k]>>
    [] OTHER -> <<>>

Compare(k) ==
  /\ listing = "on" /\ k \notin compared
  /\ srcSeen[k] # -1 /\ dstSeen[k] # -1
  /\ urls' = urls \o UrlOf(k)
  /\ compared' = compared \cup {k}
  /\ UNCHANGED <<opts, user, target, watch, srcSeen, dstSeen, listing, starter,
                 pool, work, judge>>

ListingEnds ==
  /\ listing = "on" /\ compared = Keys
  /\ listing' = "complete"
  /\ UNCHANGED <<opts, user, target, watch, srcSeen, dstSeen, compared, urls,
                 starter, pool, work, judge>>

ListingFails ==
  /\ "listing" \in Failures /\ listing = "on"
  /\ listing' = "failed"
  /\ urls' = Append(urls, [do |-> "error", key |-> NoTask])
  /\ UNCHANGED <<opts, user, target, watch, srcSeen, dstSeen, compared, starter,
                 pool, work, judge>>

StarterSelects == starter = "select" /\ ~Blocked("starter")

StartMirror ==
  /\ StarterSelects /\ urls # <<>>
  /\ IF Head(urls).do \in {"copy", "remove"}
     THEN /\ QueueTask(Head(urls).do, Head(urls).key, "starter")
          /\ urls' = Tail(urls) /\ UNCHANGED starter
     ELSE /\ starter' = "status"
          /\ UNCHANGED <<urls, pool, work>>
  /\ UNCHANGED <<opts, user, target, watch, lister, judge>>

\* URLsCh is closed, or the select finds the context done.
StarterEnds ==
  /\ StarterSelects
  /\ cancelled \/ (urls = <<>> /\ listing # "on")
  /\ starter' = "done"
  /\ UNCHANGED <<opts, user, target, watch, lister, urls, pool, work, judge>>

(***************************************************************************)
(* The functions of the tasks, with the context that may be cancelled:     *)
(* doMirrorWatch, doMirror, doRemove, doCreateBucket, doDeleteBucket.      *)
(***************************************************************************)
Runs(t, do) == status[t] = "running" /\ task[t].do = do
Returns(t, r) == /\ step' = [step EXCEPT ![t] = "returned"]
                 /\ result' = [result EXCEPT ![t] = r]
                 /\ UNCHANGED <<copied, tries>>
Environment == <<opts, user, watch, lister, urls, starter, pool, task, judge>>

Report(t) ==
  /\ Runs(t, "report") /\ step[t] = "start"
  /\ Returns(t, "failed")
  /\ UNCHANGED <<Environment, target>>

\* An event's object is not written over one that the target has.
Stat(t) ==
  /\ Runs(t, "copy") /\ step[t] = "start"
  /\ IF task[t].by = "watcher" /\ ~opts.isOverwrite /\ dst[task[t].key] # 0
     THEN Returns(t, "ignored")
     ELSE /\ step' = [step EXCEPT ![t] = "read"]
          /\ UNCHANGED <<copied, tries, result>>
  /\ UNCHANGED <<Environment, target>>

\* The upload returns the error r; with --retry it is tried again later.
UploadFails(t, r) ==
  IF opts.isRetriable
  THEN /\ step' = [step EXCEPT ![t] = "retry"]
       /\ result' = [result EXCEPT ![t] = r]
       /\ copied' = [copied EXCEPT ![t] = 0] /\ UNCHANGED tries
  ELSE Returns(t, r)

\* uploadSourceToTargetURL opens the source ...
Read(t) ==
  /\ Runs(t, "copy") /\ step[t] = "read"
  /\ LET version == src[task[t].key] IN
       IF version = 0 THEN UploadFails(t, "ignored")
       ELSE /\ copied' = [copied EXCEPT ![t] = version]
            /\ step' = [step EXCEPT ![t] = "write"]
            /\ UNCHANGED <<tries, result>>
  /\ UNCHANGED <<Environment, target>>

\* ... and writes what it read to the target.
Write(t) ==
  /\ Runs(t, "copy") /\ step[t] = "write"
  /\ IF dstBucket
     THEN /\ dst' = [dst EXCEPT ![task[t].key] = copied[t]]
          /\ passedOver' = passedOver \ {task[t].key}
          /\ Returns(t, "ok")
     ELSE UploadFails(t, "noBucket") /\ UNCHANGED <<dst, passedOver>>
  /\ UNCHANGED <<Environment, dstBucket>>

\* Either of them fails: with an error that counts, or with
\* PathInsufficientPermission or one of isErrIgnored, which does not.
CopyFails(t) ==
  /\ Runs(t, "copy") /\ step[t] \in {"read", "write"}
  /\ \/ /\ "copy" \in Failures \/ cancelled
        /\ UploadFails(t, "failed") /\ UNCHANGED passedOver
     \/ /\ "denied" \in Failures
        /\ UploadFails(t, "denied")
        /\ passedOver' = passedOver \cup {task[t].key}
  /\ UNCHANGED <<Environment, dst, dstBucket>>

\* Mutant: one retry too many.
RetryOnceMore(t) ==
  /\ step[t] = "retry" /\ status[t] = "running"
  /\ IF tries[t] <= maxRetries
     THEN /\ step' = [step EXCEPT ![t] = "read"]
          /\ tries' = [tries EXCEPT ![t] = @ + 1]
          /\ result' = [result EXCEPT ![t] = "none"]
          /\ UNCHANGED copied
     ELSE Returns(t, result[t])
  /\ UNCHANGED <<Environment, target>>

\* retry: the timer fires, or the command is cancelled.
Retry(t) ==
  /\ step[t] = "retry" /\ status[t] = "running"
  /\ IF tries[t] < maxRetries
     THEN /\ step' = [step EXCEPT ![t] = "read"]
          /\ tries' = [tries EXCEPT ![t] = @ + 1]
          /\ result' = [result EXCEPT ![t] = "none"]
          /\ UNCHANGED copied
     ELSE Returns(t, result[t])
  /\ UNCHANGED <<Environment, target>>

RetryAbandoned(t) ==
  /\ step[t] = "retry" /\ status[t] = "running" /\ cancelled
  /\ Returns(t, result[t])
  /\ UNCHANGED <<Environment, target>>

\* doRemove: PathInsufficientPermission is no error of its result.
Remove(t) ==
  /\ Runs(t, "remove") /\ step[t] = "start"
  /\ \/ /\ dstBucket
        /\ dst' = [dst EXCEPT ![task[t].key] = 0]
        /\ passedOver' = passedOver \ {task[t].key}
        /\ Returns(t, "ok")
     \/ /\ "denied" \in Failures
        /\ passedOver' = passedOver \cup {task[t].key}
        /\ Returns(t, "ok") /\ UNCHANGED dst
     \/ /\ "remove" \in Failures \/ cancelled \/ ~dstBucket
        /\ Returns(t, "failed") /\ UNCHANGED <<dst, passedOver>>
  /\ UNCHANGED <<Environment, dstBucket>>

CreateBucket(t) ==
  /\ Runs(t, "makeBucket") /\ step[t] = "start"
  /\ \/ /\ ~dstBucket \/ opts.isOverwrite
        /\ dstBucket' = TRUE /\ Returns(t, "ok")
     \/ /\ \/ "bucket" \in Failures \/ cancelled
           \/ dstBucket /\ ~opts.isOverwrite
        /\ Returns(t, "failed") /\ UNCHANGED dstBucket
  /\ UNCHANGED <<Environment, dst, passedOver>>

DeleteBucket(t) ==
  /\ Runs(t, "removeBucket") /\ step[t] = "start"
  /\ LET removable == dstBucket /\ \A k \in Keys : dst[k] = 0 IN
       \/ /\ removable
          /\ dstBucket' = FALSE /\ Returns(t, "ok")
       \/ /\ "bucket" \in Failures \/ cancelled \/ ~removable
          /\ Returns(t, "failed") /\ UNCHANGED dstBucket
  /\ UNCHANGED <<Environment, dst, passedOver>>

(***************************************************************************)
(* monitorMirrorStatus, and the end of the job.                            *)
(***************************************************************************)

\* Mutant: an error after which the mirror goes on is forgotten.
JudgeForgetful(failed) ==
  /\ errDuringMirror' = (errDuringMirror
                          \/ (failed /\ ~cancelInProgress /\ ~opts.skipErrors))
  /\ cancelInProgress' = (cancelInProgress \/ (failed /\ ~opts.skipErrors))
  /\ cancelled' = (cancelled \/ cancelInProgress')
  /\ UNCHANGED monitor

\* One message of statusCh: the first error that counts cancels the job,
\* unless errors are to be skipped.
Judge(failed) ==
  /\ errDuringMirror' = (errDuringMirror \/ (failed /\ ~cancelInProgress))
  /\ cancelInProgress' = (cancelInProgress \/ (failed /\ ~opts.skipErrors))
  /\ cancelled' = (cancelled \/ cancelInProgress')
  /\ UNCHANGED monitor

\* Mutant: after the cancellation statusCh is not drained.
DeliverUndrained(t) ==
  /\ monitor = "range" /\ ~cancelInProgress /\ step[t] = "returned"
  /\ Pool!Hand(t)
  /\ Judge(result[t] = "failed")
  /\ UNCHANGED <<opts, user, target, watch, lister, urls, starter, work>>

\* A worker hands its result over.  A copy that was denied, or whose object or
\* bucket was not there, has an error that does not count.
Deliver(t) ==
  /\ monitor = "range" /\ step[t] = "returned"
  /\ Pool!Hand(t)
  /\ Judge(result[t] = "failed")
  /\ UNCHANGED <<opts, user, target, watch, lister, urls, starter, work>>

\* The starter hands an error of the comparison over; a refused overwrite
\* does not count.
DeliverError ==
  /\ monitor = "range" /\ starter = "status"
  /\ Judge(Head(urls).do = "error")
  /\ starter' = "select" /\ urls' = Tail(urls)
  /\ UNCHANGED <<opts, user, target, watch, lister, pool, work>>

\* wg.Wait, stopAndWait, close(statusCh).
Close ==
  /\ starter = "done" /\ watcher = "done"
  /\ Pool!Close
  /\ UNCHANGED <<opts, user, target, watch, lister, urls, starter, work, judge>>

\* The range over statusCh ends; the context is always cancelled.
MonitorReturns ==
  /\ monitor = "range" /\ closed
  /\ monitor' = "returned" /\ cancelled' = TRUE
  /\ UNCHANGED <<opts, user, target, watch, lister, urls, starter, pool, work,
                 cancelInProgress, errDuringMirror>>

-----------------------------------------------------------------------------
User ==
  \/ \E k \in Keys : PutObject(k) \/ DeleteObject(k)
  \/ MakeBucket \/ RemoveBucket
  \/ StreamFails

Watch ==
  \/ JoinTakes \/ JoinStops
  \/ WatchMirrorEvents \/ WatcherStops \/ StopReturns

Listing ==
  \/ \E k \in Keys : ListSource(k) \/ ListTarget(k) \/ Compare(k)
  \/ ListingEnds \/ ListingFails

Starter == StartMirror \/ StarterEnds

Act(t) ==
  \/ Report(t) \/ Stat(t) \/ Read(t) \/ Write(t) \/ CopyFails(t)
  \/ Retry(t) \/ RetryAbandoned(t) \/ Remove(t)
  \/ CreateBucket(t) \/ DeleteBucket(t) \/ Deliver(t) \/ FinishTask(t)

Running ==
  \/ User \/ Watch \/ Listing \/ Starter
  \/ \E t \in TaskIds : StartTask(t) \/ Act(t)
  \/ DeliverError \/ Close \/ MonitorReturns

Finished == monitor = "returned" /\ UNCHANGED vars

Next == (monitor = "range" /\ Running) \/ Finished

Spec == Init /\ [][Next]_vars

\* Every goroutine runs when it can, and the pool starts what waits (its
\* liveness is checked in ParallelManager).  Users need not do anything and
\* nothing need fail.
FairSpec ==
  /\ Spec
  /\ WF_vars(monitor = "range" /\ \E k \in Keys :
                ListSource(k) \/ ListTarget(k) \/ Compare(k))
  /\ WF_vars(monitor = "range" /\ ListingEnds)
  /\ WF_vars(monitor = "range" /\ Starter)
  /\ WF_vars(monitor = "range" /\ DeliverError)
  /\ WF_vars(monitor = "range" /\ (Close \/ MonitorReturns))
  /\ WF_vars(monitor = "range" /\ (JoinTakes \/ JoinStops))
  /\ WF_vars(monitor = "range" /\ (WatchMirrorEvents \/ StopReturns))
  /\ SF_vars(monitor = "range" /\ WatcherStops)
  /\ \A t \in TaskIds : /\ SF_vars(monitor = "range" /\ StartTask(t))
                        /\ WF_vars(monitor = "range" /\ Act(t))

-----------------------------------------------------------------------------
(***************************************************************************)
(* Properties.                                                             *)
(***************************************************************************)
Results == {"none", "ok", "ignored", "noBucket", "denied", "failed"}

TypeOK ==
  /\ opts \in Options
  /\ src \in [Keys -> Versions] /\ dst \in [Keys -> Versions]
  /\ srcBucket \in BOOLEAN /\ dstBucket \in BOOLEAN /\ passedOver \subseteq Keys
  /\ changes \in 0..MaxChanges /\ changed \subseteq Keys
  /\ stream \in {"none", "open", "notImplemented"} /\ events \in Seq(Event)
  /\ watchErrors \in 0..MaxWatchErrors
  /\ join \in {"select", "send", "gone"}
  /\ joinEvent \in Event \cup {NoTask}
  /\ join = "send" <=> joinEvent # NoTask
  /\ watcher \in {"select", "stopping", "done"}
  /\ srcSeen \in [Keys -> Versions \cup {-1}]
  /\ dstSeen \in [Keys -> Versions \cup {-1}]
  /\ compared \subseteq Keys
  /\ urls \in Seq([do: {"copy", "remove", "refuse", "error"},
                   key: Keys \cup {NoTask}])
  /\ listing \in {"on", "complete", "failed"}
  /\ starter \in {"select", "status", "done"}
  /\ Pool!TypeOK
  /\ task \in [TaskIds -> Task \cup {NoTask}]
  /\ step \in [TaskIds -> {"start", "read", "write", "retry", "returned"}]
  /\ copied \in [TaskIds -> Versions] /\ tries \in [TaskIds -> 0..maxRetries]
  /\ result \in [TaskIds -> Results]
  /\ monitor \in {"range", "returned"}
  /\ cancelInProgress \in BOOLEAN /\ errDuringMirror \in BOOLEAN
  /\ cancelled \in BOOLEAN

\* mirror returns "no error" only when the target is what the source was: every
\* object that differs has been copied (unless overwriting was not allowed),
\* every extraneous one is gone with --remove, through every interleaving of
\* workers, errors, retries and the cancellation.  It says nothing of an object
\* whose last copy or removal was denied: that is no error to it.
SyncedAtReturn(k) ==
  /\ src[k] # 0 => dst[k] = src[k] \/ (dst[k] # 0 /\ ~opts.isOverwrite)
  /\ src[k] = 0 /\ opts.isRemove => dst[k] = 0
SuccessMeansSynced ==
  monitor = "returned" /\ ~errDuringMirror /\ changes = 0 =>
    \A k \in Keys \ passedOver : SyncedAtReturn(k)

\* "watch and synchronize changes": when the job watches, has no event and no
\* task left and no error behind it, the target has what the source has, and
\* of what was deleted nothing, but for the objects whose last copy or removal
\* was denied.
Quiet ==
  /\ opts.isWatch /\ opts.isOverwrite /\ watcher = "select"
  /\ events = <<>> /\ join = "select"
  /\ starter = "done" /\ listing = "complete"
  /\ \A t \in TaskIds : status[t] \in {"new", "over"}
  /\ ~errDuringMirror
QuietMeansInSync ==
  Quiet => \A k \in Keys \ passedOver :
    /\ src[k] # 0 => dst[k] = src[k]
    /\ src[k] = 0 /\ k \in changed => dst[k] = 0

\* The barrier of the bucket tasks: the copy that an event asked for finds its
\* bucket (otherwise it would be skipped without a word), unless an error was
\* reported before.
BucketBeforeObjects ==
  \A t \in TaskIds :
    result[t] = "noBucket" /\ task[t].by = "watcher" => errDuringMirror

\* Stop waits for the goroutine of Join, which waits for the loop that called
\* Stop to receive what it carries.
StopHangs == watcher = "stopping" /\ join = "send"

\* A mirror that does not watch, finds that it cannot, or was cancelled comes to
\* its end, whatever fails; the only obstacle is StopHangs.
MirrorEnds ==
  stream # "open" \/ cancelled ~> monitor = "returned" \/ StopHangs

\* "Stop all watchers": the end of watchMirror never waits for ever.
StopStops == ~StopHangs

===============================================================================
