--------------------------- MODULE Sessions_proofs ---------------------------
(***************************************************************************)
(* The commands whose goroutines hand on to each other what is to be done: *)
(* a copy or a move, a removal, the buckets of a mirror and performance    *)
(* tests, for any number of items and workers.                             *)
(***************************************************************************)
EXTENDS CopySession, Removal, BucketSync, Perf, SequenceTheorems,
        FiniteSetTheorems, TLAPS

-----------------------------------------------------------------------------
(***************************************************************************)
(* Copies and moves. Nothing is lost, and what cp and mv say is true, for  *)
(* any number of items and workers, in whatever order the goroutines run.  *)
(***************************************************************************)
TaskPlaces == {"new", "copy", "add", "send", "result", "over"}
CopyOutcomes == {"none", "ok", "ignored", "error"}

CopyTypes ==
  /\ Len(items) \in Nat /\ Ids = 1..Len(items)
  /\ nextItem \in Nat \ {0} /\ totalObjects \in Nat
  /\ cpURLsCh \in Seq(Nat)
  /\ {errSeen, retErr, quit, panicked} \subseteq BOOLEAN
  /\ task \in [Ids -> TaskPlaces] /\ outcome \in [Ids -> CopyOutcomes]

\* What an item can be when the lister has passed it: on its way, with a worker
\* or behind an error.
InChannel(i) == \E n \in DOMAIN cpURLsCh : cpURLsCh[n] = i
Behind(i) == \E j \in 2..i : items[j] = Refused
FirstRefused == errSeen /\ totalObjects = 0

Passed(i) == task[i] # "new" \/ InChannel(i) \/ Behind(i) \/ FirstRefused

ListerInv ==
  /\ nextItem \in Ids => nextItem = totalObjects + 1
  /\ \A i \in Ids : i < nextItem => Passed(i)

\* retErr remembers every result that was not good.
OutcomeInv ==
  \A i \in Ids :
    /\ task[i] \in {"result", "over"} => outcome[i] # "none"
    /\ task[i] \in {"add", "send"} => outcome[i] = "ok"
    /\ task[i] = "over" => outcome[i] = "ok" \/ retErr

\* The order in which the goroutines end.
EndInv ==
  /\ queuer \in {"loop", "stop", "done"}
  /\ queuer # "loop" /\ ~quit =>
       cpURLsCh = <<>> /\ \A i \in Ids : i < nextItem
  /\ queuer = "done" => Busy = {}
  /\ main # "loop" /\ ~quit => queuer = "done"
  /\ main # "loop" /\ ~quit /\ FirstRefused => retErr
  /\ contentClosed => main # "loop"
  /\ panicked => quit

CopyIInv == CopyTypes /\ ListerInv /\ OutcomeInv /\ EndInv

-----------------------------------------------------------------------------
LEMMA CopyInitial == CopyInit => CopyIInv
  <1> SUFFICES ASSUME NEW s \in Sessions, CopyStart(s) PROVE CopyIInv
    BY DEF CopyInit
  <1>1. Len(items) \in Nat /\ Ids = 1..Len(items)
    BY ItemsAssumption DEF ItemsAssumption, CopyStart, Ids
  <1>2. CopyTypes
    <2>1. task \in [Ids -> TaskPlaces] /\ outcome \in [Ids -> CopyOutcomes]
      BY DEF CopyStart, TaskPlaces, CopyOutcomes
    <2>2. cpURLsCh \in Seq(Nat) /\ nextItem \in Nat \ {0} /\ totalObjects \in Nat
      BY DEF CopyStart
    <2>3. {errSeen, retErr, quit, panicked} \subseteq BOOLEAN
      BY DEF CopyStart
    <2>4. QED BY <1>1, <2>1, <2>2, <2>3 DEF CopyTypes
  <1>3. ListerInv
    BY <1>1 DEF CopyStart, ListerInv
  <1>4. OutcomeInv
    BY DEF CopyStart, OutcomeInv
  <1>5. EndInv
    BY DEF CopyStart, EndInv
  <1>6. QED BY <1>2, <1>3, <1>4, <1>5 DEF CopyIInv

\* What stays in a queue to which an item is appended, or whose first is taken.
LEMMA Appended ==
  ASSUME NEW S, NEW q \in Seq(S), NEW x \in S
  PROVE  /\ Append(q, x) \in Seq(S)
         /\ \E n \in DOMAIN Append(q, x) : Append(q, x)[n] = x
         /\ \A y : (\E n \in DOMAIN q : q[n] = y) =>
                   \E n \in DOMAIN Append(q, x) : Append(q, x)[n] = y
  <1>1. Append(q, x)[Len(q) + 1] = x /\ Len(q) + 1 \in DOMAIN Append(q, x)
    OBVIOUS
  <1>2. \A n \in DOMAIN q : n \in DOMAIN Append(q, x) /\ Append(q, x)[n] = q[n]
    OBVIOUS
  <1>3. QED BY <1>1, <1>2

LEMMA AppendedOnly ==
  ASSUME NEW S, NEW q \in Seq(S), NEW x \in S, NEW n \in DOMAIN Append(q, x)
  PROVE  Append(q, x)[n] = x \/ \E m \in DOMAIN q : q[m] = Append(q, x)[n]
  <1> DEFINE r == Append(q, x)
  <1>1. Len(q) \in Nat /\ DOMAIN q = 1..Len(q) /\ DOMAIN r = 1..(Len(q) + 1)
    OBVIOUS
  <1>2. r[Len(q) + 1] = x /\ \A m \in 1..Len(q) : r[m] = q[m]
    OBVIOUS
  <1> HIDE DEF r
  <1>3. QED BY <1>1, <1>2 DEF r

LEMMA Taken ==
  ASSUME NEW S, NEW q \in Seq(S), q # <<>>
  PROVE  /\ Head(q) \in S /\ Tail(q) \in Seq(S)
         /\ \E n \in DOMAIN q : q[n] = Head(q)
         /\ \A y : (\E n \in DOMAIN Tail(q) : Tail(q)[n] = y) =>
                   \E n \in DOMAIN q : q[n] = y
         /\ \A y : (\E n \in DOMAIN q : q[n] = y) =>
                   y = Head(q) \/ \E n \in DOMAIN Tail(q) : Tail(q)[n] = y
  <1>1. ASSUME NEW y, NEW n \in DOMAIN q, q[n] = y, n # 1
        PROVE  \E m \in DOMAIN Tail(q) : Tail(q)[m] = y
    <2>1. n - 1 \in DOMAIN Tail(q) /\ Tail(q)[n - 1] = y
      BY <1>1
    <2>2. QED BY <2>1
  <1>2. q[1] = Head(q) /\ 1 \in DOMAIN q /\ Head(q) \in S /\ Tail(q) \in Seq(S)
    OBVIOUS
  <1>3. \A n \in DOMAIN Tail(q) : n + 1 \in DOMAIN q /\ q[n + 1] = Tail(q)[n]
    OBVIOUS
  <1>4. QED BY <1>1, <1>2, <1>3

\* A worker's step moves one item, which is with a worker, to a later place.
LEMMA WorkerMoves ==
  ASSUME CopyIInv, NEW i \in Ids, i \in Busy,
         NEW where \in TaskPlaces \ {"new"}, NEW became \in CopyOutcomes,
         task' = [task EXCEPT ![i] = where],
         outcome' = [outcome EXCEPT ![i] = became],
         UNCHANGED <<items, nextItem, cpURLsCh, totalObjects, queuer, main, quit>>,
         where \in {"result", "over"} => became # "none",
         where \in {"add", "send"} => became = "ok",
         where = "over" => became = "ok" \/ retErr',
         retErr => retErr', retErr' \in BOOLEAN,
         errSeen => errSeen', errSeen' \in BOOLEAN,
         main # "loop" => UNCHANGED <<errSeen, retErr>>,
         contentClosed' = contentClosed,
         panicked' \in BOOLEAN, panicked' => panicked \/ contentClosed
  PROVE  CopyIInv'
  <1>1. CopyTypes'
    BY DEF CopyIInv, CopyTypes, Ids
  <1>2. /\ task'[i] = where /\ outcome'[i] = became /\ task[i] # "new"
        /\ \A j \in Ids : j # i => task'[j] = task[j] /\ outcome'[j] = outcome[j]
    BY DEF CopyIInv, CopyTypes, Busy
  <1>3. Ids' = Ids
    BY DEF Ids
  <1>4. ListerInv'
    <2>1. \A j \in Ids : /\ task[j] # "new" => task'[j] # "new"
                         /\ InChannel(j)' = InChannel(j) /\ Behind(j)' = Behind(j)
      BY <1>2 DEF InChannel, Behind
    <2>2. FirstRefused => FirstRefused'
      BY DEF FirstRefused
    <2>3. QED BY <1>3, <2>1, <2>2 DEF CopyIInv, ListerInv, Passed
  <1>5. OutcomeInv'
    BY <1>2, <1>3 DEF CopyIInv, OutcomeInv
  <1>6. EndInv'
    <2>1. queuer # "done" /\ (main # "loop" => quit)
      BY DEF CopyIInv, EndInv
    <2>2. panicked' => quit
      BY <2>1 DEF CopyIInv, EndInv
    <2>3. QED BY <1>3, <2>1, <2>2 DEF CopyIInv, EndInv
  <1>7. QED BY <1>1, <1>4, <1>5, <1>6 DEF CopyIInv

LEMMA ListStep == ASSUME CopyIInv, List PROVE CopyIInv'
  <1>1. /\ nextItem \in Ids /\ nextItem \in Nat \ {0}
        /\ UNCHANGED <<items, task, outcome, queuer, main, quit, panicked,
                      retErr, contentClosed>>
    BY DEF List, CopyIInv, CopyTypes, removal
  <1>2. quit \/ (queuer = "loop" /\ main = "loop")
    BY <1>1 DEF CopyIInv, EndInv
  <1>3. Ids' = Ids /\ Busy' = Busy
    BY <1>1 DEF Ids, Busy
  <1>4. OutcomeInv'
    BY <1>1, <1>3 DEF CopyIInv, OutcomeInv
  <1>5. EndInv'
    BY <1>1, <1>2, <1>3 DEF CopyIInv, EndInv
  <1>6. CASE items[nextItem] = Refused
    <2>1. /\ errSeen' = TRUE /\ nextItem' = Len(items) + 1
          /\ UNCHANGED <<totalObjects, cpURLsCh>>
      BY <1>6 DEF List
    <2>2. CopyTypes'
      BY <1>1, <1>3, <2>1 DEF CopyIInv, CopyTypes
    <2>3. ListerInv'
      <3>1. CASE nextItem = 1
        BY <1>1, <1>3, <2>1, <3>1 DEF CopyIInv, CopyTypes, ListerInv, Passed, FirstRefused
      <3>2. CASE nextItem # 1
        <4> SUFFICES ASSUME NEW j \in Ids
                     PROVE  Passed(j)'
          BY <1>1, <1>3, <2>1 DEF ListerInv, CopyIInv, CopyTypes
        <4>1. CASE j < nextItem
          BY <1>1, <2>1, <4>1
             DEF CopyIInv, ListerInv, Passed, InChannel, Behind, FirstRefused
        <4>2. CASE ~(j < nextItem)
          <5>1. nextItem \in 2..j
            BY <1>1, <3>2, <4>2 DEF CopyIInv, CopyTypes
          <5>2. QED BY <1>1, <1>6, <5>1 DEF Passed, Behind
        <4>3. QED BY <4>1, <4>2
      <3>3. QED BY <3>1, <3>2
    <2>4. QED BY <1>4, <1>5, <2>2, <2>3 DEF CopyIInv
  <1>7. CASE items[nextItem] # Refused
    <2>1. /\ totalObjects' = totalObjects + 1 /\ nextItem' = nextItem + 1
          /\ cpURLsCh' = Append(cpURLsCh, nextItem) /\ UNCHANGED errSeen
      BY <1>7 DEF List
    <2>a. cpURLsCh \in Seq(Nat) /\ nextItem \in Nat
      BY DEF CopyIInv, CopyTypes
    <2>b. /\ cpURLsCh' \in Seq(Nat)
          /\ \E n \in DOMAIN cpURLsCh' : cpURLsCh'[n] = nextItem
          /\ \A y : InChannel(y) => InChannel(y)'
      <3> DEFINE q == cpURLsCh
                 r == Append(q, nextItem)
      <3>1. /\ r \in Seq(Nat) /\ \E n \in DOMAIN r : r[n] = nextItem
            /\ \A y : (\E n \in DOMAIN q : q[n] = y) => \E n \in DOMAIN r : r[n] = y
        <4> DEFINE N == Nat
        <4>1. q \in Seq(N) /\ nextItem \in N /\ r \in Seq(Nat)
          BY <2>a
        <4> HIDE DEF N, q
        <4>2. \E n \in DOMAIN r : r[n] = nextItem
          BY <4>1, Appended
        <4>3. \A y : (\E n \in DOMAIN q : q[n] = y) => \E n \in DOMAIN r : r[n] = y
          BY <4>1, Appended
        <4>4. QED BY <4>1, <4>2, <4>3
      <3>2. cpURLsCh' = r
        BY <2>1
      <3> HIDE DEF r
      <3>3. QED BY <3>1, <3>2 DEF InChannel
    <2>2. CopyTypes'
      BY <1>1, <1>3, <2>1, <2>b DEF CopyIInv, CopyTypes
    <2>3. ASSUME NEW j \in Ids, j < nextItem' PROVE Passed(j)'
      <3>1. CASE j = nextItem
        BY <2>b, <3>1 DEF Passed, InChannel
      <3>2. CASE j # nextItem
        <4>1. j < nextItem
          BY <1>1, <2>1, <2>3, <3>2 DEF CopyIInv, CopyTypes
        <4>2. InChannel(j) => InChannel(j)'
          BY <2>b
        <4>3. ~FirstRefused
          BY <1>1, <4>1 DEF CopyIInv, CopyTypes, ListerInv, FirstRefused
        <4>4. QED BY <1>1, <4>1, <4>2, <4>3 DEF CopyIInv, ListerInv, Passed, Behind
      <3>3. QED BY <3>1, <3>2
    <2>4. ListerInv'
      BY <1>1, <1>3, <2>1, <2>3 DEF ListerInv, CopyIInv, CopyTypes
    <2>5. QED BY <1>4, <1>5, <2>2, <2>4 DEF CopyIInv
  <1>8. QED BY <1>6, <1>7

LEMMA QueueStep == ASSUME CopyIInv, Queue PROVE CopyIInv'
  <1> DEFINE first == Head(cpURLsCh)
  <1>1. /\ queuer = "loop" /\ cpURLsCh # <<>>
        /\ task' = [task EXCEPT ![first] = "copy"] /\ cpURLsCh' = Tail(cpURLsCh)
        /\ UNCHANGED <<items, outcome, nextItem, errSeen, totalObjects, queuer, main,
                      quit, panicked, retErr, contentClosed>>
    BY DEF Queue, removal
  <1>2. cpURLsCh \in Seq(Nat) /\ task \in [Ids -> TaskPlaces]
    BY DEF CopyIInv, CopyTypes
  <1>3. /\ cpURLsCh' \in Seq(Nat)
        /\ \A y : InChannel(y) => y = first \/ InChannel(y)'
    <2> DEFINE q == cpURLsCh
               r == Tail(q)
    <2>1. /\ r \in Seq(Nat)
          /\ \A y : (\E n \in DOMAIN q : q[n] = y) =>
                    y = Head(q) \/ \E n \in DOMAIN r : r[n] = y
      BY <1>1, <1>2, Taken
    <2>2. cpURLsCh' = r
      BY <1>1
    <2> HIDE DEF r
    <2>3. QED BY <2>1, <2>2 DEF InChannel
  <1>4. Ids' = Ids /\ (main # "loop" => quit)
    BY <1>1 DEF Ids, CopyIInv, EndInv
  <1> HIDE DEF first
  <1>5. CopyTypes'
    BY <1>1, <1>2, <1>3, <1>4 DEF CopyIInv, CopyTypes, TaskPlaces
  <1>6. \A j \in Ids : /\ task'[j] = IF j = first THEN "copy" ELSE task[j]
                       /\ Behind(j)' = Behind(j)
    BY <1>1, <1>2 DEF Behind
  <1>7. ListerInv'
    <2>1. \A j \in Ids : Passed(j) => Passed(j)'
      BY <1>1, <1>3, <1>6 DEF Passed, FirstRefused
    <2>2. QED BY <1>1, <1>4, <2>1 DEF CopyIInv, ListerInv
  <1>8. OutcomeInv'
    BY <1>1, <1>4, <1>6 DEF CopyIInv, OutcomeInv
  <1>9. EndInv'
    BY <1>1, <1>4 DEF CopyIInv, EndInv
  <1>10. QED BY <1>5, <1>7, <1>8, <1>9 DEF CopyIInv

LEMMA StopStep == ASSUME CopyIInv, Stop PROVE CopyIInv'
  <1>1. /\ UNCHANGED <<items, task, outcome, nextItem, cpURLsCh, errSeen, totalObjects,
                      main, quit, panicked, retErr, contentClosed>>
        /\ Ids' = Ids /\ Busy' = Busy
    BY DEF Stop, lister, removal, Ids, Busy
  <1>2. CopyTypes' /\ OutcomeInv'
    BY <1>1 DEF CopyIInv, CopyTypes, OutcomeInv
  <1>3. ListerInv'
    BY <1>1 DEF CopyIInv, ListerInv, Passed, InChannel, Behind, FirstRefused
  <1>4. EndInv'
    <2>1. \/ /\ queuer = "loop" /\ queuer' = "stop"
             /\ quit \/ (cpURLsCh = <<>> /\ nextItem > Len(items))
          \/ queuer = "stop" /\ queuer' = "done" /\ Busy = {}
      BY DEF Stop
    <2>2. nextItem > Len(items) => \A i \in Ids : i < nextItem
      BY DEF CopyIInv, CopyTypes
    <2>3. QED BY <1>1, <2>1, <2>2 DEF CopyIInv, EndInv, FirstRefused
  <1>5. QED BY <1>2, <1>3, <1>4 DEF CopyIInv

\* A statement that concerns none of the variables of CopyIInv.
LEMMA Elsewhere ==
  ASSUME CopyIInv,
         UNCHANGED <<items, task, outcome, nextItem, cpURLsCh, errSeen, totalObjects,
                     queuer, main, quit, panicked, retErr, contentClosed>>
  PROVE  CopyIInv'
  <1>1. Ids' = Ids /\ Busy' = Busy
    BY DEF Ids, Busy
  <1>2. CopyTypes' /\ OutcomeInv' /\ EndInv'
    BY <1>1 DEF CopyIInv, CopyTypes, OutcomeInv, EndInv, FirstRefused
  <1>3. ListerInv'
    BY <1>1 DEF CopyIInv, ListerInv, Passed, InChannel, Behind, FirstRefused
  <1>4. QED BY <1>2, <1>3 DEF CopyIInv

\* The main goroutine goes on: the loop ends, or the channels are closed.
LEMMA MainStep ==
  ASSUME CopyIInv,
         Finish \/ Interrupt \/ CloseManager \/ WaitForRemover
  PROVE  CopyIInv'
  <1>1. /\ UNCHANGED <<items, task, outcome, nextItem, cpURLsCh, errSeen, totalObjects,
                      queuer, panicked>>
        /\ Ids' = Ids /\ Busy' = Busy /\ main' # "loop"
        /\ FirstRefused' = FirstRefused
    BY DEF Finish, Interrupt, LoopEnds, CloseManager, WaitForRemover, lister, Ids,
           Busy, FirstRefused
  <1>2. retErr \in BOOLEAN /\ quit \in BOOLEAN
    BY DEF CopyIInv, CopyTypes
  <1>3. /\ retErr => retErr'
        /\ main = "loop" /\ FirstRefused => retErr'
        /\ retErr' \in BOOLEAN
        /\ \/ quit' = quit /\ (main = "loop" => queuer = "done")
           \/ quit' = TRUE
    <2>1. CASE Finish \/ Interrupt
      <3>1. /\ main = "loop" /\ retErr' = (retErr \/ FirstRefused)
            /\ \/ quit' = quit /\ queuer = "done"
               \/ quit' = TRUE
        BY <2>1 DEF Finish, Interrupt, LoopEnds, FirstRefused
      <3>2. QED BY <1>2, <3>1, Zenon
    <2>2. CASE CloseManager \/ WaitForRemover
      <3>1. main # "loop" /\ retErr' = retErr /\ quit' = quit
        BY <2>2 DEF CloseManager, WaitForRemover
      <3>2. QED BY <1>2, <3>1, Zenon
    <2>3. QED BY <2>1, <2>2
  <1>4. quit' \in BOOLEAN /\ retErr' \in BOOLEAN
    BY <1>2, <1>3, Zenon
  <1>5. CopyTypes'
    BY <1>1, <1>4 DEF CopyIInv, CopyTypes
  <1>6. OutcomeInv'
    BY <1>1, <1>3 DEF CopyIInv, OutcomeInv
  <1>7. ListerInv'
    BY <1>1 DEF CopyIInv, ListerInv, Passed, InChannel, Behind
  <1>8. EndInv'
    BY <1>1, <1>2, <1>3 DEF CopyIInv, EndInv
  <1>9. QED BY <1>5, <1>6, <1>7, <1>8 DEF CopyIInv

\* A worker's own steps, and the delivery of its result.
LEMMA WorkStep == ASSUME CopyIInv, NEW i \in Ids, Work(i) PROVE CopyIInv'
  <1>1. /\ outcome = [outcome EXCEPT ![i] = outcome[i]] /\ outcome[i] \in CopyOutcomes
        /\ task = [task EXCEPT ![i] = task[i]] /\ task[i] \in TaskPlaces
        /\ errSeen \in BOOLEAN /\ retErr \in BOOLEAN /\ panicked \in BOOLEAN
    BY DEF CopyIInv, CopyTypes
  <1> DEFINE Frame == UNCHANGED <<items, nextItem, cpURLsCh, totalObjects, queuer,
                                  main, quit, contentClosed>>
  <1>2. CASE Copy(i)
    <2>1. Frame /\ UNCHANGED <<errSeen, retErr, panicked>> /\ i \in Busy
      BY <1>2 DEF Copy, lister, removal, Busy
    <2>2. PICK where \in {"add", "result"}, became \in {"ok", "ignored", "error"} :
            /\ task' = [task EXCEPT ![i] = where]
            /\ outcome' = [outcome EXCEPT ![i] = became]
            /\ where = "add" => became = "ok"
      BY <1>2 DEF Copy
    <2>3. QED
      BY <1>1, <2>1, <2>2, WorkerMoves DEF TaskPlaces, CopyOutcomes
  <1>3. CASE Add(i)
    <2>1. /\ Frame /\ UNCHANGED <<errSeen, retErr, panicked, outcome>> /\ i \in Busy
          /\ outcome[i] = "ok"
      BY <1>3 DEF Add, lister, Busy, CopyIInv, OutcomeInv
    <2>2. PICK where \in {"send", "result"} : task' = [task EXCEPT ![i] = where]
      BY <1>3 DEF Add
    <2>3. QED
      BY <1>1, <2>1, <2>2, WorkerMoves DEF TaskPlaces, CopyOutcomes
  <1>4. CASE Send(i)
    <2>1. /\ Frame /\ UNCHANGED <<errSeen, retErr, outcome>> /\ i \in Busy
          /\ outcome[i] = "ok"
      BY <1>4 DEF Send, lister, Busy, CopyIInv, OutcomeInv
    <2>2. PICK where \in {"send", "result"} :
            /\ task' = [task EXCEPT ![i] = where]
            /\ \/ contentClosed /\ panicked' = TRUE
               \/ panicked' = panicked
      BY <1>1, <1>4 DEF Send
    <2>3. CASE contentClosed /\ panicked' = TRUE
      BY <1>1, <2>1, <2>2, <2>3, WorkerMoves DEF TaskPlaces, CopyOutcomes
    <2>4. CASE panicked' = panicked
      BY <1>1, <2>1, <2>2, <2>4, WorkerMoves DEF TaskPlaces, CopyOutcomes
    <2>5. QED BY <2>2, <2>3, <2>4
  <1>5. CASE ReceiveStatus(i)
    <2>1. /\ Frame /\ UNCHANGED <<panicked, outcome>> /\ i \in Busy /\ main = "loop"
          /\ task' = [task EXCEPT ![i] = "over"]
          /\ outcome[i] \in {"ok", "ignored", "error"}
      BY <1>1, <1>5
         DEF ReceiveStatus, removal, Busy, CopyIInv, OutcomeInv, CopyOutcomes
    <2>2. /\ retErr' \in BOOLEAN /\ errSeen' \in BOOLEAN
          /\ retErr => retErr'
          /\ errSeen => errSeen'
          /\ outcome[i] \in {"error", "ignored"} => retErr'
      <3>1. /\ retErr' = (retErr \/ outcome[i] \in {"error", "ignored"})
            /\ errSeen' = (errSeen \/ outcome[i] = "error")
        BY <1>5 DEF ReceiveStatus
      <3>2. QED BY <1>1, <3>1, Zenon
    <2>3. QED
      BY <1>1, <2>1, <2>2, WorkerMoves DEF TaskPlaces, CopyOutcomes
  <1>6. QED BY <1>2, <1>3, <1>4, <1>5 DEF Work

LEMMA CopyStep == CopyIInv /\ [CopyNext]_copyVars => CopyIInv'
  <1> SUFFICES ASSUME CopyIInv, [CopyNext]_copyVars PROVE CopyIInv'
    OBVIOUS
  <1>1. CASE UNCHANGED copyVars \/ RemoveSource \/ RemoverEnds
    BY <1>1, Elsewhere DEF copyVars, RemoveSource, RemoverEnds, lister, removal
  <1>2. CASE List
    BY <1>2, ListStep
  <1>3. CASE Queue
    BY <1>3, QueueStep
  <1>4. CASE Stop
    BY <1>4, StopStep
  <1>5. ASSUME NEW i \in Ids, Work(i) PROVE CopyIInv'
    BY <1>5, WorkStep
  <1>6. CASE Finish \/ Interrupt \/ CloseManager \/ WaitForRemover
    BY <1>6, MainStep
  <1>7. QED BY <1>1, <1>2, <1>3, <1>4, <1>5, <1>6 DEF CopyNext

LEMMA CopyInvariant == CopySpec => []CopyIInv
  BY CopyInitial, CopyStep, PTL DEF CopySpec

\* A worker sends on the closed channel of a removeManager only after an
\* interrupt: PanicNeedsInterrupt.
THEOREM PanicsNeedInterrupts == CopySpec => []PanicNeedsInterrupt
  <1>1. CopyIInv => PanicNeedsInterrupt
    BY DEF CopyIInv, EndInv, PanicNeedsInterrupt
  <1>2. QED BY <1>1, CopyInvariant, PTL

\* Exit status 0 without an interrupt: every item before an error of the listing
\* was copied, whichever goroutine was ahead of which: SuccessMeansCopied.
THEOREM SuccessIsCopied == CopySpec => []SuccessMeansCopied
  <1>1. ASSUME CopyIInv, main = "exited", ~quit, ~retErr, NEW i \in Ids
        PROVE  outcome[i] = "ok" \/ \E j \in 2..i : items[j] = Refused
    <2>1. Busy = {} /\ cpURLsCh = <<>> /\ i < nextItem /\ ~FirstRefused
      BY <1>1 DEF CopyIInv, EndInv
    <2>2. task[i] # "new" \/ Behind(i)
      BY <1>1, <2>1 DEF CopyIInv, ListerInv, Passed, InChannel
    <2>3. task[i] \in {"new", "over"}
      BY <1>1, <2>1 DEF CopyIInv, CopyTypes, Busy, TaskPlaces
    <2>4. QED BY <1>1, <2>2, <2>3 DEF CopyIInv, OutcomeInv, Behind
  <1>2. CopyIInv => SuccessMeansCopied
    BY <1>1 DEF SuccessMeansCopied
  <1>3. QED BY <1>2, CopyInvariant, PTL

-----------------------------------------------------------------------------
(***************************************************************************)
(* mv, when no item has the source of another, or its own, as its target.  *)
(***************************************************************************)
Real(i) == items[i] # Refused
Srcs == {items[i].src : i \in Ids}
StillToCopy(p) == \E n \in DOMAIN contentCh : contentCh[n] = p

Apart(all) ==
  \A i, j \in DOMAIN all :
    all[i] # Refused /\ all[j] # Refused => all[i].dst # all[j].src

\* The lister sends no refusal.
RealInv == \A i \in Ids : InChannel(i) \/ task[i] # "new" => Real(i)

LEMMA RealStep == CopyIInv /\ RealInv /\ [CopyNext]_copyVars => RealInv'
  <1> SUFFICES ASSUME CopyIInv, RealInv, [CopyNext]_copyVars PROVE RealInv'
    OBVIOUS
  <1>1. items' = items /\ Ids' = Ids
    BY DEF CopyNext, copyVars, List, Queue, Stop, Work, Copy, Add, Send,
           ReceiveStatus, Finish, Interrupt, LoopEnds, CloseManager,
           WaitForRemover, RemoveSource, RemoverEnds, Ids
  <1>2. /\ task \in [Ids -> TaskPlaces] /\ cpURLsCh \in Seq(Nat)
        /\ Ids = 1..Len(items) /\ nextItem \in Nat /\ Len(items) \in Nat
    BY DEF CopyIInv, CopyTypes
  <1>3. CASE List
    <2>1. task' = task
      BY <1>3 DEF List
    <2>2. CASE items[nextItem] = Refused
      BY <1>1, <1>3, <2>1, <2>2 DEF List, RealInv, InChannel, Real
    <2>3. CASE items[nextItem] # Refused
      <3> DEFINE q == cpURLsCh
                 r == Append(q, nextItem)
      <3>1. cpURLsCh' = r
        BY <1>3, <2>3 DEF List
      <3>2. ASSUME NEW n \in DOMAIN r
            PROVE  r[n] = nextItem \/ \E m \in DOMAIN q : q[m] = r[n]
        BY <1>2, AppendedOnly
      <3> HIDE DEF r
      <3>3. \A y : InChannel(y)' => y = nextItem \/ InChannel(y)
        BY <3>1, <3>2 DEF InChannel
      <3>4. QED BY <1>1, <2>1, <2>3, <3>3 DEF RealInv, Real
    <2>4. QED BY <2>2, <2>3
  <1>4. CASE Queue
    <2> DEFINE q == cpURLsCh
               r == Tail(q)
    <2>1. q # <<>> /\ cpURLsCh' = r /\ task' = [task EXCEPT ![Head(q)] = "copy"]
      BY <1>4 DEF Queue
    <2>2. /\ \E n \in DOMAIN q : q[n] = Head(q)
          /\ \A y : (\E n \in DOMAIN r : r[n] = y) => \E n \in DOMAIN q : q[n] = y
      BY <1>2, <2>1, Taken
    <2> HIDE DEF r
    <2>3. (\A y : InChannel(y)' => InChannel(y)) /\ InChannel(Head(q))
      BY <2>1, <2>2 DEF InChannel
    <2>4. ASSUME NEW j \in Ids, task'[j] # "new" PROVE task[j] # "new" \/ j = Head(q)
      BY <1>2, <2>1, <2>4
    <2>5. QED BY <1>1, <2>3, <2>4 DEF RealInv, Real
  <1>5. ASSUME NEW i \in Ids, Work(i) PROVE RealInv'
    <2>1. cpURLsCh' = cpURLsCh /\ task[i] # "new"
      BY <1>5 DEF Work, Copy, Add, Send, ReceiveStatus, lister
    <2>2. \A j \in Ids : j # i => task'[j] = task[j]
      BY <1>2, <1>5 DEF Work, Copy, Add, Send, ReceiveStatus
    <2>3. QED BY <1>1, <2>1, <2>2 DEF RealInv, InChannel, Real
  <1>6. CASE \/ Stop \/ Finish \/ Interrupt \/ CloseManager \/ WaitForRemover
             \/ RemoveSource \/ RemoverEnds \/ UNCHANGED copyVars
    <2>1. UNCHANGED <<cpURLsCh, task>>
      BY <1>6 DEF Stop, Finish, Interrupt, LoopEnds, CloseManager,
                  WaitForRemover, RemoveSource, RemoverEnds, copyVars, lister
    <2>2. QED BY <1>1, <2>1 DEF RealInv, InChannel, Real
  <1>7. QED BY <1>3, <1>4, <1>5, <1>6 DEF CopyNext

\* The queuer is behind the lister: the items come in order, each once.
QueuedUpTo == totalObjects - Len(cpURLsCh)
QueueInv ==
  /\ \A n \in DOMAIN cpURLsCh : cpURLsCh[n] = QueuedUpTo + n
  /\ \A i \in Ids : i > QueuedUpTo => task[i] = "new"
  /\ \A i \in Ids : task[i] = "new" => outcome[i] = "none"

LEMMA QueueInvStep == CopyIInv /\ QueueInv /\ [CopyNext]_copyVars => QueueInv'
  <1> SUFFICES ASSUME CopyIInv, QueueInv, [CopyNext]_copyVars PROVE QueueInv'
    OBVIOUS
  <1>1. items' = items /\ Ids' = Ids
    BY DEF CopyNext, copyVars, List, Queue, Stop, Work, Copy, Add, Send,
           ReceiveStatus, Finish, Interrupt, LoopEnds, CloseManager,
           WaitForRemover, RemoveSource, RemoverEnds, Ids
  <1>2. /\ task \in [Ids -> TaskPlaces] /\ outcome \in [Ids -> CopyOutcomes]
        /\ cpURLsCh \in Seq(Nat) /\ totalObjects \in Nat
        /\ Ids = 1..Len(items) /\ nextItem \in Nat \ {0} /\ Len(items) \in Nat
    BY DEF CopyIInv, CopyTypes
  <1>3. CASE List
    <2>1. task' = task /\ outcome' = outcome
      BY <1>3 DEF List
    <2>2. CASE items[nextItem] = Refused
      BY <1>1, <1>3, <2>1, <2>2 DEF List, QueueInv, QueuedUpTo
    <2>3. CASE items[nextItem] # Refused
      <3> DEFINE r == Append(cpURLsCh, nextItem)
      <3>1. cpURLsCh' = r /\ totalObjects' = totalObjects + 1
        BY <1>3, <2>3 DEF List
      <3>2. nextItem = totalObjects + 1
        BY <1>2, <1>3 DEF List, CopyIInv, ListerInv
      <3>3. /\ Len(r) = Len(cpURLsCh) + 1 /\ DOMAIN r = 1..Len(r)
            /\ Len(cpURLsCh) \in Nat /\ DOMAIN cpURLsCh = 1..Len(cpURLsCh)
        BY <1>2
      <3>7. /\ r[Len(cpURLsCh) + 1] = nextItem
            /\ \A n \in 1..Len(cpURLsCh) : r[n] = cpURLsCh[n]
        BY <1>2
      <3> HIDE DEF r
      <3>4. QueuedUpTo' = QueuedUpTo /\ QueuedUpTo \in Int
        BY <1>2, <3>1, <3>3 DEF QueuedUpTo
      <3>5. ASSUME NEW n \in DOMAIN r PROVE r[n] = QueuedUpTo + n
        <4>1. CASE n = Len(cpURLsCh) + 1
          BY <1>2, <3>2, <3>3, <3>7, <4>1 DEF QueuedUpTo
        <4>2. CASE n \in 1..Len(cpURLsCh)
          BY <3>3, <3>7, <4>2 DEF QueueInv
        <4>3. QED BY <3>3, <4>1, <4>2
      <3>6. QED BY <1>1, <2>1, <3>1, <3>4, <3>5 DEF QueueInv
    <2>4. QED BY <2>2, <2>3
  <1>4. CASE Queue
    <2> DEFINE r == Tail(cpURLsCh)
    <2>1. /\ cpURLsCh # <<>> /\ cpURLsCh' = r /\ outcome' = outcome
          /\ totalObjects' = totalObjects
          /\ task' = [task EXCEPT ![Head(cpURLsCh)] = "copy"]
      BY <1>4 DEF Queue
    <2>2. /\ Len(r) = Len(cpURLsCh) - 1 /\ DOMAIN r = 1..Len(r)
          /\ \A n \in 1..Len(r) : r[n] = cpURLsCh[n + 1]
          /\ DOMAIN cpURLsCh = 1..Len(cpURLsCh) /\ Len(cpURLsCh) \in Nat \ {0}
          /\ Head(cpURLsCh) = cpURLsCh[1]
      BY <1>2, <2>1
    <2> HIDE DEF r
    <2>3. QueuedUpTo' = QueuedUpTo + 1 /\ QueuedUpTo \in Int
      BY <1>2, <2>1, <2>2 DEF QueuedUpTo
    <2>4. Head(cpURLsCh) = QueuedUpTo + 1
      BY <2>2 DEF QueueInv
    <2>5. ASSUME NEW n \in DOMAIN r PROVE r[n] = QueuedUpTo + 1 + n
      <3>1. r[n] = cpURLsCh[n + 1] /\ n + 1 \in DOMAIN cpURLsCh /\ n \in Nat
        BY <2>2
      <3>2. r[n] = QueuedUpTo + (n + 1)
        BY <3>1 DEF QueueInv
      <3>3. QED BY <2>3, <3>1, <3>2
    <2>6. /\ \A i \in Ids : i > QueuedUpTo + 1 => task'[i] = "new"
          /\ \A i \in Ids : task'[i] = "new" => task[i] = "new"
      <3>1. ASSUME NEW i \in Ids, i > QueuedUpTo + 1 PROVE i > QueuedUpTo /\ i # Head(cpURLsCh)
        BY <1>2, <2>3, <2>4, <3>1
      <3>2. /\ \A i \in Ids : i # Head(cpURLsCh) => task'[i] = task[i]
            /\ \A i \in Ids : task'[i] = "new" => task[i] = "new"
        BY <1>2, <2>1
      <3>3. QED BY <2>1, <3>1, <3>2 DEF QueueInv
    <2>7. QED BY <1>1, <2>1, <2>3, <2>5, <2>6 DEF QueueInv
  <1>5. ASSUME NEW i \in Ids, Work(i) PROVE QueueInv'
    <2>1. cpURLsCh' = cpURLsCh /\ totalObjects' = totalObjects /\ task[i] # "new"
      BY <1>5 DEF Work, Copy, Add, Send, ReceiveStatus, lister
    <2>2. \A j \in Ids : j # i => task'[j] = task[j] /\ outcome'[j] = outcome[j]
      BY <1>2, <1>5 DEF Work, Copy, Add, Send, ReceiveStatus
    <2>3. task'[i] # "new"
      BY <1>2, <1>5 DEF Work, Copy, Add, Send, ReceiveStatus
    <2>4. QED BY <1>1, <2>1, <2>2, <2>3 DEF QueueInv, QueuedUpTo
  <1>6. CASE \/ Stop \/ Finish \/ Interrupt \/ CloseManager \/ WaitForRemover
             \/ RemoveSource \/ RemoverEnds \/ UNCHANGED copyVars
    <2>1. UNCHANGED <<cpURLsCh, totalObjects, task, outcome>>
      BY <1>6 DEF Stop, Finish, Interrupt, LoopEnds, CloseManager,
                  WaitForRemover, RemoveSource, RemoverEnds, copyVars, lister
    <2>2. QED BY <1>1, <2>1 DEF QueueInv, QueuedUpTo
  <1>7. QED BY <1>3, <1>4, <1>5, <1>6 DEF CopyNext

\* Where the source of an item that was copied is: with its worker, with the
\* remover or nowhere, as long as no removal has failed.
SourceInv ==
  session.isMv /\ ~removeErr /\ ~mapLocked =>
    \A i \in Ids : outcome[i] = "ok" =>
      \/ task[i] \in {"add", "send"}
      \/ StillToCopy(items[i].src)
      \/ items[i].src \notin DOMAIN files

\* The remover ends behind the last source, and mv behind the remover.
RemoverInv ==
  /\ contentCh \in Seq(Srcs)
  /\ ~manager => contentCh = <<>> /\ remover = "on"
  /\ \A i \in Ids : task[i] = "send" => manager
  /\ remover = "ended" => removeErr \/ (contentCh = <<>> /\ contentClosed)
  /\ main = "exited" /\ session.isMv /\ manager => remover = "ended"

MoveInv == RealInv /\ QueueInv /\ Apart(items) /\ SourceInv /\ RemoverInv

MoveFrame == session' = session /\ items' = items /\ Ids' = Ids /\ Srcs' = Srcs

LEMMA SameMove == ASSUME [CopyNext]_copyVars PROVE MoveFrame
  <1>1. session' = session /\ items' = items
    BY DEF CopyNext, copyVars, List, Queue, Stop, Work, Copy, Add, Send,
           ReceiveStatus, Finish, Interrupt, LoopEnds, CloseManager,
           WaitForRemover, RemoveSource, RemoverEnds
  <1>2. QED BY <1>1 DEF MoveFrame, Ids, Srcs

\* The copy writes no path that is a source: those that are gone stay gone.
LEMMA CopyMoves ==
  ASSUME CopyIInv, MoveInv, MoveFrame, NEW i \in Ids, Copy(i)
  PROVE  SourceInv' /\ RemoverInv'
  <1>1. /\ task \in [Ids -> TaskPlaces] /\ outcome \in [Ids -> CopyOutcomes]
        /\ task[i] = "copy"
        /\ UNCHANGED <<removal, main, quit>>
        /\ \A j \in Ids : j # i => task'[j] = task[j] /\ outcome'[j] = outcome[j]
    BY DEF Copy, CopyIInv, CopyTypes
  <1>2. /\ DOMAIN files' \subseteq DOMAIN files \cup {items[i].dst}
        /\ outcome'[i] = "ok" /\ session.isMv => task'[i] = "add"
        /\ task'[i] \in {"add", "result"}
    BY <1>1 DEF Copy
  <1>3. ASSUME NEW j \in Ids, j # i, outcome[j] = "ok"
        PROVE  items[j].src # items[i].dst
    <2>1. task[j] # "new"
      BY <1>3 DEF MoveInv, QueueInv
    <2>2. QED BY <1>1, <2>1 DEF MoveInv, RealInv, Apart, Real, Ids
  <1>4. SourceInv'
    BY <1>1, <1>2, <1>3 DEF MoveFrame, MoveInv, SourceInv, StillToCopy, removal
  <1>5. RemoverInv'
    BY <1>1, <1>2 DEF MoveFrame, MoveInv, RemoverInv, removal
  <1>6. QED BY <1>4, <1>5

LEMMA AddMoves ==
  ASSUME CopyIInv, MoveInv, MoveFrame, NEW i \in Ids, Add(i)
  PROVE  SourceInv' /\ RemoverInv'
  <1>1. /\ task \in [Ids -> TaskPlaces] /\ task[i] = "add"
        /\ UNCHANGED <<files, outcome, contentCh, contentClosed, remover,
                       removeErr, main>>
        /\ \A j \in Ids : j # i => task'[j] = task[j]
    BY DEF Add, CopyIInv, CopyTypes
  <1>2. \/ task'[i] = "send" /\ manager' = TRUE /\ mapLocked' = mapLocked
        \/ task'[i] = "result" /\ manager' = manager /\ mapLocked' = TRUE
    BY <1>1 DEF Add
  <1>3. SourceInv'
    BY <1>1, <1>2 DEF MoveFrame, MoveInv, SourceInv, StillToCopy
  <1>4. main # "exited"
    BY DEF Add, Alive
  <1>5. RemoverInv'
    BY <1>1, <1>2, <1>4 DEF MoveFrame, MoveInv, RemoverInv
  <1>6. QED BY <1>3, <1>5

LEMMA SendMoves ==
  ASSUME CopyIInv, MoveInv, MoveFrame, NEW i \in Ids, Send(i)
  PROVE  SourceInv' /\ RemoverInv'
  <1>1. /\ task \in [Ids -> TaskPlaces] /\ task[i] = "send"
        /\ UNCHANGED <<files, outcome, contentClosed, remover, removeErr,
                       mapLocked, manager, main>>
        /\ \A j \in Ids : j # i => task'[j] = task[j]
        /\ contentCh \in Seq(Srcs) /\ items[i].src \in Srcs
    BY DEF Send, CopyIInv, CopyTypes, MoveInv, RemoverInv, Srcs
  <1>2. CASE contentClosed
    <2>1. UNCHANGED <<contentCh, task>>
      BY <1>2 DEF Send
    <2>2. QED
      BY <1>1, <2>1 DEF MoveFrame, MoveInv, SourceInv, RemoverInv, StillToCopy
  <1>3. CASE ~contentClosed
    <2> DEFINE r == Append(contentCh, items[i].src)
    <2>1. contentCh' = r /\ task'[i] = "result" /\ main # "exited"
      BY <1>1, <1>3 DEF Send, Alive
    <2>2. /\ r \in Seq(Srcs)
          /\ \E n \in DOMAIN r : r[n] = items[i].src
          /\ \A y : StillToCopy(y) => \E n \in DOMAIN r : r[n] = y
      BY <1>1, Appended DEF StillToCopy
    <2> HIDE DEF r
    <2>3. StillToCopy(items[i].src)' /\ \A y : StillToCopy(y) => StillToCopy(y)'
      BY <2>1, <2>2 DEF StillToCopy, MoveFrame
    <2>4. SourceInv'
      BY <1>1, <2>1, <2>3 DEF MoveFrame, MoveInv, SourceInv
    <2>5. manager /\ (remover = "ended" => removeErr)
      BY <1>1, <1>3 DEF MoveInv, RemoverInv
    <2>6. RemoverInv'
      BY <1>1, <2>1, <2>2, <2>5 DEF MoveFrame, MoveInv, RemoverInv
    <2>7. QED BY <2>4, <2>6
  <1>4. QED BY <1>2, <1>3 DEF Send

LEMMA RemoveMoves ==
  ASSUME CopyIInv, MoveInv, MoveFrame, RemoveSource
  PROVE  SourceInv' /\ RemoverInv'
  <1>1. /\ contentCh \in Seq(Srcs) /\ contentCh # <<>> /\ manager
        /\ UNCHANGED <<session, items, task, outcome, mapLocked, manager,
                       contentClosed, main>>
        /\ contentCh' = Tail(contentCh) /\ main # "exited"
        /\ \/ /\ files' = [p \in DOMAIN files \ {Head(contentCh)} |-> files[p]]
              /\ UNCHANGED <<remover, removeErr>>
           \/ removeErr'
    BY DEF RemoveSource, MoveInv, RemoverInv, Alive
  <1>2. /\ Tail(contentCh) \in Seq(Srcs)
        /\ \A y : StillToCopy(y) => y = Head(contentCh) \/ StillToCopy(y)'
    BY <1>1, Taken DEF StillToCopy
  <1>3. SourceInv'
    <2>1. CASE removeErr'
      BY <2>1 DEF SourceInv
    <2>2. CASE UNCHANGED removeErr /\ DOMAIN files' = DOMAIN files \ {Head(contentCh)}
      BY <1>1, <1>2, <2>2 DEF MoveFrame, MoveInv, SourceInv
    <2>3. QED BY <1>1, <2>1, <2>2
  <1>4. RemoverInv'
    BY <1>1, <1>2 DEF MoveFrame, MoveInv, RemoverInv, RemoveSource
  <1>5. QED BY <1>3, <1>4

LEMMA OthersMove ==
  ASSUME CopyIInv, MoveInv, MoveFrame,
         \/ List \/ Queue \/ Stop \/ Finish \/ Interrupt \/ CloseManager
         \/ WaitForRemover \/ RemoverEnds \/ UNCHANGED copyVars
         \/ \E i \in Ids : ReceiveStatus(i)
  PROVE  SourceInv' /\ RemoverInv'
  <1>1. UNCHANGED <<files, outcome, contentCh, mapLocked, manager>>
    BY DEF List, Queue, Stop, Finish, Interrupt, LoopEnds, CloseManager,
           WaitForRemover, RemoverEnds, ReceiveStatus, copyVars, removal
  <1>2. removeErr => removeErr'
    BY DEF List, Queue, Stop, Finish, Interrupt, LoopEnds, CloseManager,
           WaitForRemover, RemoverEnds, ReceiveStatus, copyVars, removal
  <1>3. ASSUME NEW i \in Ids
        PROVE  /\ task[i] \in {"add", "send"} => task'[i] = task[i]
               /\ task'[i] = "send" => task[i] = "send"
    <2>1. CASE Queue
      <3> DEFINE q == cpURLsCh
      <3>1. /\ q # <<>> /\ q \in Seq(Nat)
            /\ task \in [Ids -> TaskPlaces]
            /\ task' = [task EXCEPT ![Head(q)] = "copy"]
        BY <2>1 DEF Queue, CopyIInv, CopyTypes
      <3>2. q[1] = Head(q) /\ 1 \in DOMAIN q
        BY <3>1
      <3>3. totalObjects \in Nat /\ Len(q) \in Nat \ {0} /\ Head(q) = QueuedUpTo + 1
        BY <3>1, <3>2 DEF CopyIInv, CopyTypes, MoveInv, QueueInv
      <3>4. i = Head(q) => task[i] = "new"
        BY <3>3 DEF MoveInv, QueueInv, QueuedUpTo
      <3>5. QED BY <3>1, <3>4
    <2>2. CASE \E j \in Ids : ReceiveStatus(j)
      BY <2>2 DEF ReceiveStatus, CopyIInv, CopyTypes
    <2>3. QED
      BY <2>1, <2>2
      DEF List, Stop, Finish, Interrupt, LoopEnds, CloseManager,
          WaitForRemover, RemoverEnds, copyVars
  <1>4. SourceInv'
    BY <1>1, <1>2, <1>3 DEF MoveFrame, MoveInv, SourceInv, StillToCopy
  <1>5. RemoverInv'
    <2>1. CASE RemoverEnds
      BY <1>1, <1>3, <2>1
      DEF RemoverEnds, MoveFrame, MoveInv, RemoverInv, Alive
    <2>2. CASE CloseManager
      BY <1>1, <1>3, <2>2
      DEF CloseManager, MoveFrame, MoveInv, RemoverInv, CopyIInv, EndInv
    <2>3. CASE WaitForRemover \/ Finish \/ Interrupt
      BY <1>1, <1>3, <2>3
      DEF WaitForRemover, Finish, Interrupt, LoopEnds, MoveFrame, MoveInv,
          RemoverInv, removal
    <2>4. CASE List \/ Queue \/ Stop \/ UNCHANGED copyVars
               \/ \E i \in Ids : ReceiveStatus(i)
      <3>1. UNCHANGED <<contentClosed, remover, removeErr, main>>
        BY <2>4 DEF List, Queue, Stop, copyVars, ReceiveStatus, removal
      <3>2. QED BY <1>1, <1>3, <3>1 DEF MoveFrame, MoveInv, RemoverInv
    <2>5. QED BY <2>1, <2>2, <2>3, <2>4
  <1>6. QED BY <1>4, <1>5

LEMMA MoveStep == CopyIInv /\ MoveInv /\ [CopyNext]_copyVars => MoveInv'
  <1> SUFFICES ASSUME CopyIInv, MoveInv, [CopyNext]_copyVars PROVE MoveInv'
    OBVIOUS
  <1>1. MoveFrame
    BY SameMove
  <1>2. RealInv' /\ QueueInv' /\ Apart(items)'
    BY <1>1, RealStep, QueueInvStep DEF MoveFrame, MoveInv, Apart
  <1>3. SourceInv' /\ RemoverInv'
    BY <1>1, CopyMoves, AddMoves, SendMoves, RemoveMoves, OthersMove
    DEF CopyNext, Work
  <1>4. QED BY <1>2, <1>3 DEF MoveInv

TargetsApart == \A s \in Sessions : Apart(PrepareCopyURLs(s.tree, s.args))

LEMMA MoveInitial == ASSUME TargetsApart, CopyInit PROVE MoveInv
  <1>1. PICK s \in Sessions : CopyStart(s)
    BY DEF CopyInit
  <1>2. Apart(items)
    BY <1>1 DEF CopyStart, TargetsApart
  <1>3. RealInv /\ QueueInv /\ SourceInv /\ RemoverInv
    BY <1>1 DEF CopyStart, RealInv, InChannel, QueueInv, SourceInv, RemoverInv
  <1>4. QED BY <1>2, <1>3 DEF MoveInv

\* mv whose targets are apart from its sources and that ends by itself has
\* removed the source of each item it copied, unless the removal reported an
\* error, however the workers, the remover and the end of the session follow
\* each other: MovedMeansRemoved.
THEOREM MovedIsRemoved == ASSUME TargetsApart PROVE CopySpec => []MovedMeansRemoved
  <1>1. ASSUME CopyIInv, MoveInv, main = "exited", ~quit, session.isMv,
               ~removeErr, ~mapLocked, NEW i \in Ids, outcome[i] = "ok"
        PROVE  items[i].src \notin DOMAIN files
    <2>1. task[i] \notin {"add", "send"}
      BY <1>1 DEF CopyIInv, EndInv, Busy
    <2>2. contentCh = <<>>
      BY <1>1 DEF MoveInv, RemoverInv
    <2>3. QED BY <1>1, <2>1, <2>2 DEF MoveInv, SourceInv, StillToCopy
  <1>2. CopyIInv /\ MoveInv => MovedMeansRemoved
    BY <1>1 DEF MovedMeansRemoved
  <1>3. CopyInit => MoveInv
    BY MoveInitial
  <1>4. QED BY <1>2, <1>3, MoveStep, CopyInvariant, PTL DEF CopySpec

-----------------------------------------------------------------------------
(***************************************************************************)
(* cp and mv, when each item has besides a target of its own that is no    *)
(* file yet.                                                               *)
(***************************************************************************)
IsFile(tree, p) == p \in DOMAIN tree /\ tree[p] = "file"

Fresh(all, tree) ==
  \A i \in DOMAIN all : all[i] # Refused =>
    /\ ~IsFile(tree, all[i].dst)
    /\ \A j \in DOMAIN all : all[j] # Refused /\ all[i].dst = all[j].dst => i = j

Copied(i) == outcome[i] = "ok"
IsTarget(p) == \E i \in Ids : Real(i) /\ items[i].dst = p

\* The files that were there keep their content, and their copies have it.
ContentInv ==
  /\ \A p \in DOMAIN files : IsFile(session.tree, p) \/ IsTarget(p)
  /\ \A p \in DOMAIN files : IsFile(session.tree, p) => files[p] = p
  /\ \A i \in Ids : Copied(i) =>
       items[i].dst \in DOMAIN files /\ files[items[i].dst] = items[i].src

\* Only a source that was copied is, or will be, removed.
RemovalInv ==
  /\ \A i \in Ids : task[i] = "copy" => outcome[i] = "none"
  /\ \A p : StillToCopy(p) => \E i \in Ids : Copied(i) /\ items[i].src = p
  /\ \A p : IsFile(session.tree, p) =>
       p \in DOMAIN files \/ \E i \in Ids : Copied(i) /\ items[i].src = p

KeepInv == Fresh(items, session.tree) /\ ContentInv /\ RemovalInv

LEMMA CopyKeeps ==
  ASSUME CopyIInv, MoveInv, KeepInv, MoveFrame, NEW i \in Ids, Copy(i)
  PROVE  ContentInv' /\ RemovalInv'
  <1>1. /\ task \in [Ids -> TaskPlaces] /\ outcome \in [Ids -> CopyOutcomes]
        /\ task[i] = "copy" /\ outcome[i] = "none" /\ contentCh' = contentCh
        /\ \A j \in Ids : j # i => task'[j] = task[j] /\ outcome'[j] = outcome[j]
        /\ task'[i] \in {"add", "result"}
    BY DEF Copy, CopyIInv, CopyTypes, KeepInv, RemovalInv, removal
  <1>2. \A j \in Ids : Copied(j) => Copied(j)' /\ j # i
    BY <1>1 DEF Copied
  <1>3. Real(i) /\ \A j \in Ids : Copied(j) => Real(j)
    BY <1>1 DEF MoveInv, RealInv, QueueInv, Copied
  <1>4. DOMAIN items = Ids
    BY DEF Ids
  <1>5. CASE UNCHANGED files /\ outcome'[i] # "ok"
    <2>1. \A j \in Ids : Copied(j)' <=> Copied(j)
      BY <1>1, <1>2, <1>5 DEF Copied
    <2>2. ContentInv'
      BY <1>5, <2>1 DEF MoveFrame, KeepInv, ContentInv, IsTarget, Real
    <2>3. RemovalInv'
      BY <1>1, <1>5, <2>1 DEF MoveFrame, KeepInv, RemovalInv, StillToCopy
    <2>4. QED BY <2>2, <2>3
  <1>6. CASE /\ items[i].src \in DOMAIN files
             /\ files' = [p \in DOMAIN files \cup {items[i].dst} |->
                            IF p = items[i].dst THEN files[items[i].src] ELSE files[p]]
             /\ outcome' = [outcome EXCEPT ![i] = "ok"]
    <2>1. files[items[i].src] = items[i].src
      <3>1. \A j \in Ids : Real(j) => items[j].dst # items[i].src
        BY <1>3, <1>4 DEF MoveInv, Apart, Real
      <3>2. QED BY <1>6, <3>1 DEF KeepInv, ContentInv, IsTarget
    <2>2. /\ ~IsFile(session.tree, items[i].dst)
          /\ \A j \in Ids : Copied(j) => items[j].dst # items[i].dst
      BY <1>2, <1>3, <1>4 DEF KeepInv, Fresh, Real
    <2>3. /\ DOMAIN files' = DOMAIN files \cup {items[i].dst}
          /\ files'[items[i].dst] = items[i].src
          /\ \A p \in DOMAIN files : p # items[i].dst => files'[p] = files[p]
      BY <1>6, <2>1
    <2>4. \A j \in Ids : Copied(j)' <=> Copied(j) \/ j = i
      BY <1>1, <1>2, <1>6 DEF Copied
    <2>5. ContentInv'
      <3>1. \A p \in DOMAIN files' : IsFile(session.tree, p) \/ IsTarget(p)
        BY <1>3, <2>3 DEF KeepInv, ContentInv, IsTarget
      <3>2. \A p \in DOMAIN files' : IsFile(session.tree, p) => files'[p] = p
        BY <2>2, <2>3 DEF KeepInv, ContentInv
      <3>3. ASSUME NEW j \in Ids, Copied(j)'
            PROVE items[j].dst \in DOMAIN files' /\ files'[items[j].dst] = items[j].src
        BY <2>2, <2>3, <2>4, <3>3 DEF KeepInv, ContentInv
      <3>4. QED
        BY <3>1, <3>2, <3>3 DEF ContentInv, MoveFrame, IsTarget, Real
    <2>6. RemovalInv'
      BY <1>1, <2>3, <2>4 DEF MoveFrame, KeepInv, RemovalInv, StillToCopy
    <2>7. QED BY <2>5, <2>6
  <1>7. outcome'[i] # "ok" \/ outcome' = [outcome EXCEPT ![i] = "ok"]
    BY <1>1 DEF Copy
  <1>8. QED BY <1>1, <1>5, <1>6 DEF Copy

\* No step of another kind changes outcome or adds a file.
LEMMA OthersKeep ==
  ASSUME CopyIInv, MoveInv, KeepInv, MoveFrame, outcome' = outcome,
         files' = files, \A p : StillToCopy(p)' => StillToCopy(p),
         \A i \in Ids : task'[i] = "copy" => task[i] = "copy" \/ outcome[i] = "none"
  PROVE  ContentInv' /\ RemovalInv'
  <1>1. \A j \in Ids : Copied(j)' <=> Copied(j)
    BY DEF Copied
  <1>2. ContentInv'
    BY <1>1 DEF MoveFrame, KeepInv, ContentInv, IsTarget, Real
  <1>3. RemovalInv'
    BY <1>1 DEF MoveFrame, KeepInv, RemovalInv
  <1>4. QED BY <1>2, <1>3

LEMMA RemoveKeeps ==
  ASSUME CopyIInv, MoveInv, KeepInv, MoveFrame, RemoveSource
  PROVE  ContentInv' /\ RemovalInv'
  <1>1. /\ contentCh \in Seq(Srcs) /\ contentCh # <<>>
        /\ UNCHANGED <<task, outcome>> /\ contentCh' = Tail(contentCh)
        /\ \/ files' = [p \in DOMAIN files \ {Head(contentCh)} |-> files[p]]
           \/ files' = files
    BY DEF RemoveSource, MoveInv, RemoverInv
  <1>2. StillToCopy(Head(contentCh)) /\ \A p : StillToCopy(p)' => StillToCopy(p)
    BY <1>1, Taken DEF StillToCopy
  <1>3. CASE files' = files
    BY <1>1, <1>2, <1>3, OthersKeep
  <1>4. CASE files' = [p \in DOMAIN files \ {Head(contentCh)} |-> files[p]]
    <2>1. /\ DOMAIN files' = DOMAIN files \ {Head(contentCh)}
          /\ \A p \in DOMAIN files' : files'[p] = files[p]
      BY <1>4
    <2>2. PICK k \in Ids : Copied(k) /\ items[k].src = Head(contentCh)
      BY <1>2 DEF KeepInv, RemovalInv
    <2>3. \A j \in Ids : Copied(j) => items[j].dst # Head(contentCh)
      <3>1. \A j \in Ids : Copied(j) => Real(j)
        BY DEF MoveInv, RealInv, QueueInv, Copied
      <3>2. QED BY <2>2, <3>1 DEF MoveInv, Apart, Real, Ids
    <2>4. \A j \in Ids : Copied(j)' <=> Copied(j)
      BY <1>1 DEF Copied
    <2>5. ContentInv'
      BY <2>1, <2>3, <2>4 DEF MoveFrame, KeepInv, ContentInv, IsTarget, Real
    <2>6. RemovalInv'
      BY <1>1, <1>2, <2>1, <2>2, <2>4 DEF MoveFrame, KeepInv, RemovalInv
    <2>7. QED BY <2>5, <2>6
  <1>5. QED BY <1>1, <1>3, <1>4

LEMMA KeepStep ==
  CopyIInv /\ MoveInv /\ KeepInv /\ [CopyNext]_copyVars => KeepInv'
  <1> SUFFICES ASSUME CopyIInv, MoveInv, KeepInv, [CopyNext]_copyVars
               PROVE  KeepInv'
    OBVIOUS
  <1>1. MoveFrame
    BY SameMove
  <1>2. Fresh(items, session.tree)'
    BY <1>1 DEF MoveFrame, KeepInv, Fresh, IsFile
  <1>3. CASE Queue
    <2>1. InChannel(Head(cpURLsCh))
      <3> DEFINE q == cpURLsCh
      <3>1. q # <<>> /\ q \in Seq(Nat)
        BY <1>3 DEF Queue, CopyIInv, CopyTypes
      <3>2. q[1] = Head(q) /\ 1 \in DOMAIN q
        BY <3>1
      <3>3. QED BY <3>2 DEF InChannel
    <2>2. PICK n \in DOMAIN cpURLsCh : cpURLsCh[n] = Head(cpURLsCh)
      BY <2>1 DEF InChannel
    <2>3. Head(cpURLsCh) > QueuedUpTo
      <3>1. n \in Nat \ {0} /\ QueuedUpTo \in Int
        BY <2>2 DEF CopyIInv, CopyTypes, QueuedUpTo
      <3>2. QED BY <2>2, <3>1 DEF MoveInv, QueueInv
    <2>4. ASSUME NEW i \in Ids, task'[i] = "copy"
          PROVE  task[i] = "copy" \/ outcome[i] = "none"
      <3>1. i # Head(cpURLsCh) => task'[i] = task[i]
        BY <1>3 DEF Queue, CopyIInv, CopyTypes
      <3>2. i = Head(cpURLsCh) => outcome[i] = "none"
        BY <2>3 DEF MoveInv, QueueInv
      <3>3. QED BY <2>4, <3>1, <3>2
    <2>5. outcome' = outcome /\ files' = files /\ contentCh' = contentCh
      BY <1>3 DEF Queue, removal
    <2>6. QED BY <1>1, <1>2, <2>4, <2>5, OthersKeep DEF KeepInv, StillToCopy
  <1>4. ASSUME NEW i \in Ids, Copy(i) PROVE KeepInv'
    BY <1>1, <1>2, <1>4, CopyKeeps DEF KeepInv
  <1>5. CASE RemoveSource
    BY <1>1, <1>2, <1>5, RemoveKeeps DEF KeepInv
  <1>6. ASSUME NEW i \in Ids, Send(i) PROVE KeepInv'
    <2>1. /\ task \in [Ids -> TaskPlaces] /\ task[i] = "send"
          /\ \A j \in Ids : task'[j] = "copy" => task[j] = "copy"
          /\ outcome' = outcome /\ files' = files
          /\ contentCh \in Seq(Srcs) /\ items[i].src \in Srcs
      BY <1>6 DEF Send, CopyIInv, CopyTypes, MoveInv, RemoverInv, Srcs
    <2>2. Copied(i)
      BY <2>1 DEF CopyIInv, OutcomeInv, Copied
    <2>3. CASE contentCh' = contentCh
      BY <1>1, <1>2, <2>1, <2>3, OthersKeep DEF KeepInv, StillToCopy
    <2>4. CASE contentCh' = Append(contentCh, items[i].src)
      <3> DEFINE r == Append(contentCh, items[i].src)
      <3>1. ASSUME NEW n \in DOMAIN r PROVE r[n] = items[i].src \/ StillToCopy(r[n])
        BY <2>1, AppendedOnly DEF StillToCopy
      <3>2. contentCh' = r
        BY <2>4
      <3> HIDE DEF r
      <3>3. \A p : StillToCopy(p)' => p = items[i].src \/ StillToCopy(p)
        BY <3>1, <3>2 DEF StillToCopy
      <3>4. \A j \in Ids : Copied(j)' <=> Copied(j)
        BY <2>1 DEF Copied
      <3>5. ContentInv'
        BY <1>1, <2>1, <3>4 DEF MoveFrame, KeepInv, ContentInv, IsTarget, Real
      <3>6. RemovalInv'
        BY <1>1, <2>1, <2>2, <3>3, <3>4 DEF MoveFrame, KeepInv, RemovalInv
      <3>7. QED BY <1>2, <3>5, <3>6 DEF KeepInv
    <2>5. QED BY <1>6, <2>3, <2>4 DEF Send
  <1>7. ASSUME NEW i \in Ids, Add(i) \/ ReceiveStatus(i) PROVE KeepInv'
    <2>1. /\ outcome' = outcome /\ files' = files /\ contentCh' = contentCh
          /\ \A j \in Ids : task'[j] = "copy" => task[j] = "copy"
      BY <1>7 DEF Add, ReceiveStatus, CopyIInv, CopyTypes, removal
    <2>2. QED BY <1>1, <1>2, <2>1, OthersKeep DEF KeepInv, StillToCopy
  <1>8. CASE \/ List \/ Stop \/ Finish \/ Interrupt \/ CloseManager
             \/ WaitForRemover \/ RemoverEnds \/ UNCHANGED copyVars
    <2>1. UNCHANGED <<outcome, files, contentCh, task>>
      BY <1>8 DEF List, Stop, Finish, Interrupt, LoopEnds, CloseManager,
                  WaitForRemover, RemoverEnds, copyVars, removal
    <2>2. QED BY <1>1, <1>2, <2>1, OthersKeep DEF KeepInv, StillToCopy
  <1>9. QED BY <1>3, <1>4, <1>5, <1>6, <1>7, <1>8 DEF CopyNext, Work

TargetsNew ==
  TargetsApart /\ \A s \in Sessions : Fresh(PrepareCopyURLs(s.tree, s.args), s.tree)

LEMMA KeepInitial == ASSUME TargetsNew, CopyInit PROVE KeepInv
  <1>1. PICK s \in Sessions : CopyStart(s)
    BY DEF CopyInit
  <1>2. Fresh(items, session.tree)
    BY <1>1 DEF CopyStart, TargetsNew
  <1>3. ContentInv
    BY <1>1 DEF CopyStart, ContentInv, IsFile, Copied
  <1>4. RemovalInv
    BY <1>1 DEF CopyStart, RemovalInv, IsFile, StillToCopy
  <1>5. QED BY <1>2, <1>3, <1>4 DEF KeepInv

\* cp and mv whose targets are new, and apart from the sources, lose no content,
\* whatever fails, is interrupted or overtakes what: NothingLost.
THEOREM NothingIsLost == ASSUME TargetsNew PROVE CopySpec => []NothingLost
  <1>1. ASSUME CopyIInv, KeepInv, NEW p \in DOMAIN session.tree,
               session.tree[p] = "file"
        PROVE  \E q \in DOMAIN files : files[q] = p
    <2>1. CASE p \in DOMAIN files
      BY <1>1, <2>1 DEF KeepInv, ContentInv, IsFile
    <2>2. CASE \E i \in Ids : Copied(i) /\ items[i].src = p
      BY <1>1, <2>2 DEF KeepInv, ContentInv
    <2>3. QED BY <1>1, <2>1, <2>2 DEF KeepInv, RemovalInv, IsFile
  <1>2. CopyIInv /\ KeepInv => NothingLost
    BY <1>1 DEF NothingLost
  <1>3. CopyInit => MoveInv /\ KeepInv
    BY MoveInitial, KeepInitial DEF TargetsNew
  <1>4. QED BY <1>2, <1>3, MoveStep, KeepStep, CopyInvariant, PTL DEF CopySpec

\* The bounds of a session: the items are no more than there are, no more
\* workers than MaxWorkers are busy, and contentCh holds no more than its
\* capacity.
CopyPlaces ==
  /\ session \in Sessions
  /\ nextItem <= Len(items) + 1 /\ totalObjects <= Len(items)
  /\ \A n \in DOMAIN cpURLsCh : cpURLsCh[n] \in Ids
  /\ remover \in {"on", "ended"} /\ main \in {"loop", "close", "wait", "exited"}
CopyFlags ==
  mapLocked \in BOOLEAN /\ manager \in BOOLEAN /\ contentClosed \in BOOLEAN
  /\ removeErr \in BOOLEAN
CopyChannel == contentCh \in Seq(Srcs) /\ Len(contentCh) <= RemoveCap
CopyBounds ==
  /\ CopyPlaces /\ CopyFlags /\ CopyChannel /\ Cardinality(Busy) <= MaxWorkers

\* A set of busy workers is finite, and no larger when nobody gets busy.
LEMMA BusyWorkers ==
  ASSUME CopyTypes, items' = items
  PROVE  /\ IsFiniteSet(Busy) /\ Cardinality(Busy) \in Nat
         /\ Busy' \subseteq Busy => Cardinality(Busy') <= Cardinality(Busy)
                                    /\ Cardinality(Busy') \in Nat
PROOF
<1>0. Len(items) \in Int /\ 1 \in Int /\ Ids = 1..Len(items)
  BY DEF CopyTypes
<1>1. IsFiniteSet(1..Len(items))
  BY <1>0, FS_Interval
<1>4. Busy \subseteq 1..Len(items)
  BY <1>0 DEF Busy
<1>2. IsFiniteSet(Busy)
  BY <1>1, <1>4, FS_Subset
<1>3. Busy' \subseteq Busy => IsFiniteSet(Busy') /\ Cardinality(Busy') <= Cardinality(Busy)
  BY <1>2, FS_Subset
<1> QED
  BY <1>2, <1>3, FS_CardinalityType

\* A step after which nobody is busy who was not.
LEMMA BoundsStay ==
  ASSUME CopyIInv, CopyBounds, UNCHANGED <<session, items>>, CopyPlaces', CopyFlags', CopyChannel',
         Busy' \subseteq Busy
  PROVE  CopyBounds'
PROOF
<1>1. Cardinality(Busy') <= Cardinality(Busy) /\ Cardinality(Busy) \in Nat /\ Cardinality(Busy') \in Nat
  BY BusyWorkers DEF CopyIInv
<1>2. Cardinality(Busy') = Cardinality(Busy)'
  OBVIOUS
<1>3. Cardinality(Busy) <= MaxWorkers /\ MaxWorkers \in Nat
  BY CopyAssumption DEF CopyBounds
<1>4. Cardinality(Busy)' <= MaxWorkers
  BY <1>1, <1>2, <1>3
<1> QED
  BY <1>4 DEF CopyBounds

\* What a worker does with its item leaves it busy, or ends it.
LEMMA BusyStays ==
  ASSUME CopyTypes, items' = items, NEW i \in Ids, task[i] \in {"copy", "add", "send", "result"},
         NEW where \in TaskPlaces, task' = [task EXCEPT ![i] = where]
  PROVE  Busy' \subseteq Busy
PROOF
<1>1. Ids' = Ids /\ \A j \in Ids : j # i => task'[j] = task[j]
  BY DEF CopyTypes, Ids
<1> QED
  BY <1>1 DEF Busy

\* The lister and the queuer.
LEMMA BoundsOfList ==
  ASSUME CopyIInv, CopyBounds, List \/ Queue
  PROVE  CopyBounds'
PROOF
<1>0. CopyTypes /\ Ids' = Ids /\ items' = items /\ Srcs' = Srcs
  BY DEF CopyIInv, List, Queue, Ids, Srcs
<1>1. CASE List
  <2>1. CopyFlags' /\ CopyChannel'
    BY <1>0, <1>1 DEF CopyBounds, CopyFlags, CopyChannel, List, removal
  <2>2. nextItem \in Ids /\ nextItem' <= Len(items) + 1 /\ totalObjects' <= Len(items)
    BY <1>0, <1>1 DEF CopyIInv, CopyTypes, ListerInv, List, CopyBounds, CopyPlaces
  <2>3. ASSUME NEW n \in DOMAIN cpURLsCh' PROVE cpURLsCh'[n] \in Ids
    <3>1. CASE UNCHANGED cpURLsCh
      BY <2>3, <3>1 DEF CopyBounds, CopyPlaces
    <3>2. CASE cpURLsCh' = Append(cpURLsCh, nextItem)
      <4>1. n \in DOMAIN Append(cpURLsCh, nextItem)
        BY <2>3, <3>2
      <4>2. cpURLsCh \in Seq(Nat) /\ nextItem \in Nat
        BY <1>0 DEF CopyTypes
      <4>3. \/ Append(cpURLsCh, nextItem)[n] = nextItem
            \/ \E m \in DOMAIN cpURLsCh : cpURLsCh[m] = Append(cpURLsCh, nextItem)[n]
        BY <4>1, <4>2, AppendedOnly
      <4> QED
        BY <4>3, <3>2, <2>2 DEF CopyBounds, CopyPlaces
    <3> QED
      BY <1>1, <3>1, <3>2 DEF List
  <2>4. CopyPlaces'
    BY <1>0, <1>1, <2>2, <2>3 DEF CopyBounds, CopyPlaces, List, removal
  <2>5. Busy' \subseteq Busy
    BY <1>0, <1>1 DEF List, Busy
  <2>6. UNCHANGED <<session, items>>
    BY <1>1 DEF List
  <2> QED
    BY <2>1, <2>4, <2>5, <2>6, BoundsStay
<1>2. CASE Queue
  <2>1. CopyFlags' /\ CopyChannel'
    BY <1>0, <1>2 DEF CopyBounds, CopyFlags, CopyChannel, Queue, removal
  <2>2. cpURLsCh \in Seq(Nat) /\ cpURLsCh # <<>> /\ cpURLsCh' = Tail(cpURLsCh)
    BY <1>0, <1>2 DEF CopyTypes, Queue
  <2>3. \A n \in DOMAIN cpURLsCh' : \E m \in DOMAIN cpURLsCh : cpURLsCh[m] = cpURLsCh'[n]
    BY <2>2, Taken
  <2>4. CopyPlaces'
    BY <1>0, <1>2, <2>3 DEF CopyBounds, CopyPlaces, Queue, removal
  <2>5. /\ Busy' \subseteq Busy \cup {Head(cpURLsCh)}
        /\ Cardinality(Busy) < MaxWorkers
    <3>1. task' = [task EXCEPT ![Head(cpURLsCh)] = "copy"] /\ task \in [Ids -> TaskPlaces]
      BY <1>0, <1>2 DEF Queue, CopyTypes
    <3>2. \A j \in Ids : j # Head(cpURLsCh) => task'[j] = task[j]
      BY <3>1
    <3> QED
      BY <1>0, <1>2, <3>2 DEF Queue, Busy
  <2>6. IsFiniteSet(Busy) /\ Cardinality(Busy) \in Nat
    BY <1>0, BusyWorkers
  <2>7. /\ IsFiniteSet(Busy \cup {Head(cpURLsCh)})
        /\ Cardinality(Busy \cup {Head(cpURLsCh)}) <= Cardinality(Busy) + 1
        /\ Cardinality(Busy \cup {Head(cpURLsCh)}) \in Nat
    BY <2>6, FS_AddElement
  <2>8. /\ Cardinality(Busy') <= Cardinality(Busy \cup {Head(cpURLsCh)})
        /\ Cardinality(Busy') \in Nat
    BY <2>5, <2>7, FS_Subset, FS_CardinalityType
  <2>9. Cardinality(Busy') <= MaxWorkers
    BY <2>5, <2>6, <2>7, <2>8, CopyAssumption
  <2> QED
    BY <2>1, <2>4, <2>9 DEF CopyBounds
<1> QED
  BY <1>1, <1>2

\* The workers.
LEMMA BoundsOfWork ==
  ASSUME CopyIInv, CopyBounds, NEW i \in Ids, Work(i)
  PROVE  CopyBounds'
PROOF
<1>0. /\ CopyTypes /\ Ids' = Ids /\ UNCHANGED <<session, items>> /\ Srcs' = Srcs
      /\ task[i] \in {"copy", "add", "send", "result"}
  BY DEF CopyIInv, Work, Copy, Add, Send, ReceiveStatus, Ids, Srcs
<1>1. CopyPlaces'
  BY <1>0 DEF CopyBounds, CopyPlaces, Work, Copy, Add, Send, ReceiveStatus, lister, removal
<1>2. CopyFlags'
  BY DEF CopyBounds, CopyFlags, Work, Copy, Add, Send, ReceiveStatus, removal
<1>3. CopyChannel'
  <2>1. CASE contentCh' = contentCh
    BY <1>0, <2>1 DEF CopyBounds, CopyChannel
  <2>2. CASE Len(contentCh) < RemoveCap /\ contentCh' = Append(contentCh, items[i].src)
    <3>1. contentCh \in Seq(Srcs) /\ items[i].src \in Srcs
      BY DEF CopyBounds, CopyChannel, Srcs
    <3>2. /\ Append(contentCh, items[i].src) \in Seq(Srcs)
          /\ Len(Append(contentCh, items[i].src)) = Len(contentCh) + 1 /\ Len(contentCh) \in Nat
      BY <3>1, AppendProperties
    <3> QED
      BY <1>0, <2>2, <3>2, CopyAssumption DEF CopyChannel
  <2> QED
    BY <2>1, <2>2 DEF Work, Copy, Add, Send, ReceiveStatus, removal
<1>4. Busy' \subseteq Busy
  <2>1. \/ \E where \in TaskPlaces : task' = [task EXCEPT ![i] = where]
        \/ task' = task
    BY DEF Work, Copy, Add, Send, ReceiveStatus, TaskPlaces
  <2>2. CASE task' = task
    BY <1>0, <2>2 DEF Busy
  <2> QED
    BY <1>0, <2>1, <2>2, BusyStays
<1> QED
  BY <1>0, <1>1, <1>2, <1>3, <1>4, BoundsStay

\* The loop of doCopySession, gracefulStop and the remover.
LEMMA BoundsOfRest ==
  ASSUME CopyIInv, CopyBounds,
         \/ Stop \/ Finish \/ Interrupt \/ CloseManager \/ WaitForRemover
         \/ RemoveSource \/ RemoverEnds \/ UNCHANGED copyVars
  PROVE  CopyBounds'
PROOF
<1>0. /\ UNCHANGED <<session, items, nextItem, totalObjects, cpURLsCh, task>>
      /\ Ids' = Ids /\ Srcs' = Srcs
  BY DEF Stop, Finish, Interrupt, LoopEnds, CloseManager, WaitForRemover, RemoveSource,
         RemoverEnds, copyVars, lister, Ids, Srcs
<1>1. remover' \in {"on", "ended"} /\ main' \in {"loop", "close", "wait", "exited"}
  BY DEF CopyBounds, CopyPlaces, Stop, Finish, Interrupt, LoopEnds, CloseManager, WaitForRemover,
         RemoveSource, RemoverEnds, copyVars, removal
<1>2. CopyPlaces'
  BY <1>0, <1>1 DEF CopyBounds, CopyPlaces
<1>3. CopyFlags'
  BY DEF CopyBounds, CopyFlags, Stop, Finish, Interrupt, LoopEnds, CloseManager, WaitForRemover,
         RemoveSource, RemoverEnds, copyVars, removal
<1>4. CopyChannel'
  <2>1. CASE contentCh' = contentCh
    BY <1>0, <2>1 DEF CopyBounds, CopyChannel
  <2>2. CASE contentCh # <<>> /\ contentCh' = Tail(contentCh)
    <3>1. contentCh \in Seq(Srcs) /\ contentCh # <<>>
      BY <2>2 DEF CopyBounds, CopyChannel
    <3>2. /\ Tail(contentCh) \in Seq(Srcs)
          /\ Len(Tail(contentCh)) = Len(contentCh) - 1 /\ Len(contentCh) \in Nat
      BY <3>1, HeadTailProperties, LenProperties
    <3>3. Len(contentCh) <= RemoveCap
      BY DEF CopyBounds, CopyChannel
    <3> QED
      BY <1>0, <2>2, <3>2, <3>3, CopyAssumption DEF CopyChannel
  <2> QED
    BY <2>1, <2>2 DEF Stop, Finish, Interrupt, LoopEnds, CloseManager, WaitForRemover,
         RemoveSource, RemoverEnds, copyVars, removal
<1>5. Busy' \subseteq Busy
  BY <1>0 DEF Busy
<1> QED
  BY <1>0, <1>2, <1>3, <1>4, <1>5, BoundsStay

\* The pool of a session is never larger than MaxWorkers, and contentCh holds
\* no more than its capacity: CopyTypeOK.
THEOREM CopyTypeCorrect == CopySpec => []CopyTypeOK
PROOF
<1>1. ASSUME CopyInit PROVE CopyBounds
  <2>1. PICK s \in Sessions : CopyStart(s)
    BY <1>1 DEF CopyInit
  <2>2. CopyTypes
    BY <1>1, CopyInitial DEF CopyIInv
  <2>3. CopyPlaces
    <3>1. /\ session \in Sessions /\ nextItem = 1 /\ totalObjects = 0 /\ cpURLsCh = <<>>
          /\ remover = "on" /\ main = "loop"
      BY <2>1 DEF CopyStart
    <3> QED
      BY <2>2, <3>1 DEF CopyTypes, CopyPlaces
  <2>4. CopyFlags
    BY <2>1 DEF CopyStart, CopyFlags
  <2>5. CopyChannel
    BY <2>1, CopyAssumption DEF CopyStart, CopyChannel
  <2>6. Busy = {}
    BY <2>1 DEF CopyStart, Busy
  <2> QED
    BY <2>3, <2>4, <2>5, <2>6, FS_EmptySet, CopyAssumption DEF CopyBounds
<1>2. CopyInit => CopyIInv /\ CopyBounds
  BY <1>1, CopyInitial
<1>3. CopyIInv /\ CopyBounds /\ [CopyNext]_copyVars => CopyBounds'
  BY BoundsOfList, BoundsOfWork, BoundsOfRest DEF CopyNext
<1>4. ASSUME CopyIInv, CopyBounds PROVE CopyTypeOK
  <2>1. nextItem \in 1..(Len(items) + 1) /\ totalObjects \in 0..Len(items)
    BY <1>4 DEF CopyIInv, CopyTypes, CopyBounds, CopyPlaces
  <2>2. {errSeen, retErr, mapLocked, manager, contentClosed, removeErr, quit, panicked}
          \subseteq BOOLEAN
    BY <1>4 DEF CopyIInv, CopyTypes, CopyBounds, CopyFlags
  <2> QED
    BY <1>4, <2>1, <2>2 DEF CopyIInv, CopyTypes, EndInv, CopyBounds, CopyPlaces, CopyChannel,
                            CopyTypeOK, TaskPlaces, CopyOutcomes
<1> QED
  BY <1>2, <1>3, <1>4, CopyStep, PTL DEF CopySpec

-----------------------------------------------------------------------------
(***************************************************************************)
(* Removal.                                                                *)
(* The invariant follows each entry that is to be removed from the loop of *)
(* listAndRemove over the channel of contents, the batch of the client and *)
(* the one of minio-go to the channel of results.                          *)
(***************************************************************************)
Sendable == {e \in Entries : Chosen(e) /\ ~rmOpts.isFake}
Buckets == {e.bucket : e \in Entries}
Told == [of : Entries, bucket : Buckets, error : Outcomes]

LoopTypes ==
  /\ rmListing \in RmListings /\ rmOpts \in RemoveOptions
  /\ place \in Nat \ {0}
  /\ \A i \in versions : i \in DOMAIN rmListing /\ i < place /\ rmListing[i] \in Entries
  /\ \A i \in toSend : i \in DOMAIN rmListing /\ i < place /\ rmListing[i] \in Sendable
  /\ rm \in {"list", "drain", "exited"}
ClientTypes ==
  /\ client \in {"receive", "forward", "switch", "end", "closed"}
  /\ held \in Seq(Sendable) /\ result \in Seq(Told)
  /\ prevBucket \in Buckets \cup {None} /\ None \notin Buckets
ApiTypes ==
  /\ batch \in Seq(Sendable) /\ statuses \in Seq(Told)
  /\ removed \subseteq Entries /\ failures \subseteq Told
RmFlags == rmFailed \in BOOLEAN /\ objectsOpen \in BOOLEAN
RmTypes == LoopTypes /\ ClientTypes /\ ApiTypes /\ RmFlags

\* What each goroutine has done when the others find it where it is.
RmOrder ==
  /\ rmFailed => rm = "exited"
  /\ rm # "list" /\ ~rmFailed => place > Len(rmListing) /\ versions = {} /\ toSend = {}
  /\ place <= Len(rmListing) + 1 /\ Len(result) <= 1 /\ Len(batch) <= BatchSize
  /\ IF client \in {"forward", "switch"} THEN Len(held) = 1 ELSE held = <<>>
  /\ batch # <<>> \/ statuses # <<>> \/ objectsOpen => prevBucket # None
  /\ rmOpts.client = "fs" => client \notin {"switch", "end"} /\ batch = <<>> /\ statuses = <<>> /\ ~objectsOpen
  /\ rmOpts.client = "fs" /\ client = "forward" => result = <<>>
  /\ client = "closed" => batch = <<>> /\ statuses = <<>> /\ ~objectsOpen

\* No entry that is to be removed is lost between the goroutines.
Tried(e) == e \in removed \/ \E f \in failures : f.of = e
UnderWayRm(e) == (\E n \in DOMAIN held : held[n] = e) \/ (\E n \in DOMAIN batch : batch[n] = e)
NoneLost ==
  \A i \in DOMAIN rmListing : i < place /\ rmListing[i] \in Sendable =>
    \/ rmFailed \/ i \in versions \cup toSend
    \/ UnderWayRm(rmListing[i]) \/ Tried(rmListing[i])

\* The loop hears of an error that it does not pass over, and of no success
\* that was none.
ErrorsHeard ==
  \A f \in failures :
    /\ f.error # None
    /\ f.error = "other" => \/ rmFailed
                            \/ \E n \in DOMAIN statuses : statuses[n].error = "other"
                            \/ \E n \in DOMAIN result : result[n].error = "other"
NotThere(e) == rmOpts.client = "fs" /\ \E f \in failures : f.of = e /\ f.error \in Unsaid
SuccessTrue ==
  /\ \A n \in DOMAIN statuses :
       statuses[n].error = None => statuses[n].of \in removed \/ NotThere(statuses[n].of)
  /\ \A n \in DOMAIN result :
       result[n].error = None => result[n].of \in removed \/ NotThere(result[n].of)
  /\ \A p \in printed : (p.of \in removed \/ NotThere(p.of)) /\ p.bucket \in Buckets

\* What the flags leave out is removed only as a directory that had nothing left.
NotFound(e) == e \in removed \/ \E f \in failures : f.of = e /\ f.error = "gone"
Emptied(d) ==
  /\ rmOpts.client = "fs"
  /\ \E e \in removed \cap Sendable : Within(e, d)
  /\ \A e \in Entries : Within(e, d) => NotFound(e)
RemovedRight == \A e \in removed : e \in Sendable \/ Emptied(e)

PassedOver(e) ==
  \E f \in failures : f.of = e /\ f.error \in {"permission", "worm"} \cup Unsaid
AllTried ==
  rm = "exited" /\ ~rmFailed =>
    \A e \in Sendable : e \in removed \/ PassedOver(e)

RmIInv == RmTypes /\ RmOrder /\ NoneLost /\ ErrorsHeard /\ SuccessTrue /\ RemovedRight /\ AllTried

-----------------------------------------------------------------------------
\* A listing is a sequence of entries, each of a bucket.
LEMMA ListingIsSeq ==
  ASSUME rmListing \in RmListings
  PROVE  /\ DOMAIN rmListing = 1..Len(rmListing) /\ Len(rmListing) \in Nat
         /\ None \notin Buckets
<1>1. rmListing \in Seq({rmListing[i] : i \in DOMAIN rmListing})
  BY RemovalAssumption
<1>2. DOMAIN rmListing = 1..Len(rmListing) /\ Len(rmListing) \in Nat
  BY <1>1
<1>3. \A i \in DOMAIN rmListing : rmListing[i].bucket # None
  BY RemovalAssumption DEF None
<1> QED BY <1>2, <1>3 DEF Buckets, Entries

\* Before listAndRemove takes the first entry.
LEMMA RmInitial == RmInit => RmIInv
<1> SUFFICES ASSUME RmInit PROVE RmIInv
  OBVIOUS
<1>1. LoopTypes
  BY DEF RmInit, LoopTypes
<1>2. ClientTypes
  BY ListingIsSeq DEF RmInit, ClientTypes
<1>3. ApiTypes
  BY DEF RmInit, ApiTypes
<1>6. RmFlags
  BY DEF RmInit, RmFlags
<1>4. RmOrder
  <2>1. Len(rmListing) \in Nat /\ Len(<<>>) = 0 /\ BatchSize \in Nat
    BY ListingIsSeq, RemovalAssumption DEF RmInit
  <2> QED BY <2>1 DEF RmInit, RmOrder
<1>5. NoneLost /\ ErrorsHeard /\ SuccessTrue /\ RemovedRight /\ AllTried
  BY ListingIsSeq DEF RmInit, NoneLost, ErrorsHeard, SuccessTrue, RemovedRight, AllTried
<1> QED BY <1>1, <1>2, <1>3, <1>4, <1>5, <1>6 DEF RmIInv, RmTypes, LoopTypes, ClientTypes, ApiTypes

\* A channel with a place for one, when it is not empty.
LEMMA OneElement ==
  ASSUME NEW S, NEW s \in Seq(S), Len(s) <= 1, s # <<>>
  PROVE  Len(s) = 1 /\ DOMAIN s = {1} /\ s[1] \in S
<1>1. Len(s) \in Nat /\ DOMAIN s = 1..Len(s)
  OBVIOUS
<1>2. Len(s) # 0
  BY EmptySeq
<1>3. Len(s) = 1
  BY <1>1, <1>2
<1> QED BY <1>1, <1>3

\* The content that the client has in hand.
LEMMA HeldOne ==
  ASSUME RmIInv, client \in {"forward", "switch"}
  PROVE  Len(held) = 1 /\ held[1] \in Sendable /\ \A n \in DOMAIN held : n = 1
<1>1. held \in Seq(Sendable) /\ Len(held) = 1
  BY DEF RmIInv, RmTypes, ClientTypes, RmOrder
<1> QED BY <1>1

\* What a step does not touch.
LEMMA ListingStays ==
  ASSUME UNCHANGED rmCommand
  PROVE  /\ rmListing' = rmListing /\ rmOpts' = rmOpts
         /\ Entries' = Entries /\ Sendable' = Sendable /\ Buckets' = Buckets /\ Told' = Told
BY DEF rmCommand, Entries, Sendable, Buckets, Told, Chosen, Outcomes

\* What a result says of the entry that it is the result of.
LEMMA OutcomeTold ==
  ASSUME NEW e \in Sendable, NEW error \in Outcomes
  PROVE  /\ Outcome(e, error) \in Told
         /\ Outcome(e, error).of = e /\ Outcome(e, error).error = error
BY DEF Outcome, Told, Sendable, Buckets

\* A directory that had nothing left has nothing later.
LEMMA RemovedGrows ==
  ASSUME RmIInv, UNCHANGED rmCommand, removed \subseteq removed', failures \subseteq failures',
         \A e \in removed' : e \in removed \/ e \in Sendable \/ Emptied(e)'
  PROVE  RemovedRight'
<1>1. rmOpts' = rmOpts /\ Entries' = Entries /\ Sendable' = Sendable
  BY ListingStays
<1>2. ASSUME NEW d, Emptied(d) PROVE Emptied(d)'
  <2>1. \A e : NotFound(e) => NotFound(e)'
    BY DEF NotFound
  <2> QED BY <1>1, <1>2, <2>1 DEF Emptied, Within
<1>3. \A e \in removed : e \in Sendable \/ Emptied(e)
  BY DEF RmIInv, RemovedRight
<1> QED BY <1>1, <1>2, <1>3 DEF RemovedRight

\* What has gone, and what was not there, is so later.
LEMMA SuccessStays ==
  ASSUME UNCHANGED rmCommand, removed \subseteq removed', failures \subseteq failures'
  PROVE  \A e : (e \in removed => e \in removed') /\ (NotThere(e) => NotThere(e)')
BY ListingStays DEF NotThere, Unsaid

\* Nothing moves.
LEMMA RmStays == RmIInv /\ UNCHANGED removalVars => RmIInv'
<1> SUFFICES ASSUME RmIInv, UNCHANGED removalVars PROVE RmIInv'
  OBVIOUS
<1>1. /\ UNCHANGED rmCommand
      /\ UNCHANGED <<place, versions, toSend, rm, rmFailed, printed, client, held, result,
                     prevBucket, objectsOpen, batch, statuses, removed, failures>>
  BY DEF removalVars, loop, api
<1>2. LoopTypes' /\ ClientTypes' /\ ApiTypes'
  BY <1>1, ListingStays DEF RmIInv, RmTypes, LoopTypes, ClientTypes, ApiTypes
<1>3. RmFlags' /\ RmOrder'
  BY <1>1, ListingStays DEF RmIInv, RmTypes, RmFlags, RmOrder
<1>4. NoneLost' /\ ErrorsHeard' /\ SuccessTrue' /\ AllTried'
  BY <1>1, ListingStays DEF RmIInv, NoneLost, UnderWayRm, Tried, ErrorsHeard, SuccessTrue, NotThere, AllTried,
     PassedOver
<1>r. RemovedRight'
  BY <1>1, RemovedGrows
<1> QED BY <1>2, <1>3, <1>4, <1>r DEF RmIInv, RmTypes, LoopTypes, ClientTypes, ApiTypes

\* The loop takes an entry of the listing, or finds its end.
LEMMA NextEntryStep == RmIInv /\ NextEntry => RmIInv'
<1> SUFFICES ASSUME RmIInv, NextEntry PROVE RmIInv'
  OBVIOUS
<1>1. /\ UNCHANGED rmCommand
      /\ UNCHANGED <<client, held, result, prevBucket, objectsOpen, batch, statuses, removed,
                     failures, printed>>
      /\ rm = "list" /\ toSend = {} /\ place <= Len(rmListing) /\ place' = place + 1
  BY DEF NextEntry, api
<1>2. /\ rmListing' = rmListing /\ rmOpts' = rmOpts
      /\ Entries' = Entries /\ Sendable' = Sendable /\ Buckets' = Buckets /\ Told' = Told
  BY <1>1, ListingStays
<1>3. DOMAIN rmListing = 1..Len(rmListing) /\ place \in DOMAIN rmListing /\ place \in Nat \ {0}
  BY <1>1, ListingIsSeq DEF RmIInv, RmTypes, LoopTypes
<1>4. /\ versions' \subseteq versions \cup {place}
      /\ toSend' \subseteq versions \cup {place} /\ \A i \in toSend' : i \in Picked(versions \cup {place})
      /\ (rm' = rm /\ rmFailed' = rmFailed) \/ (rm' = "exited" /\ rmFailed' = TRUE)
      /\ ~rmFailed' => /\ \A i \in versions : i \in versions' \/ i \in toSend' \/ rmListing[i] \notin Sendable
                       /\ place \in versions' \/ place \in toSend' \/ rmListing[place] \notin Sendable
      /\ place \in versions' \cup toSend' => place \in versions \/ rmListing[place].error = None
  BY <1>1, <1>3 DEF NextEntry, Picked, Sendable, Entries, None
<1>5. RmTypes'
  <2>1. \A i \in versions' : i \in DOMAIN rmListing /\ i < place + 1 /\ rmListing[i] \in Entries
    BY <1>1, <1>3, <1>4 DEF RmIInv, RmTypes, LoopTypes, Entries
  <2>2. \A i \in toSend' : i \in DOMAIN rmListing /\ i < place + 1 /\ rmListing[i] \in Sendable
    BY <1>1, <1>3, <1>4 DEF RmIInv, RmTypes, LoopTypes, Entries, Sendable, Picked
  <2>3. LoopTypes'
    BY <1>1, <1>2, <1>3, <1>4, <2>1, <2>2 DEF RmIInv, RmTypes, LoopTypes
  <2>4. ClientTypes' /\ ApiTypes'
    BY <1>1, <1>2 DEF RmIInv, RmTypes, ClientTypes, ApiTypes
  <2>5. RmFlags'
    BY <1>1, <1>4 DEF RmIInv, RmTypes, RmFlags
  <2> QED BY <2>3, <2>4, <2>5 DEF RmTypes
<1>6. RmOrder'
  <2>1. Len(rmListing) \in Nat /\ place' <= Len(rmListing) + 1
    BY <1>1, <1>3, ListingIsSeq DEF RmIInv, RmTypes, LoopTypes
  <2> QED BY <1>1, <1>2, <1>4, <2>1 DEF RmIInv, RmOrder
<1>7. NoneLost'
  BY <1>1, <1>2, <1>3, <1>4 DEF RmIInv, RmTypes, LoopTypes, ClientTypes, ApiTypes, NoneLost, UnderWayRm, Tried
<1>8. ErrorsHeard' /\ SuccessTrue' /\ AllTried'
  BY <1>1, <1>2, <1>4 DEF RmIInv, RmOrder, ErrorsHeard, SuccessTrue, NotThere, AllTried, PassedOver
<1>r. RemovedRight'
  BY <1>1, RemovedGrows
<1> QED BY <1>5, <1>6, <1>7, <1>8, <1>r DEF RmIInv

\* After the listing: the versions of the last object go, and the channel of
\* contents is closed.
LEMMA EndOfListingStep == RmIInv /\ EndOfListing => RmIInv'
<1> SUFFICES ASSUME RmIInv, EndOfListing PROVE RmIInv'
  OBVIOUS
<1>1. /\ UNCHANGED rmCommand
      /\ UNCHANGED <<place, client, held, result, prevBucket, objectsOpen, batch, statuses, removed,
                     failures, printed, rmFailed>>
      /\ rm = "list" /\ toSend = {} /\ place > Len(rmListing) /\ versions' = {}
  BY DEF EndOfListing, api
<1>2. /\ rmListing' = rmListing /\ rmOpts' = rmOpts
      /\ Entries' = Entries /\ Sendable' = Sendable /\ Buckets' = Buckets /\ Told' = Told
  BY <1>1, ListingStays
<1>3. /\ toSend' = Picked(versions)
      /\ \/ rm' = "list"
         \/ /\ rm' = (IF rmOpts.isFake THEN "exited" ELSE "drain") /\ toSend' = {}
  BY <1>1 DEF EndOfListing
<1>4. \A i \in versions : rmListing[i] \in Sendable <=> i \in toSend'
  <2>1. \A i \in versions : rmListing[i] \in Entries
    BY DEF RmIInv, RmTypes, LoopTypes
  <2> QED BY <1>3, <2>1 DEF Picked, Sendable
<1>5. toSend' \subseteq versions
  BY <1>3 DEF Picked
<1>6. RmTypes'
  <2>1. LoopTypes'
    BY <1>1, <1>2, <1>3, <1>4, <1>5 DEF RmIInv, RmTypes, LoopTypes
  <2>2. ClientTypes' /\ ApiTypes'
    BY <1>1, <1>2 DEF RmIInv, RmTypes, ClientTypes, ApiTypes
  <2>3. RmFlags'
    BY <1>1 DEF RmIInv, RmTypes, RmFlags
  <2> QED BY <2>1, <2>2, <2>3 DEF RmTypes
<1>7. RmOrder' /\ ErrorsHeard' /\ SuccessTrue'
  BY <1>1, <1>2, <1>3 DEF RmIInv, RmOrder, ErrorsHeard, SuccessTrue, NotThere
<1>8. NoneLost'
  BY <1>1, <1>2, <1>4 DEF RmIInv, NoneLost, UnderWayRm, Tried
<1>9. AllTried'
  <2>1. rmOpts.isFake => Sendable = {}
    BY DEF Sendable
  <2> QED BY <1>2, <1>3, <2>1 DEF AllTried
<1>r. RemovedRight'
  BY <1>1, RemovedGrows
<1> QED BY <1>6, <1>7, <1>8, <1>9, <1>r DEF RmIInv

\* The loop hands the client an entry.
LEMMA SendContentStep == RmIInv /\ SendContent => RmIInv'
<1> SUFFICES ASSUME RmIInv, SendContent PROVE RmIInv'
  OBVIOUS
<1>1. /\ UNCHANGED rmCommand
      /\ UNCHANGED <<place, versions, rm, rmFailed, result, prevBucket, objectsOpen, batch,
                     statuses, removed, failures, printed>>
      /\ rm = "list" /\ client = "receive" /\ client' = "forward" /\ result = <<>>
  BY DEF SendContent, api
<1>2. /\ rmListing' = rmListing /\ rmOpts' = rmOpts
      /\ Entries' = Entries /\ Sendable' = Sendable /\ Buckets' = Buckets /\ Told' = Told
  BY <1>1, ListingStays
<1>3. PICK i \in toSend : held' = <<rmListing[i]>> /\ toSend' = toSend \ {i}
  BY DEF SendContent
<1>4. rmListing[i] \in Sendable
  BY DEF RmIInv, RmTypes, LoopTypes, ClientTypes, ApiTypes
<1>5. RmTypes'
  <2>1. LoopTypes'
    BY <1>1, <1>2, <1>3 DEF RmIInv, RmTypes, LoopTypes
  <2>2. held' \in Seq(Sendable')
    BY <1>2, <1>3, <1>4
  <2>3. ClientTypes' /\ ApiTypes'
    BY <1>1, <1>2, <2>2 DEF RmIInv, RmTypes, ClientTypes, ApiTypes
  <2>4. RmFlags'
    BY <1>1 DEF RmIInv, RmTypes, RmFlags
  <2> QED BY <2>1, <2>3, <2>4 DEF RmTypes
<1>6. RmOrder'
  BY <1>1, <1>2, <1>3 DEF RmIInv, RmOrder
<1>8. ErrorsHeard' /\ SuccessTrue' /\ AllTried'
  BY <1>1, <1>2, <1>3 DEF RmIInv, ErrorsHeard, SuccessTrue, NotThere, AllTried
<1>7. NoneLost'
  <2>1. held = <<>>
    BY <1>1 DEF RmIInv, RmOrder
  <2>2. held'[1] = rmListing[i] /\ 1 \in DOMAIN held'
    BY <1>3
  <2> QED BY <1>1, <1>2, <1>3, <2>1, <2>2 DEF RmIInv, NoneLost, UnderWayRm, Tried
<1>r. RemovedRight'
  BY <1>1, RemovedGrows
<1> QED BY <1>5, <1>6, <1>7, <1>8, <1>r DEF RmIInv

\* The loop hears of a removal, or that there are no more.
LEMMA ReceiveResultStep == RmIInv /\ ReceiveResult => RmIInv'
<1> SUFFICES ASSUME RmIInv, ReceiveResult PROVE RmIInv'
  OBVIOUS
<1>1. /\ UNCHANGED rmCommand
      /\ UNCHANGED <<place, versions, toSend, client, held, prevBucket, objectsOpen, batch,
                     statuses, removed, failures>>
      /\ rm \in {"list", "drain"} /\ result # <<>> /\ result' = <<>>
  BY DEF ReceiveResult, api
<1>2. /\ rmListing' = rmListing /\ rmOpts' = rmOpts
      /\ Entries' = Entries /\ Sendable' = Sendable /\ Buckets' = Buckets /\ Told' = Told
  BY <1>1, ListingStays
<1>3. /\ (rm' = rm /\ rmFailed' = rmFailed) \/ (rm' = "exited" /\ rmFailed' = TRUE)
      /\ result[1].error = "other" => rmFailed' = TRUE
      /\ \/ printed' = printed
         \/ /\ result[1].error = None
            /\ printed' = printed \cup {[bucket |-> result[1].bucket, of |-> result[1].of]}
  BY <1>1 DEF ReceiveResult, None
<1>4. Len(result) = 1 /\ 1 \in DOMAIN result /\ result[1] \in Told
  <2>1. result \in Seq(Told) /\ Len(result) <= 1
    BY DEF RmIInv, RmTypes, ClientTypes, RmOrder
  <2> QED BY <1>1, <2>1, OneElement
<1>5. RmTypes'
  <2>1. LoopTypes'
    BY <1>1, <1>2, <1>3 DEF RmIInv, RmTypes, LoopTypes
  <2>2. result' \in Seq(Told')
    BY <1>1
  <2>3. ClientTypes' /\ ApiTypes'
    BY <1>1, <1>2, <2>2 DEF RmIInv, RmTypes, ClientTypes, ApiTypes
  <2>4. RmFlags'
    BY <1>1, <1>3 DEF RmIInv, RmTypes, RmFlags
  <2> QED BY <2>1, <2>3, <2>4 DEF RmTypes
<1>6. RmOrder' /\ NoneLost' /\ AllTried'
  BY <1>1, <1>2, <1>3 DEF RmIInv, RmOrder, NoneLost, UnderWayRm, Tried, AllTried
<1>7. ErrorsHeard'
  BY <1>1, <1>2, <1>3, <1>4 DEF RmIInv, RmTypes, ClientTypes, ErrorsHeard
<1>8. SuccessTrue'
  BY <1>1, <1>2, <1>3, <1>4 DEF RmIInv, SuccessTrue, NotThere, Told
<1>r. RemovedRight'
  BY <1>1, RemovedGrows
<1> QED BY <1>5, <1>6, <1>7, <1>8, <1>r DEF RmIInv

\* The channel of results is closed, and rm ends.
LEMMA EndOfResultsStep == RmIInv /\ EndOfResults => RmIInv'
<1> SUFFICES ASSUME RmIInv, EndOfResults PROVE RmIInv'
  OBVIOUS
<1>1. /\ UNCHANGED rmCommand
      /\ UNCHANGED <<place, versions, toSend, client, held, result, prevBucket, objectsOpen,
                     batch, statuses, removed, failures, printed>>
      /\ rm = "drain" /\ rm' = "exited" /\ result = <<>> /\ client = "closed"
      /\ rmFailed' \in BOOLEAN
  BY DEF EndOfResults, api
<1>2. /\ rmListing' = rmListing /\ rmOpts' = rmOpts
      /\ Entries' = Entries /\ Sendable' = Sendable /\ Buckets' = Buckets /\ Told' = Told
  BY <1>1, ListingStays
<1>3. /\ ~rmFailed /\ place > Len(rmListing) /\ versions = {} /\ toSend = {}
      /\ held = <<>> /\ batch = <<>> /\ statuses = <<>>
  BY <1>1 DEF RmIInv, RmOrder
<1>4. RmTypes' /\ RmOrder'
  <2>1. LoopTypes' /\ ClientTypes' /\ ApiTypes'
    BY <1>1, <1>2 DEF RmIInv, RmTypes, LoopTypes, ClientTypes, ApiTypes
  <2>2. RmFlags' /\ RmOrder'
    BY <1>1, <1>2, <1>3 DEF RmIInv, RmTypes, RmFlags, RmOrder
  <2> QED BY <2>1, <2>2 DEF RmTypes
<1>5. NoneLost' /\ ErrorsHeard' /\ SuccessTrue'
  BY <1>1, <1>2, <1>3 DEF RmIInv, NoneLost, UnderWayRm, Tried, ErrorsHeard, SuccessTrue, NotThere
<1>6. \A e \in Sendable : e \in removed \/ PassedOver(e)
  <2> SUFFICES ASSUME NEW e \in Sendable, e \notin removed PROVE PassedOver(e)
    OBVIOUS
  <2>1. PICK i \in DOMAIN rmListing : rmListing[i] = e
    BY DEF Sendable, Entries
  <2>2. i < place
    BY <1>3, ListingIsSeq DEF RmIInv, RmTypes, LoopTypes, ClientTypes, ApiTypes
  <2>3. Tried(e)
    BY <1>3, <2>1, <2>2 DEF RmIInv, NoneLost, UnderWayRm
  <2>4. PICK f \in failures : f.of = e
    BY <2>3 DEF Tried
  <2>5. f.error # "other" /\ f.error # None
    BY <1>1, <1>3 DEF RmIInv, ErrorsHeard
  <2>6. f.error \in Outcomes
    BY DEF RmIInv, RmTypes, LoopTypes, ClientTypes, ApiTypes, Told
  <2> QED BY <2>4, <2>5, <2>6, RemovalAssumption DEF PassedOver, Outcomes, Unsaid
<1>7. AllTried'
  BY <1>1, <1>2, <1>6 DEF AllTried, PassedOver
<1>r. RemovedRight'
  BY <1>1, RemovedGrows
<1> QED BY <1>4, <1>5, <1>7, <1>r DEF RmIInv

\* fsClient.Remove, a file at a time.
LEMMA RemoveFileStep == RmIInv /\ RemoveFile => RmIInv'
<1> SUFFICES ASSUME RmIInv, RemoveFile PROVE RmIInv'
  OBVIOUS
<1>1. /\ UNCHANGED rmCommand
      /\ UNCHANGED <<place, versions, toSend, rm, rmFailed, printed, prevBucket, objectsOpen, batch,
                     statuses>>
      /\ client = "forward" /\ held' = <<>> /\ client' \in {"closed", "receive"}
      /\ rmOpts.client = "fs" /\ rmOpts.client # "s3"
  BY DEF RemoveFile, AnswerOf, loop
<1>2. /\ rmListing' = rmListing /\ rmOpts' = rmOpts
      /\ Entries' = Entries /\ Sendable' = Sendable /\ Buckets' = Buckets /\ Told' = Told
  BY <1>1, ListingStays
<1>3. Len(held) = 1 /\ held[1] \in Sendable /\ batch = <<>> /\ statuses = <<>> /\ ~objectsOpen
  BY <1>1, HeldOne DEF RmIInv, RmOrder
<1>e. PICK e \in Sendable : e = held[1]
  BY <1>3
<1>4. PICK error \in Outcomes, dirs \in SUBSET Entries :
        /\ result' = <<Outcome(e, error)>>
        /\ removed \subseteq removed' /\ removed' \subseteq removed \cup {e} \cup dirs
        /\ failures \subseteq failures'
        /\ \A f \in failures' :
             f \in failures \/ \E why \in Outcomes \ {None} :
                                f = Outcome(e, why) /\ (why = "other" => error = "other")
        /\ \A d \in dirs :
             /\ e \in removed' /\ Within(e, d)
             /\ \A g \in Entries :
                  Within(g, d) => g \in removed' \/ Outcome(g, "gone") \in failures
        /\ e \in removed' \/ \E why \in Outcomes \ {None} :
             Outcome(e, why) \in failures' /\ (error = None => why \in Unsaid)
  <2>1. ASSUME NEW dirs \in SUBSET {d \in Entries : Within(held[1], d)},
               NEW above \in {"permission", "other"},
               removed' = removed \cup {held[1]} \cup dirs,
               \A d \in dirs \cup {held[1]}, g \in Entries :
                 Within(g, d) => g \in removed' \/ Outcome(g, "gone") \in failures,
               \/ AnswerOf(None)
               \/ rmOpts.mode # "single" /\ above \in RemoveErrors /\ AnswerOf(above),
               UNCHANGED failures
        PROVE  \E error \in Outcomes :
                 /\ result' = <<Outcome(held[1], error)>>
                 /\ removed \subseteq removed' /\ removed' \subseteq removed \cup {e} \cup dirs
                 /\ failures' = failures /\ e \in removed'
                 /\ \A d \in dirs :
                      /\ Within(e, d)
                      /\ \A g \in Entries :
                           Within(g, d) => g \in removed' \/ Outcome(g, "gone") \in failures
    BY <1>e, <2>1 DEF AnswerOf, Outcomes
  <2>2. ASSUME NEW why \in Outcomes \ {None, "worm"},
               failures' = failures \cup {Outcome(held[1], why)},
               AnswerOf(IF why \in Unsaid THEN None ELSE why), UNCHANGED removed
        PROVE  \E error \in Outcomes :
                 /\ result' = <<Outcome(e, error)>>
                 /\ removed' = removed /\ failures' = failures \cup {Outcome(e, why)}
                 /\ why = "other" => error = "other"
                 /\ error = None => why \in Unsaid
    BY <1>e, <2>2 DEF AnswerOf, Outcomes, Unsaid, None
  <2>3. CASE failures' = failures /\ removed' # removed
    <3>1. PICK dirs \in SUBSET {d \in Entries : Within(held[1], d)},
               above \in {"permission", "other"} :
               /\ removed' = removed \cup {held[1]} \cup dirs
               /\ \A d \in dirs \cup {held[1]}, g \in Entries :
                    Within(g, d) => g \in removed' \/ Outcome(g, "gone") \in failures
               /\ \/ AnswerOf(None)
                  \/ rmOpts.mode # "single" /\ above \in RemoveErrors /\ AnswerOf(above)
               /\ UNCHANGED failures
      BY <2>3 DEF RemoveFile
    <3> QED BY <1>e, <2>1, <3>1
  <2>4. CASE removed' = removed
    <3>1. PICK why \in Outcomes \ {None, "worm"} :
               /\ failures' = failures \cup {Outcome(held[1], why)}
               /\ AnswerOf(IF why \in Unsaid THEN None ELSE why) /\ UNCHANGED removed
      BY <2>4 DEF RemoveFile
    <3>2. PICK error \in Outcomes :
            /\ result' = <<Outcome(e, error)>>
            /\ removed' = removed /\ failures' = failures \cup {Outcome(e, why)}
            /\ why = "other" => error = "other"
            /\ error = None => why \in Unsaid
      BY <2>2, <3>1
    <3>3. {} \in SUBSET Entries /\ why \in Outcomes \ {None}
      OBVIOUS
    <3> QED BY <3>2, <3>3
  <2>5. (failures' = failures /\ removed' # removed) \/ removed' = removed
    BY DEF RemoveFile
  <2> QED BY <2>3, <2>4, <2>5
<1>5. /\ Outcome(e, error) \in Told
      /\ \A why \in Outcomes :
           /\ Outcome(e, why) \in Told /\ Outcome(e, why).of = e /\ Outcome(e, why).error = why
      /\ \A g \in Entries, why \in Outcomes : Outcome(g, why).of = g /\ Outcome(g, why).error = why
      /\ "gone" \in Outcomes /\ None \in Outcomes
  BY <1>3, OutcomeTold DEF Outcome, Outcomes
<1>6. \A f \in failures' :
        f \in failures \/ (f \in Told /\ f.of = e /\ f.error # None /\ (f.error = "other" => error = "other"))
  BY <1>4, <1>5
<1>7. RmTypes'
  <2>1. LoopTypes'
    BY <1>1, <1>2 DEF RmIInv, RmTypes, LoopTypes
  <2>2. result' \in Seq(Told') /\ held' \in Seq(Sendable')
    <3>1. <<Outcome(e, error)>> \in Seq(Told) /\ <<>> \in Seq(Sendable)
      BY <1>5
    <3> QED BY <1>1, <1>2, <1>4, <3>1
  <2>3. ClientTypes'
    BY <1>1, <1>2, <2>2 DEF RmIInv, RmTypes, ClientTypes
  <2>4. failures' \subseteq Told /\ removed' \subseteq Entries
    BY <1>4, <1>6 DEF RmIInv, RmTypes, ApiTypes, Sendable
  <2>5. ApiTypes'
    BY <1>1, <1>2, <1>3, <2>4 DEF RmIInv, RmTypes, ApiTypes
  <2>6. RmFlags'
    BY <1>1 DEF RmIInv, RmTypes, RmFlags
  <2> QED BY <2>1, <2>3, <2>5, <2>6 DEF RmTypes
<1>8. RmOrder'
  <2>1. Len(result') <= 1
    BY <1>4
  <2> QED BY <1>1, <1>2, <1>3, <2>1 DEF RmIInv, RmOrder
<1>9. NoneLost'
  <2>1. \A n \in DOMAIN held : held[n] = e
    BY <1>1, <1>e, HeldOne
  <2>2. Tried(e)'
    BY <1>4, <1>5 DEF Tried
  <2> QED BY <1>1, <1>2, <1>4, <2>1, <2>2 DEF RmIInv, NoneLost, UnderWayRm, Tried
<1>10. 1 \in DOMAIN result' /\ \A n \in DOMAIN result' : result'[n] = Outcome(e, error)
  BY <1>4
<1>11. ErrorsHeard'
  <2>1. result = <<>>
    BY <1>1 DEF RmIInv, RmOrder
  <2> QED BY <1>1, <1>3, <1>5, <1>6, <1>10, <2>1 DEF RmIInv, ErrorsHeard
<1>12. SuccessTrue'
  <2>1. error = None => e \in removed' \/ NotThere(e)'
    BY <1>1, <1>2, <1>4, <1>5 DEF NotThere
  <2> QED BY <1>1, <1>2, <1>3, <1>4, <1>5, <1>10, <2>1, SuccessStays DEF RmIInv, SuccessTrue
<1>13. AllTried'
  BY <1>1, <1>2, <1>4 DEF RmIInv, AllTried, PassedOver
<1>r. RemovedRight'
  <2>1. \A d \in dirs : Emptied(d)'
    <3> SUFFICES ASSUME NEW d \in dirs PROVE Emptied(d)'
      OBVIOUS
    <3>1. \A g \in Entries : Within(g, d) => NotFound(g)'
      BY <1>4, <1>5 DEF NotFound
    <3> QED BY <1>1, <1>2, <1>e, <1>4, <3>1 DEF Emptied, Within
  <2> QED BY <1>1, <1>4, <2>1, RemovedGrows
<1> QED BY <1>7, <1>8, <1>9, <1>11, <1>12, <1>13, <1>r DEF RmIInv

\* S3Client.Remove between the loop and minio-go: a content goes on, or a status
\* comes back.
LEMMA OpenObjectsStep == RmIInv /\ (OpenObjects \/ SwitchBucket) => RmIInv'
<1> SUFFICES ASSUME RmIInv, OpenObjects \/ SwitchBucket PROVE RmIInv'
  OBVIOUS
<1>1. /\ UNCHANGED rmCommand
      /\ UNCHANGED <<place, versions, toSend, rm, rmFailed, printed, held, result, batch, statuses,
                     removed, failures>>
  BY DEF OpenObjects, SwitchBucket, loop
<1>2. /\ rmListing' = rmListing /\ rmOpts' = rmOpts
      /\ Entries' = Entries /\ Sendable' = Sendable /\ Buckets' = Buckets /\ Told' = Told
  BY <1>1, ListingStays
<1>3. /\ client \in {"forward", "switch"} /\ client' \in {"forward", "switch"}
      /\ rmOpts.client = "fs" => client = "switch"
      /\ (prevBucket' = held[1].bucket) \/ (prevBucket' = prevBucket /\ prevBucket # None)
      /\ objectsOpen' \in BOOLEAN
  BY DEF OpenObjects, SwitchBucket
<1>4. held[1] \in Sendable
  BY <1>3, HeldOne
<1>5. held[1].bucket \in Buckets /\ held[1].bucket # None
  BY <1>4 DEF Sendable, Buckets, RmIInv, RmTypes, ClientTypes
<1>6. RmTypes'
  <2>1. LoopTypes' /\ ApiTypes'
    BY <1>1, <1>2 DEF RmIInv, RmTypes, LoopTypes, ApiTypes
  <2>2. ClientTypes'
    BY <1>1, <1>2, <1>3, <1>5 DEF RmIInv, RmTypes, ClientTypes
  <2>3. RmFlags'
    BY <1>1, <1>3 DEF RmIInv, RmTypes, RmFlags
  <2> QED BY <2>1, <2>2, <2>3 DEF RmTypes
<1>7. RmOrder'
  BY <1>1, <1>2, <1>3, <1>5 DEF RmIInv, RmOrder
<1>8. NoneLost' /\ ErrorsHeard' /\ SuccessTrue' /\ AllTried'
  BY <1>1, <1>2 DEF RmIInv, NoneLost, UnderWayRm, Tried, ErrorsHeard, SuccessTrue, NotThere, AllTried,
     PassedOver
<1>r. RemovedRight'
  BY <1>1, RemovedGrows
<1> QED BY <1>6, <1>7, <1>8, <1>r DEF RmIInv

\* s3 client: the content goes to minio-go, or waits for the next batch.
LEMMA SendObjectStep == RmIInv /\ SendObject => RmIInv'
<1> SUFFICES ASSUME RmIInv, SendObject PROVE RmIInv'
  OBVIOUS
<1>1. /\ UNCHANGED rmCommand
      /\ UNCHANGED <<place, versions, toSend, rm, rmFailed, printed, result, prevBucket, objectsOpen,
                     statuses, removed, failures>>
      /\ rmOpts.client = "s3" /\ client = "forward" /\ prevBucket = held[1].bucket
      /\ batch' = Append(batch, held[1]) /\ held' = <<>> /\ client' = "receive"
      /\ Len(batch) < BatchSize
  BY DEF SendObject, loop
<1>2. /\ rmListing' = rmListing /\ rmOpts' = rmOpts
      /\ Entries' = Entries /\ Sendable' = Sendable /\ Buckets' = Buckets /\ Told' = Told
  BY <1>1, ListingStays
<1>3. Len(held) = 1 /\ held[1] \in Sendable /\ batch \in Seq(Sendable)
  BY <1>1, HeldOne DEF RmIInv, RmTypes, ApiTypes
<1>4. held[1].bucket # None
  BY <1>3 DEF Sendable, Buckets, RmIInv, RmTypes, ClientTypes
<1>5. RmTypes'
  <2>1. LoopTypes'
    BY <1>1, <1>2 DEF RmIInv, RmTypes, LoopTypes
  <2>2. held' \in Seq(Sendable') /\ batch' \in Seq(Sendable')
    BY <1>1, <1>2, <1>3
  <2>3. ClientTypes' /\ ApiTypes'
    BY <1>1, <1>2, <2>2 DEF RmIInv, RmTypes, ClientTypes, ApiTypes
  <2>4. RmFlags'
    BY <1>1 DEF RmIInv, RmTypes, RmFlags
  <2> QED BY <2>1, <2>3, <2>4 DEF RmTypes
<1>6. RmOrder'
  <2>1. Len(batch') <= BatchSize
    BY <1>1, <1>3, RemovalAssumption
  <2> QED BY <1>1, <1>2, <1>4, <2>1 DEF RmIInv, RmOrder
<1>7. NoneLost'
  <2>1. \A e \in Sendable : UnderWayRm(e) => UnderWayRm(e)'
    <3>1. \A n \in DOMAIN held : held[n] = held[1]
      BY <1>3 DEF RmIInv, RmTypes, ClientTypes
    <3>2. /\ \A n \in DOMAIN batch : n \in DOMAIN batch' /\ batch'[n] = batch[n]
          /\ Len(batch) + 1 \in DOMAIN batch' /\ batch'[Len(batch) + 1] = held[1]
      BY <1>1, <1>3
    <3> QED BY <3>1, <3>2 DEF UnderWayRm
  <2> QED BY <1>1, <1>2, <2>1 DEF RmIInv, NoneLost, Tried
<1>8. ErrorsHeard' /\ SuccessTrue' /\ AllTried'
  BY <1>1, <1>2 DEF RmIInv, ErrorsHeard, SuccessTrue, NotThere, AllTried, PassedOver
<1>r. RemovedRight'
  BY <1>1, RemovedGrows
<1> QED BY <1>5, <1>6, <1>7, <1>8, <1>r DEF RmIInv

\* s3 client: a status of minio-go becomes a result.
LEMMA ForwardStatusStep == RmIInv /\ ForwardStatus => RmIInv'
<1> SUFFICES ASSUME RmIInv, ForwardStatus PROVE RmIInv'
  OBVIOUS
<1>1. /\ UNCHANGED rmCommand
      /\ UNCHANGED <<place, versions, toSend, rm, rmFailed, printed, client, held, prevBucket,
                     objectsOpen, batch, removed, failures>>
      /\ client \in {"forward", "switch", "end"} /\ result = <<>> /\ statuses # <<>>
      /\ statuses' = Tail(statuses)
  BY DEF ForwardStatus, loop
<1>2. /\ rmListing' = rmListing /\ rmOpts' = rmOpts
      /\ Entries' = Entries /\ Sendable' = Sendable /\ Buckets' = Buckets /\ Told' = Told
  BY <1>1, ListingStays
<1>3. PICK b : /\ result' = <<[statuses[1] EXCEPT !.bucket = b]>>
               /\ b = IF client = "end" THEN prevBucket ELSE held[1].bucket
  BY DEF ForwardStatus
<1>4. b \in Buckets
  <2>1. CASE client = "end"
    BY <1>1, <1>3, <2>1 DEF RmIInv, RmTypes, ClientTypes, RmOrder
  <2>2. CASE client # "end"
    <3>1. held[1] \in Sendable
      BY <1>1, <2>2 DEF RmIInv, RmTypes, ClientTypes, RmOrder
    <3> QED BY <1>3, <2>2, <3>1 DEF Sendable, Buckets
  <2> QED BY <2>1, <2>2
<1>5. /\ statuses \in Seq(Told) /\ statuses[1] \in Told /\ 1 \in DOMAIN statuses
      /\ Tail(statuses) \in Seq(Told)
      /\ \A n \in DOMAIN statuses : n = 1 \/ (n - 1 \in DOMAIN Tail(statuses) /\ Tail(statuses)[n - 1] = statuses[n])
      /\ \A n \in DOMAIN Tail(statuses) : n + 1 \in DOMAIN statuses /\ Tail(statuses)[n] = statuses[n + 1]
  <2>1. statuses \in Seq(Told) /\ statuses # <<>>
    BY <1>1 DEF RmIInv, RmTypes, ApiTypes
  <2>2. Len(statuses) \in Nat \ {0}
    BY <2>1, EmptySeq
  <2> QED BY <2>1, <2>2
<1> DEFINE r == [statuses[1] EXCEPT !.bucket = b]
<1>6. r \in Told /\ r.of = statuses[1].of /\ r.error = statuses[1].error
  BY <1>4, <1>5 DEF Told
<1>7. result' = <<r>>
  BY <1>3
<1> HIDE DEF r
<1>8. RmTypes'
  <2>1. LoopTypes'
    BY <1>1, <1>2 DEF RmIInv, RmTypes, LoopTypes
  <2>2. result' \in Seq(Told') /\ statuses' \in Seq(Told')
    BY <1>1, <1>2, <1>5, <1>6, <1>7
  <2>3. ClientTypes' /\ ApiTypes'
    BY <1>1, <1>2, <2>2 DEF RmIInv, RmTypes, ClientTypes, ApiTypes
  <2>4. RmFlags'
    BY <1>1 DEF RmIInv, RmTypes, RmFlags
  <2> QED BY <2>1, <2>3, <2>4 DEF RmTypes
<1>9. RmOrder'
  <2>1. Len(result') <= 1
    BY <1>7
  <2> QED BY <1>1, <1>2, <2>1 DEF RmIInv, RmOrder
<1>10. NoneLost' /\ AllTried'
  BY <1>1, <1>2 DEF RmIInv, NoneLost, UnderWayRm, Tried, AllTried, PassedOver
<1>11. ErrorsHeard'
  <2>1. result'[1] = r /\ 1 \in DOMAIN result' /\ statuses'= Tail(statuses) /\ DOMAIN result = {}
    BY <1>1, <1>7
  <2>2. (\E n \in DOMAIN statuses : statuses[n].error = "other") =>
          \/ \E n \in DOMAIN statuses' : statuses'[n].error = "other"
          \/ \E n \in DOMAIN result' : result'[n].error = "other"
    BY <1>5, <1>6, <2>1
  <2> QED BY <1>1, <2>1, <2>2 DEF RmIInv, ErrorsHeard
<1>12. SuccessTrue'
  <2>1. \A n \in DOMAIN result' : result'[n] = r
    BY <1>7
  <2> QED BY <1>1, <1>2, <1>5, <1>6, <2>1 DEF RmIInv, SuccessTrue, NotThere
<1>r. RemovedRight'
  BY <1>1, RemovedGrows
<1> QED BY <1>8, <1>9, <1>10, <1>11, <1>12, <1>r DEF RmIInv

\* The client closes the channel of objects, and that of results at last.
LEMMA EndsStep == RmIInv /\ (EndOfContents \/ CloseResults) => RmIInv'
<1> SUFFICES ASSUME RmIInv, EndOfContents \/ CloseResults PROVE RmIInv'
  OBVIOUS
<1>1. /\ UNCHANGED rmCommand
      /\ UNCHANGED <<place, versions, toSend, rm, rmFailed, printed, held, result, prevBucket, batch,
                     statuses, removed, failures>>
  BY DEF EndOfContents, CloseResults, loop, api
<1>2. /\ rmListing' = rmListing /\ rmOpts' = rmOpts
      /\ Entries' = Entries /\ Sendable' = Sendable /\ Buckets' = Buckets /\ Told' = Told
  BY <1>1, ListingStays
<1>3. /\ client \in {"receive", "end"} /\ client' \in {"end", "closed"}
      /\ objectsOpen' => objectsOpen
      /\ client' = "end" => rmOpts.client = "s3"
      /\ client' = "closed" => ~objectsOpen' /\ (rmOpts.client # "s3" \/ (batch = <<>> /\ statuses = <<>>))
  <2>1. CASE EndOfContents
    BY <2>1 DEF EndOfContents
  <2>2. CASE CloseResults
    BY <2>2 DEF CloseResults, StatusEnd, api
  <2> QED BY <2>1, <2>2
<1>4. rmOpts.client # "s3" => rmOpts.client = "fs"
  BY RemovalAssumption DEF RmIInv, RmTypes, LoopTypes
<1>5. RmTypes'
  <2>1. LoopTypes' /\ ApiTypes'
    BY <1>1, <1>2 DEF RmIInv, RmTypes, LoopTypes, ApiTypes
  <2>2. ClientTypes'
    BY <1>1, <1>2, <1>3 DEF RmIInv, RmTypes, ClientTypes
  <2>3. RmFlags'
    <3>1. objectsOpen' \in BOOLEAN
      BY DEF EndOfContents, CloseResults, api, RmIInv, RmTypes, RmFlags
    <3> QED BY <1>1, <3>1 DEF RmIInv, RmTypes, RmFlags
  <2> QED BY <2>1, <2>2, <2>3 DEF RmTypes
<1>6. RmOrder'
  BY <1>1, <1>2, <1>3, <1>4 DEF RmIInv, RmOrder
<1>7. NoneLost' /\ ErrorsHeard' /\ SuccessTrue' /\ AllTried'
  BY <1>1, <1>2 DEF RmIInv, NoneLost, UnderWayRm, Tried, ErrorsHeard, SuccessTrue, NotThere, AllTried,
     PassedOver
<1>r. RemovedRight'
  BY <1>1, RemovedGrows
<1> QED BY <1>5, <1>6, <1>7, <1>r DEF RmIInv

\* minio-go removes a batch.
LEMMA RemoveBatchStep == RmIInv /\ RemoveBatch => RmIInv'
<1> SUFFICES ASSUME RmIInv, RemoveBatch PROVE RmIInv'
  OBVIOUS
<1>1. /\ UNCHANGED rmCommand
      /\ UNCHANGED <<place, versions, toSend, rm, rmFailed, printed, client, held, result,
                     prevBucket, objectsOpen>>
      /\ batch # <<>> /\ statuses = <<>> /\ batch' = <<>>
  BY DEF RemoveBatch, loop
<1>2. /\ rmListing' = rmListing /\ rmOpts' = rmOpts
      /\ Entries' = Entries /\ Sendable' = Sendable /\ Buckets' = Buckets /\ Told' = Told
  BY <1>1, ListingStays
<1>3. PICK errors \in [DOMAIN batch -> Outcomes] :
       /\ statuses' = [i \in DOMAIN batch |-> Outcome(batch[i], errors[i])]
       /\ removed' = removed \cup {batch[i] : i \in {j \in DOMAIN batch : errors[j] = None}}
       /\ failures' = failures \cup
            {Outcome(batch[i], errors[i]) : i \in {j \in DOMAIN batch : errors[j] # None}}
  <2>1. PICK errors \in [DOMAIN batch -> Outcomes \ ({"permission"} \cup Unsaid)] :
       /\ statuses' = [i \in DOMAIN batch |-> Outcome(batch[i], errors[i])]
       /\ removed' = removed \cup {batch[i] : i \in {j \in DOMAIN batch : errors[j] = None}}
       /\ failures' = failures \cup
            {Outcome(batch[i], errors[i]) : i \in {j \in DOMAIN batch : errors[j] # None}}
    BY DEF RemoveBatch
  <2>2. errors \in [DOMAIN batch -> Outcomes]
    OBVIOUS
  <2> QED BY <2>1, <2>2
<1>4. batch \in Seq(Sendable) /\ \A i \in DOMAIN batch : batch[i] \in Sendable
  BY DEF RmIInv, RmTypes, ApiTypes
<1>5. \A i \in DOMAIN batch : /\ Outcome(batch[i], errors[i]) \in Told
                              /\ Outcome(batch[i], errors[i]).of = batch[i]
                              /\ Outcome(batch[i], errors[i]).error = errors[i]
  BY <1>4, OutcomeTold
<1>6. /\ DOMAIN statuses' = DOMAIN batch
      /\ \A i \in DOMAIN batch : /\ statuses'[i] \in Told /\ statuses'[i].of = batch[i]
                                 /\ statuses'[i].error = errors[i]
                                 /\ errors[i] = None => batch[i] \in removed'
                                 /\ errors[i] # None => statuses'[i] \in failures'
      /\ \A e \in removed' : e \in removed \/ e \in Sendable
      /\ \A f \in failures' : f \in failures \/ \E i \in DOMAIN batch : f = statuses'[i] /\ errors[i] # None
      /\ removed \subseteq removed' /\ failures \subseteq failures'
  BY <1>3, <1>4, <1>5
<1>7. statuses' \in Seq(Told)
  <2>1. DOMAIN batch = 1..Len(batch) /\ Len(batch) \in Nat
    BY <1>4
  <2> QED BY <1>3, <1>6, <2>1, SeqDef
<1>8. RmTypes'
  <2>1. LoopTypes' /\ ClientTypes'
    BY <1>1, <1>2 DEF RmIInv, RmTypes, LoopTypes, ClientTypes
  <2>4. removed' \subseteq Entries
    BY <1>6 DEF RmIInv, RmTypes, ApiTypes, Sendable
  <2>2. ApiTypes'
    BY <1>1, <1>2, <1>6, <1>7, <2>4 DEF RmIInv, RmTypes, ApiTypes
  <2>3. RmFlags'
    BY <1>1 DEF RmIInv, RmTypes, RmFlags
  <2> QED BY <2>1, <2>2, <2>3 DEF RmTypes
<1>9. RmOrder'
  <2>1. Len(<<>>) = 0 /\ BatchSize \in Nat
    BY RemovalAssumption
  <2> QED BY <1>1, <1>2, <2>1 DEF RmIInv, RmOrder
<1>10. NoneLost'
  <2>1. ASSUME NEW e \in Sendable, NEW i \in DOMAIN batch, batch[i] = e PROVE Tried(e)'
    BY <1>6, <2>1 DEF Tried
  <2> QED BY <1>1, <1>2, <1>6, <2>1 DEF RmIInv, NoneLost, UnderWayRm, Tried
<1>11. ErrorsHeard'
  BY <1>1, <1>6 DEF RmIInv, ErrorsHeard
<1>12. SuccessTrue'
  BY <1>1, <1>2, <1>6, SuccessStays DEF RmIInv, SuccessTrue
<1>13. AllTried'
  BY <1>1, <1>2, <1>6 DEF RmIInv, AllTried, PassedOver
<1>r. RemovedRight'
  BY <1>1, <1>6, RemovedGrows
<1> QED BY <1>8, <1>9, <1>10, <1>11, <1>12, <1>13, <1>r DEF RmIInv

\* No step of rm loses an entry or an error.
LEMMA RmStep == RmIInv /\ [RmNext]_removalVars => RmIInv'
BY RmStays, NextEntryStep, EndOfListingStep, SendContentStep, ReceiveResultStep, EndOfResultsStep,
   RemoveFileStep, OpenObjectsStep, SendObjectStep, ForwardStatusStep, EndsStep, RemoveBatchStep
DEF RmNext, Main, Client

\* The types of the variables of Removal.
THEOREM RmTypeCorrect == RmSpec => []RmTypeOK
<1>1. RmIInv => RmTypeOK
  <2> SUFFICES ASSUME RmIInv PROVE RmTypeOK
    OBVIOUS
  <2>1. /\ place \in 1..(Len(rmListing) + 1)
        /\ \A i \in versions \cup toSend : i \in DOMAIN rmListing /\ rmListing[i] \in Entries
        /\ rm \in {"list", "drain", "exited"}
    BY ListingIsSeq DEF RmIInv, RmTypes, LoopTypes, RmOrder, Sendable
  <2>2. /\ client \in {"receive", "forward", "switch", "end", "closed"}
        /\ \A i \in DOMAIN held : held[i] \in Entries
    BY DEF RmIInv, RmTypes, ClientTypes, Sendable
  <2>3. removed \cup {f.of : f \in failures} \subseteq Entries
    BY DEF RmIInv, RmTypes, ApiTypes, Told
  <2> QED BY <2>1, <2>2, <2>3 DEF RmIInv, RmTypes, RmFlags, RmOrder, RmTypeOK
<1> QED BY <1>1, RmInitial, RmStep, PTL DEF RmSpec


\* mc rm removes what its flags say, and exits with 0 only when all of it was
\* removed or its error is one that is passed over: RmExact.
THEOREM RemovalIsExact == RmSpec => []RmExact
<1>2. RmIInv => RmExact
  <2> SUFFICES ASSUME RmIInv PROVE RmExact
    OBVIOUS
  <2>1. ASSUME NEW e \in removed
        PROVE  /\ ~rmOpts.isFake
               /\ \/ Chosen(e)
                  \/ /\ rmOpts.client = "fs" /\ \E f \in removed : Chosen(f) /\ Within(f, e)
                     /\ \A f \in Entries : Within(f, e) => NotFound(f)
    BY DEF RmIInv, RemovedRight, Emptied, Sendable
  <2>2. rm = "exited" /\ ~rmFailed /\ ~rmOpts.isFake =>
       \A e \in Entries : ~Chosen(e) \/ e \in removed \/ PassedOver(e)
    BY DEF RmIInv, AllTried, Sendable
  <2>3. \A p \in printed :
       /\ p.of \in removed \/ NotThere(p.of)
       /\ (\A e \in Entries : e.bucket = p.of.bucket) => p.bucket = p.of.bucket
    BY DEF RmIInv, SuccessTrue, Buckets
  <2> QED BY <2>1, <2>2, <2>3 DEF RmExact, NotFound, PassedOver, NotThere
<1> QED BY <1>2, RmInitial, RmStep, PTL DEF RmSpec

-----------------------------------------------------------------------------
(***************************************************************************)
(* Buckets of a mirror.                                                    *)
(* The invariant: the comparison (cmd/difference.go) has what is in front  *)
(* of it in order, and what it told and the loop of runMirror has not      *)
(* heard yet is in the channel; so a bucket that is at hand on both sides  *)
(* is kept, and one that is not is in a list, in the channel, at hand, or  *)
(* done.                                                                   *)
(***************************************************************************)
\* runMirror makes and deletes buckets.
Writes == opts.createDstBuckets /\ ~opts.isFake

In(s, n) == \E i \in 1..Len(s) : s[i] = n
Sorted(s) == \A i, j \in 1..Len(s) : i < j => Plain[s[i]] < Plain[s[j]]
Said(diff, n) ==
  \E i \in 1..Len(diffCh) : diffCh[i].diff = diff /\ diffCh[i].name = n

\* Without the right to write, the target stays as it was.
BsIdle ==
  /\ before \subseteq Names
  /\ dst = [n \in Names |-> IF n \in before THEN "whole" ELSE "absent"]
  /\ phase \notin {"empty", "remove", "make"}

BsTypes ==
  /\ source \subseteq Names /\ before \subseteq Names
  /\ opts \in Options
  /\ dst \in [Names -> States]
  /\ srcList \in Seq(source) /\ dstList \in Seq(Names)
  /\ diffCh \in Seq(Diff)
  /\ cur \in Names \cup {NoName}

BsTarget ==
  /\ \A n \in source \cap before : dst[n] = "whole"
  /\ \A n \in before \ source :
       dst[n] # "new" /\ (opts.isRemove \/ dst[n] = "whole")
  /\ \A n \in Names \ before :
       \/ dst[n] = "absent"
       \/ dst[n] = "new" /\ n \in source \ Excluded

BsListed ==
  \A i \in 1..Len(dstList) : dstList[i] \in before \/ dst[dstList[i]] = "new"

BsDiffs ==
  \A i \in 1..Len(diffCh) :
    /\ diffCh[i].diff = "differInFirst" => diffCh[i].name \in source
    /\ diffCh[i].diff = "differInSecond" =>
         /\ diffCh[i].name \in before \cup source
         /\ cancelled \/ diffCh[i].name \notin source

BsWork ==
  /\ phase = "make" => cur \in source \ Excluded
  /\ phase \in {"empty", "remove"} =>
       /\ opts.isRemove /\ cur \in before \cup source
       /\ cancelled \/ cur \notin source
  /\ phase = "mirror" => diffCh = <<>>

BsSorted == Sorted(srcList) /\ Sorted(dstList)

BsMerge ==
  ~cancelled /\ listing = "on" =>
    \A n \in source :
      \/ In(srcList, n)
      \/ \A i \in 1..Len(dstList) : Plain[n] < Plain[dstList[i]]

BsToRemove ==
  ~cancelled /\ listing \in {"on", "ended"} =>
    \A n \in before \ source :
      opts.isRemove /\ dst[n] = "whole" =>
        \/ In(dstList, n)
        \/ Said("differInSecond", n)
        \/ phase = "empty" /\ cur = n

BsToMake ==
  ~cancelled /\ listing \in {"on", "ended"} =>
    \A n \in source \ (Excluded \cup before) :
      dst[n] = "absent" =>
        \/ In(srcList, n)
        \/ Said("differInFirst", n)
        \/ phase = "make" /\ cur = n
        \/ n \in reported

BsEnded ==
  ~cancelled /\ listing = "ended" =>
    srcList = <<>> /\ (dstList = <<>> \/ sourceListingOnly)

BsBody ==
  /\ BsTypes /\ BsTarget /\ BsListed /\ BsDiffs /\ BsWork
  /\ BsSorted /\ BsMerge /\ BsToRemove /\ BsToMake /\ BsEnded

BsIInv ==
  /\ ~Writes => BsIdle
  /\ srcKind = "s3" /\ Writes => BsBody

\* What the head and the tail of a list are.
LEMMA HeadAndTail ==
  ASSUME NEW S, NEW s \in Seq(S), s # <<>>
  PROVE  /\ Len(s) \in Nat /\ Len(s) >= 1 /\ 1 \in 1..Len(s)
         /\ Head(s) = s[1] /\ s[1] \in S
         /\ Tail(s) \in Seq(S) /\ Len(Tail(s)) = Len(s) - 1
         /\ \A i \in 1..Len(Tail(s)) : i + 1 \in 1..Len(s) /\ Tail(s)[i] = s[i + 1]
PROOF
<1>1. Len(s) \in Nat /\ Len(s) # 0
  BY EmptySeq
<1> QED
  BY <1>1, HeadTailProperties

\* A bucket of a list is its head or in its tail.
LEMMA InTail ==
  ASSUME NEW S, NEW s \in Seq(S), s # <<>>, NEW n, In(s, n)
  PROVE  n = Head(s) \/ In(Tail(s), n)
PROOF
<1>1. PICK i \in 1..Len(s) : s[i] = n
  BY DEF In
<1>2. CASE i = 1
  BY <1>1, <1>2, HeadAndTail
<1>3. CASE i # 1
  <2>1. i - 1 \in 1..Len(Tail(s)) /\ Tail(s)[i - 1] = s[(i - 1) + 1] /\ (i - 1) + 1 = i
    BY <1>1, <1>3, HeadAndTail
  <2> QED
    BY <1>1, <2>1 DEF In
<1> QED
  BY <1>2, <1>3

\* The head of a sorted list is less than what follows it, which is sorted.
LEMMA SortedTail ==
  ASSUME NEW s \in Seq(Names), s # <<>>, Sorted(s)
  PROVE  /\ Sorted(Tail(s))
         /\ \A i \in 1..Len(Tail(s)) : Plain[Head(s)] < Plain[Tail(s)[i]]
PROOF
<1> DEFINE t == Tail(s)
<1>1. /\ Len(s) \in Nat /\ 1 \in 1..Len(s) /\ Head(s) = s[1]
      /\ Len(t) = Len(s) - 1
      /\ \A i \in 1..Len(t) : i + 1 \in 1..Len(s) /\ t[i] = s[i + 1]
  BY HeadAndTail
<1>2. \A i \in 1..Len(t) : Plain[Head(s)] < Plain[t[i]]
  <2> TAKE i \in 1..Len(t)
  <2>1. 1 < i + 1 /\ i + 1 \in 1..Len(s) /\ t[i] = s[i + 1]
    BY <1>1
  <2> HIDE DEF t
  <2> QED
    BY <1>1, <2>1 DEF Sorted
<1>3. Sorted(t)
  <2> SUFFICES ASSUME NEW i \in 1..Len(t), NEW j \in 1..Len(t), i < j
               PROVE  Plain[t[i]] < Plain[t[j]]
    BY DEF Sorted
  <2>1. /\ i + 1 < j + 1 /\ i + 1 \in 1..Len(s) /\ j + 1 \in 1..Len(s)
        /\ t[i] = s[i + 1] /\ t[j] = s[j + 1]
    BY <1>1
  <2> HIDE DEF t
  <2> QED
    BY <2>1 DEF Sorted
<1> QED
  BY <1>2, <1>3

\* A list to which an element is added.
LEMMA OneAdded ==
  ASSUME NEW S, NEW s \in Seq(S), NEW e \in S
  PROVE  /\ Append(s, e) \in Seq(S) /\ Len(Append(s, e)) = Len(s) + 1
         /\ Len(s) \in Nat /\ Len(s) + 1 \in 1..Len(Append(s, e))
         /\ \A i \in 1..Len(s) : i \in 1..Len(Append(s, e)) /\ Append(s, e)[i] = s[i]
         /\ Append(s, e)[Len(s) + 1] = e
         /\ \A i \in 1..Len(Append(s, e)) : i \in 1..Len(s) \/ i = Len(s) + 1
  OBVIOUS

\* The listing of an object storage has each bucket once, in order.
LEMMA S3Listing ==
  ASSUME NEW S, S \subseteq Names, NEW s \in S3Buckets(S)
  PROVE  /\ s \in Seq(S) /\ Sorted(s)
         /\ \A n \in S : In(s, n)
PROOF
<1>1. IsFiniteSet(S) /\ Cardinality(S) \in Nat
  BY BucketSyncAssumption, FS_Subset, FS_CardinalityType
<1>2. /\ s \in [1..Cardinality(S) -> S]
      /\ \A n \in S : \E i \in DOMAIN s : s[i] = n
      /\ \A i, j \in DOMAIN s : i < j => Plain[s[i]] < Plain[s[j]]
  BY DEF S3Buckets
<1>3. s \in Seq(S) /\ DOMAIN s = 1..Len(s)
  BY <1>1, <1>2
<1> QED
  BY <1>2, <1>3 DEF In, Sorted

\* What a difference that is told adds to the channel.
LEMMA TellAdds ==
  ASSUME BsBody, NEW diff \in {"differInFirst", "differInSecond"},
         NEW name \in Names, Tell(diff, name)
  PROVE  /\ diffCh' \in Seq(Diff)
         /\ \A i \in 1..Len(diffCh') :
              \/ i \in 1..Len(diffCh) /\ diffCh'[i] = diffCh[i]
              \/ diffCh'[i].diff = diff /\ diffCh'[i].name = name
         /\ \A d, n : Said(d, n) => Said(d, n)'
         /\ Said(diff, name)'
PROOF
<1> DEFINE e == [diff |-> diff, name |-> name]
<1>1. e \in Diff /\ e.diff = diff /\ e.name = name /\ diffCh \in Seq(Diff)
  BY DEF Diff, BsBody, BsTypes
<1>2. diffCh' = Append(diffCh, e)
  BY DEF Tell
<1> HIDE DEF e
<1>3. /\ diffCh' \in Seq(Diff) /\ Len(diffCh') = Len(diffCh) + 1
      /\ Len(diffCh) \in Nat /\ Len(diffCh) + 1 \in 1..Len(diffCh')
      /\ \A i \in 1..Len(diffCh) : i \in 1..Len(diffCh') /\ diffCh'[i] = diffCh[i]
      /\ diffCh'[Len(diffCh) + 1] = e
      /\ \A i \in 1..Len(diffCh') : i \in 1..Len(diffCh) \/ i = Len(diffCh) + 1
  BY <1>1, <1>2, OneAdded
<1> QED
  BY <1>1, <1>3 DEF Said

\* What the loop leaves in the channel when it receives a difference.
LEMMA ReceiveTakes ==
  ASSUME BsBody, diffCh # <<>>, diffCh' = Tail(diffCh)
  PROVE  /\ diffCh' \in Seq(Diff) /\ Head(diffCh) \in Diff
         /\ Len(diffCh) \in Nat /\ 1 \in 1..Len(diffCh) /\ Head(diffCh) = diffCh[1]
         /\ \A i \in 1..Len(diffCh') : i + 1 \in 1..Len(diffCh) /\ diffCh'[i] = diffCh[i + 1]
         /\ \A d, n : Said(d, n) =>
              \/ Head(diffCh).diff = d /\ Head(diffCh).name = n
              \/ Said(d, n)'
PROOF
<1>1. diffCh \in Seq(Diff)
  BY DEF BsBody, BsTypes
<1>2. /\ diffCh' \in Seq(Diff) /\ Len(diffCh) \in Nat /\ 1 \in 1..Len(diffCh)
      /\ Head(diffCh) = diffCh[1] /\ diffCh[1] \in Diff /\ Len(diffCh') = Len(diffCh) - 1
      /\ \A i \in 1..Len(diffCh') : i + 1 \in 1..Len(diffCh) /\ diffCh'[i] = diffCh[i + 1]
  BY <1>1, HeadAndTail
<1>3. ASSUME NEW d, NEW n, Said(d, n)
      PROVE  (Head(diffCh).diff = d /\ Head(diffCh).name = n) \/ Said(d, n)'
  <2>1. PICK i \in 1..Len(diffCh) : diffCh[i].diff = d /\ diffCh[i].name = n
    BY <1>3 DEF Said
  <2>2. CASE i = 1
    BY <1>2, <2>1, <2>2
  <2>3. CASE i # 1
    <3>1. i - 1 \in 1..Len(diffCh') /\ diffCh'[i - 1] = diffCh[(i - 1) + 1] /\ (i - 1) + 1 = i
      BY <1>2, <2>1, <2>3
    <3> QED
      BY <2>1, <3>1 DEF Said
  <2> QED
    BY <2>2, <2>3
<1> QED
  BY <1>2, <1>3

\* A name in the listing of the target is less than every name the source still
\* has to send only if the source does not have it.
LEMMA SecondIsForeign ==
  ASSUME BsBody, ~cancelled, listing = "on", dstList # <<>>,
         srcList # <<>> => Plain[Head(dstList)] < Plain[Head(srcList)]
  PROVE  Head(dstList) \notin source
PROOF
<1>1. /\ srcList \in Seq(source) /\ dstList \in Seq(Names) /\ source \subseteq Names
      /\ Sorted(srcList)
  BY DEF BsBody, BsTypes, BsSorted
<1>2. Head(dstList) = dstList[1] /\ 1 \in 1..Len(dstList) /\ dstList[1] \in Names
  BY <1>1, HeadAndTail
<1>3. \A n \in Names : Plain[n] \in Nat
  BY BucketSyncAssumption
<1> SUFFICES ASSUME Head(dstList) \in source PROVE FALSE
  OBVIOUS
<1>4. In(srcList, Head(dstList))
  BY <1>2, <1>3 DEF BsBody, BsMerge
<1>5. PICK i \in 1..Len(srcList) : srcList[i] = Head(dstList)
  BY <1>4 DEF In
<1>6. srcList # <<>>
  BY <1>5, EmptySeq
<1>7. Head(srcList) = srcList[1] /\ 1 \in 1..Len(srcList) /\ srcList[1] \in Names
  BY <1>1, <1>6, HeadAndTail
<1>8. i = 1 \/ Plain[srcList[1]] < Plain[srcList[i]]
  BY <1>1, <1>7 DEF Sorted
<1> QED
  BY <1>2, <1>3, <1>5, <1>6, <1>7, <1>8

\* The actions that end, interrupt or abort a listing.
LEMMA StopSteps ==
  ASSUME srcKind = "s3", Writes, BsBody
  PROVE  /\ Cancel => BsBody'
         /\ StopSource => BsBody'
         /\ StopTarget => BsBody'
         /\ MergeEnds => BsBody'
         /\ \A known \in BOOLEAN : MergeFails(known) => BsBody'
PROOF
<1>0. Sorted(<<>>)
  BY DEF Sorted
<1>1. ASSUME Cancel PROVE BsBody'
  BY <1>1
     DEF BsBody, BsTypes, BsTarget, BsListed, BsDiffs, BsWork, BsSorted, BsMerge,
         BsToRemove, BsToMake, BsEnded, Said, Cancel, env, lists
<1>2. ASSUME StopSource PROVE BsBody'
  BY <1>0, <1>2
     DEF BsBody, BsTypes, BsTarget, BsListed, BsDiffs, BsWork, BsSorted, BsMerge,
         BsToRemove, BsToMake, BsEnded, Said, StopSource, env
<1>3. ASSUME StopTarget PROVE BsBody'
  BY <1>0, <1>3
     DEF BsBody, BsTypes, BsTarget, BsListed, BsDiffs, BsWork, BsSorted, BsMerge,
         BsToRemove, BsToMake, BsEnded, Said, StopTarget, env
<1>4. ASSUME MergeEnds PROVE BsBody'
  BY <1>4
     DEF BsBody, BsTypes, BsTarget, BsListed, BsDiffs, BsWork, BsSorted, BsMerge,
         BsToRemove, BsToMake, BsEnded, Said, MergeEnds, env, sourceListingOnly
<1>5. ASSUME NEW known \in BOOLEAN, MergeFails(known) PROVE BsBody'
  <2> DEFINE e == [diff |-> "error", name |-> NoName]
  <2>1. e \in Diff /\ e.diff = "error" /\ diffCh \in Seq(Diff)
    BY DEF Diff, BsBody, BsTypes
  <2>2. diffCh' = diffCh \/ diffCh' = Append(diffCh, e)
    BY <1>5 DEF MergeFails
  <2> HIDE DEF e
  <2>3. /\ diffCh' \in Seq(Diff)
        /\ \A i \in 1..Len(diffCh') :
             \/ i \in 1..Len(diffCh) /\ diffCh'[i] = diffCh[i]
             \/ diffCh'[i].diff = "error"
    BY <2>1, <2>2, OneAdded
  <2>4. listing' = "aborted" /\ phase # "mirror"
    BY <1>5 DEF MergeFails, Running
  <2> QED
    BY <1>5, <2>3, <2>4
       DEF BsBody, BsTypes, BsTarget, BsListed, BsDiffs, BsWork, BsSorted, BsMerge,
           BsToRemove, BsToMake, BsEnded, MergeFails, env
<1> QED
  BY <1>1, <1>2, <1>3, <1>4, <1>5

\* What the comparison leaves alone.
LEMMA MergeKeeps ==
  ASSUME BsBody, listing = "on", phase # "mirror",
         UNCHANGED <<env, dst, listing, phase, cur, cancelled, reported>>
  PROVE  BsTarget' /\ BsWork' /\ BsEnded'
PROOF
  BY DEF BsBody, BsTarget, BsWork, BsEnded, env

\* The comparison finds a bucket of the source only.
LEMMA MergeFirstStep ==
  ASSUME srcKind = "s3", Writes, BsBody, MergeFirst
  PROVE  BsBody'
PROOF
<1> PICK h : h = Head(srcList)
  OBVIOUS
<1>1. /\ srcList \in Seq(source) /\ dstList \in Seq(Names) /\ source \subseteq Names
      /\ srcList # <<>> /\ Sorted(srcList) /\ srcList' = Tail(srcList)
      /\ srcList \in Seq(Names)
  BY SeqMonotonic DEF BsBody, BsTypes, BsSorted, MergeFirst
<1>2. h \in source /\ srcList' \in Seq(source)
  BY <1>1, HeadAndTail
<1>3. /\ diffCh' \in Seq(Diff)
      /\ \A i \in 1..Len(diffCh') :
           \/ i \in 1..Len(diffCh) /\ diffCh'[i] = diffCh[i]
           \/ diffCh'[i].diff = "differInFirst" /\ diffCh'[i].name = h
      /\ \A d, n : Said(d, n) => Said(d, n)'
      /\ Said("differInFirst", h)'
  BY <1>1, <1>2, TellAdds DEF MergeFirst
<1>4. Sorted(srcList')
  BY <1>1, SortedTail
<1>5. \A n : In(srcList, n) => n = h \/ In(srcList', n)
  BY <1>1, InTail
<1>6. \A i \in 1..Len(dstList) : Plain[h] < Plain[dstList[i]]
  <2> SUFFICES ASSUME NEW i \in 1..Len(dstList)
               PROVE  Plain[h] < Plain[dstList[i]]
    OBVIOUS
  <2>1. dstList # <<>>
    BY EmptySeq
  <2>2. Head(dstList) = dstList[1] /\ 1 \in 1..Len(dstList)
    BY <1>1, <2>1, HeadAndTail
  <2>3. Plain[h] < Plain[dstList[1]]
    BY <2>1, <2>2 DEF MergeFirst
  <2>4. i = 1 \/ Plain[dstList[1]] < Plain[dstList[i]]
    BY <1>1, <2>2 DEF BsBody, BsSorted, Sorted
  <2>5. Plain[h] \in Nat /\ Plain[dstList[1]] \in Nat /\ Plain[dstList[i]] \in Nat
    BY <1>1, <1>2, <2>2, BucketSyncAssumption
  <2> QED
    BY <2>3, <2>4, <2>5
<1>7. BsTypes' /\ BsListed' /\ BsSorted'
  BY <1>2, <1>3, <1>4
     DEF BsBody, BsTypes, BsListed, BsSorted, MergeFirst, env
<1>8. BsTarget' /\ BsWork' /\ BsEnded'
  BY MergeKeeps DEF MergeFirst, Running
<1>9. BsDiffs'
  BY <1>2, <1>3 DEF BsBody, BsDiffs, MergeFirst, env
<1>10. BsMerge'
  BY <1>5, <1>6 DEF BsBody, BsMerge, MergeFirst, env
<1>11. BsToRemove' /\ BsToMake'
  BY <1>3, <1>5
     DEF BsBody, BsToRemove, BsToMake, MergeFirst, env
<1> QED
  BY <1>7, <1>8, <1>9, <1>10, <1>11 DEF BsBody

\* The comparison finds a bucket of the target only.
LEMMA MergeSecondStep ==
  ASSUME srcKind = "s3", Writes, BsBody, MergeSecond
  PROVE  BsBody'
PROOF
<1> PICK h : h = Head(dstList)
  OBVIOUS
<1>1. /\ dstList \in Seq(Names) /\ dstList # <<>> /\ Sorted(dstList)
      /\ dstList' = Tail(dstList)
  BY DEF BsBody, BsTypes, BsSorted, MergeSecond
<1>2. /\ h = dstList[1] /\ 1 \in 1..Len(dstList) /\ h \in Names
      /\ dstList' \in Seq(Names)
      /\ \A i \in 1..Len(dstList') : i + 1 \in 1..Len(dstList) /\ dstList'[i] = dstList[i + 1]
  BY <1>1, HeadAndTail
<1>3. /\ diffCh' \in Seq(Diff)
      /\ \A i \in 1..Len(diffCh') :
           \/ i \in 1..Len(diffCh) /\ diffCh'[i] = diffCh[i]
           \/ diffCh'[i].diff = "differInSecond" /\ diffCh'[i].name = h
      /\ \A d, n : Said(d, n) => Said(d, n)'
      /\ Said("differInSecond", h)'
  BY <1>1, <1>2, TellAdds DEF MergeSecond
<1>4. Sorted(dstList')
  BY <1>1, SortedTail
<1>5. \A n : In(dstList, n) => n = h \/ In(dstList', n)
  BY <1>1, InTail
<1>6. h \in before \cup source
  BY <1>2 DEF BsBody, BsListed, BsTarget
<1>7. cancelled \/ h \notin source
  BY <1>1, SecondIsForeign DEF MergeSecond
<1>8. BsTypes' /\ BsListed' /\ BsSorted'
  BY <1>2, <1>3, <1>4
     DEF BsBody, BsTypes, BsListed, BsSorted, MergeSecond, env
<1>9. BsTarget' /\ BsWork' /\ BsEnded'
  BY MergeKeeps DEF MergeSecond, Running
<1>10. BsDiffs'
  BY <1>3, <1>6, <1>7 DEF BsBody, BsDiffs, MergeSecond, env
<1>11. BsMerge'
  BY <1>2 DEF BsBody, BsMerge, MergeSecond, env
<1>12. BsToRemove' /\ BsToMake'
  BY <1>3, <1>5
     DEF BsBody, BsToRemove, BsToMake, MergeSecond, env
<1> QED
  BY <1>8, <1>9, <1>10, <1>11, <1>12 DEF BsBody

\* The comparison finds a bucket on both sides.
LEMMA MergeEqualStep ==
  ASSUME srcKind = "s3", Writes, BsBody, MergeEqual
  PROVE  BsBody'
PROOF
<1> PICK h : h = Head(srcList)
  OBVIOUS
<1>1. /\ srcList \in Seq(source) /\ dstList \in Seq(Names) /\ source \subseteq Names
      /\ srcList \in Seq(Names) /\ Sorted(srcList) /\ Sorted(dstList)
      /\ srcList # <<>> /\ dstList # <<>> /\ h = Head(dstList)
      /\ srcList' = Tail(srcList) /\ dstList' = Tail(dstList)
  BY SeqMonotonic DEF BsBody, BsTypes, BsSorted, MergeEqual
<1>2. h \in source /\ srcList' \in Seq(source)
  BY <1>1, HeadAndTail
<1>3. /\ h = dstList[1] /\ 1 \in 1..Len(dstList) /\ dstList' \in Seq(Names)
      /\ \A i \in 1..Len(dstList') : i + 1 \in 1..Len(dstList) /\ dstList'[i] = dstList[i + 1]
  BY <1>1, HeadAndTail
<1>4. Sorted(srcList') /\ Sorted(dstList')
  BY <1>1, SortedTail
<1>5. \A i \in 1..Len(dstList') : Plain[h] < Plain[dstList'[i]]
  BY <1>1, SortedTail
<1>6. /\ \A n : In(srcList, n) => n = h \/ In(srcList', n)
      /\ \A n : In(dstList, n) => n = h \/ In(dstList', n)
  BY <1>1, InTail
<1>7. BsTypes' /\ BsListed' /\ BsSorted'
  BY <1>2, <1>3, <1>4
     DEF BsBody, BsTypes, BsListed, BsSorted, MergeEqual, env
<1>8. BsTarget' /\ BsWork' /\ BsEnded'
  BY MergeKeeps DEF MergeEqual, Running
<1>9. BsDiffs'
  BY DEF BsBody, BsDiffs, MergeEqual, env
<1>10. BsMerge'
  BY <1>3, <1>5, <1>6 DEF BsBody, BsMerge, MergeEqual, env
<1>11. \A d, n : Said(d, n) => Said(d, n)'
  BY DEF Said, MergeEqual
<1>12. BsToRemove'
  BY <1>2, <1>6, <1>11 DEF BsBody, BsToRemove, MergeEqual, env
<1>13. h \in before \/ dst[h] = "new"
  BY <1>3 DEF BsBody, BsListed
<1>14. BsToMake'
  BY <1>6, <1>11, <1>13 DEF BsBody, BsToMake, MergeEqual, env
<1> QED
  BY <1>7, <1>8, <1>9, <1>10, <1>12, <1>14 DEF BsBody

\* The loop of runMirror hears of a difference.
LEMMA ReceiveSteps ==
  ASSUME srcKind = "s3", Writes, BsBody
  PROVE  /\ ReceiveError => BsBody'
         /\ ReceiveSecond => BsBody'
         /\ ReceiveFirst => BsBody'
PROOF
<1> SUFFICES ASSUME phase = "next", diffCh # <<>>, diffCh' = Tail(diffCh),
                    UNCHANGED <<env, dst, lists, cancelled, reported>>
             PROVE  /\ ReceiveError => BsBody'
                    /\ ReceiveSecond => BsBody'
                    /\ ReceiveFirst => BsBody'
  BY DEF ReceiveError, ReceiveSecond, ReceiveFirst, Receive
<1> PICK d : d = Head(diffCh)
  OBVIOUS
<1>1. /\ diffCh' \in Seq(Diff) /\ d \in Diff /\ 1 \in 1..Len(diffCh) /\ d = diffCh[1]
      /\ \A i \in 1..Len(diffCh') : i + 1 \in 1..Len(diffCh) /\ diffCh'[i] = diffCh[i + 1]
      /\ \A x, n : Said(x, n) => (d.diff = x /\ d.name = n) \/ Said(x, n)'
  BY ReceiveTakes
<1>2. /\ d.diff = "differInFirst" => d.name \in source
      /\ d.diff = "differInSecond" =>
           /\ d.name \in before \cup source
           /\ cancelled \/ d.name \notin source
  BY <1>1 DEF BsBody, BsDiffs
<1>3. BsDiffs' /\ BsTarget' /\ BsListed' /\ BsSorted' /\ BsMerge' /\ BsEnded'
  <2>1. BsDiffs'
    BY <1>1 DEF BsBody, BsDiffs, env
  <2> QED
    BY <2>1 DEF BsBody, BsTarget, BsListed, BsSorted, BsMerge, BsEnded,
           sourceListingOnly, env, lists
<1>4. ASSUME ReceiveError PROVE BsBody'
  <2>1. d.diff = "error" /\ cur' = cur /\ phase' \in {"retry", "fatal"}
    BY <1>4 DEF ReceiveError, Receive
  <2>2. BsTypes' /\ BsWork'
    BY <1>1, <2>1 DEF BsBody, BsTypes, BsWork, env, lists
  <2>3. BsToRemove' /\ BsToMake'
    BY <1>1, <2>1 DEF BsBody, BsToRemove, BsToMake, env, lists
  <2> QED
    BY <1>3, <2>2, <2>3 DEF BsBody
<1>5. ASSUME ReceiveSecond PROVE BsBody'
  <2>1. d.diff = "differInSecond" /\ d.name \in Names \cup {NoName}
    BY <1>1, <1>5 DEF ReceiveSecond, Receive, Diff
  <2>2. IF opts.isRemove THEN phase' = "empty" /\ cur' = d.name
        ELSE phase' = "next" /\ cur' = cur
    BY <1>5 DEF ReceiveSecond, Writes
  <2>3. BsTypes' /\ BsWork'
    BY <1>1, <1>2, <2>1, <2>2 DEF BsBody, BsTypes, BsWork, env, lists
  <2>4. BsToRemove' /\ BsToMake'
    BY <1>1, <2>1, <2>2 DEF BsBody, BsToRemove, BsToMake, env, lists
  <2> QED
    BY <1>3, <2>3, <2>4 DEF BsBody
<1>6. ASSUME ReceiveFirst PROVE BsBody'
  <2>1. d.diff = "differInFirst" /\ d.name \in Names \cup {NoName}
    BY <1>1, <1>6 DEF ReceiveFirst, Receive, Diff
  <2>2. IF d.name \notin Excluded THEN phase' = "make" /\ cur' = d.name
        ELSE phase' = "next" /\ cur' = cur
    BY <1>6 DEF ReceiveFirst, Writes
  <2>3. BsTypes' /\ BsWork'
    BY <1>1, <1>2, <2>1, <2>2 DEF BsBody, BsTypes, BsWork, env, lists
  <2>4. BsToRemove' /\ BsToMake'
    BY <1>1, <2>1, <2>2 DEF BsBody, BsToRemove, BsToMake, env, lists
  <2> QED
    BY <1>3, <2>3, <2>4 DEF BsBody
<1> QED
  BY <1>4, <1>5, <1>6

\* The steps that change the target, or try to.
LEMMA WorkSteps ==
  ASSUME srcKind = "s3", Writes, BsBody, NEW ok \in BOOLEAN
  PROVE  /\ EmptyBucket(ok) => BsBody'
         /\ EmptyNothing(ok) => BsBody'
         /\ RemoveBucket(ok) => BsBody'
         /\ MakeBucket(ok) => BsBody'
         /\ LockConfig(ok) => BsBody'
         /\ BucketsDone => BsBody'
PROOF
<1>0. /\ \A n \in Names : dst[n] \in States
      /\ "emptied" \in States /\ "absent" \in States /\ "new" \in States
  BY DEF BsBody, BsTypes, States
<1>1. ASSUME EmptyBucket(ok) PROVE BsBody'
  <2>1. /\ cur \in before \ source /\ opts.isRemove /\ cur \in Names
        /\ dst' = [dst EXCEPT ![cur] = "emptied"]
        /\ phase' \in {"remove", "fatal"} /\ ~cancelled
    BY <1>1 DEF BsBody, BsWork, BsTypes, EmptyBucket
  <2>2. BsTypes' /\ BsWork' /\ BsSorted' /\ BsMerge' /\ BsEnded' /\ BsDiffs'
    <3>1. BsTypes' /\ BsWork'
      BY <1>0, <1>1, <2>1 DEF BsBody, BsTypes, BsWork, EmptyBucket, env, lists
    <3>2. BsSorted' /\ BsMerge' /\ BsEnded' /\ BsDiffs'
      BY <1>1, <2>1
         DEF BsBody, BsSorted, BsMerge, BsEnded, BsDiffs, sourceListingOnly, EmptyBucket, env, lists
    <3> QED
      BY <3>1, <3>2
  <2>3. BsTarget' /\ BsListed'
    BY <1>1, <2>1 DEF BsBody, BsTypes, BsTarget, BsListed, EmptyBucket, env, lists
  <2>4. BsToRemove' /\ BsToMake'
    BY <1>1, <2>1
       DEF BsBody, BsTypes, BsToRemove, BsToMake, Said, EmptyBucket, env, lists
  <2> QED
    BY <2>2, <2>3, <2>4 DEF BsBody
<1>2. ASSUME EmptyNothing(ok) PROVE BsBody'
  BY <1>2
     DEF BsBody, BsTypes, BsTarget, BsListed, BsDiffs, BsWork, BsSorted, BsMerge,
         BsToRemove, BsToMake, BsEnded, EmptyNothing, env, lists
<1>3. ASSUME RemoveBucket(ok) PROVE BsBody'
  <2>1. /\ ok => cur \in before \ source
        /\ opts.isRemove /\ cur \in Names
        /\ dst' = [dst EXCEPT ![cur] = IF ok THEN "absent" ELSE @]
        /\ phase' \in {"next", "fatal"}
    BY <1>3 DEF BsBody, BsWork, BsTypes, RemoveBucket
  <2>2. BsTypes' /\ BsWork' /\ BsSorted' /\ BsMerge' /\ BsEnded' /\ BsDiffs'
    <3>1. BsTypes' /\ BsWork'
      BY <1>0, <1>3, <2>1 DEF BsBody, BsTypes, BsWork, RemoveBucket, env, lists
    <3>2. BsSorted' /\ BsMerge' /\ BsEnded' /\ BsDiffs'
      BY <1>3, <2>1
         DEF BsBody, BsSorted, BsMerge, BsEnded, BsDiffs, sourceListingOnly, RemoveBucket, env, lists
    <3> QED
      BY <3>1, <3>2
  <2>3. BsTarget' /\ BsListed'
    BY <1>3, <2>1 DEF BsBody, BsTypes, BsTarget, BsListed, RemoveBucket, env, lists
  <2>4. BsToRemove' /\ BsToMake'
    BY <1>3, <2>1
       DEF BsBody, BsTypes, BsToRemove, BsToMake, Said, RemoveBucket, env, lists
  <2> QED
    BY <2>2, <2>3, <2>4 DEF BsBody
<1>4. ASSUME MakeBucket(ok) PROVE BsBody'
  <2>1. /\ cur \in source \ Excluded /\ cur \in Names
        /\ ok => dst[cur] = "absent"
        /\ dst' = [dst EXCEPT ![cur] = IF ok THEN "new" ELSE @]
        /\ phase' \in {"next", "lock"}
        /\ reported' = IF ok THEN reported ELSE reported \cup {cur}
    BY <1>4 DEF BsBody, BsWork, BsTypes, MakeBucket
  <2>2. BsTypes' /\ BsWork' /\ BsSorted' /\ BsMerge' /\ BsEnded' /\ BsDiffs'
    <3>1. BsTypes' /\ BsWork'
      BY <1>0, <1>4, <2>1 DEF BsBody, BsTypes, BsWork, MakeBucket, env, lists
    <3>2. BsSorted' /\ BsMerge' /\ BsEnded' /\ BsDiffs'
      BY <1>4, <2>1
         DEF BsBody, BsSorted, BsMerge, BsEnded, BsDiffs, sourceListingOnly, MakeBucket, env, lists
    <3> QED
      BY <3>1, <3>2
  <2>3. ok => cur \notin before
    BY <2>1 DEF BsBody, BsTarget
  <2>4. BsTarget' /\ BsListed'
    BY <1>4, <2>1, <2>3 DEF BsBody, BsTypes, BsTarget, BsListed, MakeBucket, env, lists
  <2>5. BsToRemove' /\ BsToMake'
    BY <1>4, <2>1, <2>3
       DEF BsBody, BsTypes, BsToRemove, BsToMake, Said, MakeBucket, env, lists
  <2> QED
    BY <2>2, <2>4, <2>5 DEF BsBody
<1>5. ASSUME LockConfig(ok) \/ BucketsDone PROVE BsBody'
  <2>1. /\ phase \in {"lock", "next"} /\ phase' \in {"retry", "next", "mirror"}
        /\ phase' = "mirror" => diffCh = <<>>
        /\ UNCHANGED <<env, dst, lists, diffCh, cur, cancelled, reported>>
    BY <1>5 DEF LockConfig, BucketsDone
  <2>2. BsTypes' /\ BsTarget' /\ BsListed' /\ BsDiffs' /\ BsWork'
    BY <2>1 DEF BsBody, BsTypes, BsTarget, BsListed, BsDiffs, BsWork, env, lists
  <2>3. BsSorted' /\ BsMerge' /\ BsEnded'
    BY <2>1 DEF BsBody, BsSorted, BsMerge, BsEnded, sourceListingOnly, env, lists
  <2>4. BsToRemove' /\ BsToMake'
    BY <2>1 DEF BsBody, BsToRemove, BsToMake, Said, env, lists
  <2> QED
    BY <2>2, <2>3, <2>4 DEF BsBody
<1> QED
  BY <1>1, <1>2, <1>3, <1>4, <1>5

\* The listings with which a run of the mirror begins.
LEMMA RunBegins ==
  ASSUME BsTypes', BsTarget',
         srcList' \in S3Buckets(source'),
         dstList' \in S3Buckets({n \in Names : dst'[n] # "absent"}),
         listing' \in {"on", "failed"}, diffCh' = <<>>, phase' = "next"
  PROVE  BsBody'
PROOF
<1> DEFINE D == {n \in Names : dst'[n] # "absent"}
<1>1. D \subseteq Names /\ source' \subseteq Names
  BY DEF BsTypes
<1>2. Sorted(srcList') /\ \A n \in source' : In(srcList', n)
  BY <1>1, S3Listing
<1>3. dstList' \in Seq(D) /\ Sorted(dstList') /\ \A n \in D : In(dstList', n)
  BY <1>1, S3Listing
<1>4. \A i \in 1..Len(dstList') : dstList'[i] \in D
  BY <1>3
<1>5. BsListed' /\ BsSorted' /\ BsDiffs' /\ BsWork'
  BY <1>2, <1>3, <1>4 DEF BsListed, BsSorted, BsDiffs, BsWork, BsTarget
<1>6. BsMerge' /\ BsToMake'
  BY <1>2 DEF BsMerge, BsToMake
<1>7. BsToRemove'
  BY <1>3 DEF BsToRemove, BsTypes
<1>8. BsEnded'
  BY DEF BsEnded
<1> QED
  BY <1>5, <1>6, <1>7, <1>8 DEF BsBody

\* Init with a target of an object storage: the first run begins.
LEMMA InitialBuckets ==
  ASSUME Init PROVE BsIInv
PROOF
<1>1. ASSUME ~Writes PROVE BsIdle
  BY DEF Init, BsIdle
<1>2. ASSUME srcKind = "s3", Writes PROVE BsBody
  <2> DEFINE D == {n \in Names : dst[n] # "absent"}
  <2>1. /\ source \subseteq Names /\ before \subseteq Names
        /\ dst = [n \in Names |-> IF n \in before THEN "whole" ELSE "absent"]
        /\ diffCh = <<>> /\ phase = "next" /\ cur = NoName /\ opts \in Options
    BY DEF Init
  <2>2. D = before
    BY <2>1
  <2>3. srcList \in S3Buckets(source) /\ dstList \in S3Buckets(before)
    BY <1>2 DEF Init, Listings, dstKind, Writes
  <2>4. /\ srcList \in Seq(source) /\ Sorted(srcList) /\ \A n \in source : In(srcList, n)
        /\ dstList \in Seq(before) /\ Sorted(dstList) /\ \A n \in before : In(dstList, n)
    BY <2>1, <2>3, S3Listing
  <2>5. BsTypes
    <3>1. dst \in [Names -> States]
      BY <2>1 DEF States
    <3>2. dstList \in Seq(Names)
      BY <2>1, <2>4, SeqMonotonic
    <3> QED
      BY <2>1, <2>4, <3>1, <3>2 DEF BsTypes
  <2>6. BsTarget /\ BsDiffs /\ BsWork /\ BsSorted
    BY <2>1, <2>4 DEF BsTarget, BsDiffs, BsWork, BsSorted
  <2>7. BsListed
    <3>1. \A i \in 1..Len(dstList) : dstList[i] \in before
      BY <2>4
    <3> QED
      BY <3>1 DEF BsListed
  <2>8. BsMerge /\ BsToRemove /\ BsToMake
    BY <2>4 DEF BsMerge, BsToRemove, BsToMake
  <2>9. BsEnded
    BY DEF Init, BsEnded
  <2> QED
    BY <2>5, <2>6, <2>7, <2>8, <2>9 DEF BsBody
<1> QED
  BY <1>1, <1>2 DEF BsIInv

\* A run of the mirror with --watch or after an error begins again.
LEMMA RestartStep ==
  ASSUME srcKind = "s3", Writes, BsBody, Restart
  PROVE  BsBody'
PROOF
<1> DEFINE D == {n \in Names : dst[n] # "absent"}
<1>1. /\ source \subseteq Names /\ D \subseteq Names /\ UNCHANGED <<env, dst>>
      /\ D = {n \in Names : dst'[n] # "absent"} /\ source' = source
  BY DEF BsBody, BsTypes, Restart, env
<1>2. srcList' \in S3Buckets(source) /\ dstList' \in S3Buckets(D)
  BY DEF Restart, Listings, dstKind, Writes
<1>3. srcList' \in Seq(source) /\ dstList' \in Seq(Names)
  BY <1>1, <1>2, S3Listing, SeqMonotonic
<1>4. diffCh' = <<>> /\ diffCh' \in Seq(Diff)
  BY DEF Restart
<1>5. BsTypes'
  BY <1>1, <1>3, <1>4 DEF BsBody, BsTypes, Restart, env
<1>6. BsTarget'
  BY <1>1 DEF BsBody, BsTarget, env
<1>7. listing' \in {"on", "failed"} /\ phase' = "next"
  BY DEF Restart
<1> QED
  BY <1>1, <1>2, <1>4, <1>5, <1>6, <1>7, RunBegins

\* Every step keeps the invariant.
LEMMA BucketStep ==
  ASSUME BsIInv, [Next]_vars PROVE BsIInv'
PROOF
<1>1. UNCHANGED env
  BY DEF Next, Merge, Loop, Finished, vars, env, Cancel, StopSource, StopTarget, MergeEnds,
         MergeFirst, MergeSecond, MergeEqual, MergeFails, ReceiveError, ReceiveSecond,
         ReceiveFirst, Receive, EmptyBucket, EmptyNothing, RemoveBucket, MakeBucket,
         LockConfig, BucketsDone, Restart
<1>2. Writes' = Writes /\ srcKind' = srcKind
  BY <1>1 DEF env, Writes
<1>3. ASSUME ~Writes PROVE BsIdle'
  <2>1. BsIdle
    BY <1>3 DEF BsIInv
  <2>2. UNCHANGED dst /\ phase' \notin {"empty", "remove", "make"}
    BY <1>3, <2>1
       DEF BsIdle, Writes, Next, Merge, Loop, Finished, vars, env, Cancel, StopSource,
           StopTarget, MergeEnds, MergeFirst, MergeSecond, MergeEqual, MergeFails,
           ReceiveError, ReceiveSecond, ReceiveFirst, Receive, EmptyBucket, EmptyNothing,
           RemoveBucket, MakeBucket, LockConfig, BucketsDone, Restart
  <2> QED
    BY <1>1, <2>1, <2>2 DEF BsIdle, env
<1>4. ASSUME srcKind = "s3", Writes PROVE BsBody'
  <2>1. BsBody
    BY <1>4 DEF BsIInv
  <2>2. CASE Cancel \/ Merge
    BY <1>4, <2>1, <2>2, StopSteps, MergeFirstStep, MergeSecondStep, MergeEqualStep
       DEF Merge
  <2>3. CASE Loop
    <3>1. CASE \E ok \in BOOLEAN : EmptyBucket(ok) \/ EmptyNothing(ok) \/ RemoveBucket(ok)
                                  \/ MakeBucket(ok) \/ LockConfig(ok)
      BY <1>4, <2>1, <3>1, WorkSteps
    <3>2. CASE BucketsDone
      <4>1. TRUE \in BOOLEAN
        OBVIOUS
      <4> QED
        BY <1>4, <2>1, <3>2, <4>1, WorkSteps
    <3>3. CASE ReceiveError \/ ReceiveSecond \/ ReceiveFirst \/ Restart
      BY <1>4, <2>1, <3>3, ReceiveSteps, RestartStep
    <3> QED
      BY <2>3, <3>1, <3>2, <3>3 DEF Loop
  <2>4. CASE UNCHANGED vars
    BY <2>1, <2>4
       DEF vars, env, lists, BsBody, BsTypes, BsTarget, BsListed, BsDiffs, BsWork, BsSorted,
           BsMerge, BsToRemove, BsToMake, BsEnded, Said, sourceListingOnly
  <2> QED
    BY <2>2, <2>3, <2>4 DEF Next, Finished
<1> QED
  BY <1>2, <1>3, <1>4 DEF BsIInv

\* A mirror (runMirror) from object storage never empties or removes a bucket
\* that is on both sides, whatever of the listings fails or is interrupted. The
\* hypothesis is needed: the listing of a file system is in another order, and
\* the comparison then takes a shared bucket for a foreign one (the run
\* buckets_fs_order).
THEOREM SharedBucketsAreKept ==
  Spec => [](srcKind = "s3" => SharedBucketsKept)
PROOF
<1>1. ASSUME BsIInv, srcKind = "s3" PROVE SharedBucketsKept
  <2>1. CASE Writes
    BY <1>1, <2>1 DEF BsIInv, BsBody, BsTarget, SharedBucketsKept
  <2>2. CASE ~Writes
    <3> SUFFICES ASSUME NEW n \in source \cap before PROVE dst[n] = "whole"
      BY DEF SharedBucketsKept
    <3> QED
      BY <1>1, <2>2 DEF BsIInv, BsIdle
  <2> QED
    BY <2>1, <2>2
<1> QED
  BY <1>1, InitialBuckets, BucketStep, PTL DEF Spec

\* When the loop over the buckets is over, uninterrupted and with whole
\* listings, the target has the buckets it should have, or the error of each
\* that could not be made has been reported.
THEOREM BucketsSynced ==
  Spec => [](srcKind = "s3" => SyncedOrReported)
PROOF
<1>1. ASSUME BsIInv, srcKind = "s3" PROVE SyncedOrReported
  <2> SUFFICES ASSUME phase = "mirror", ~cancelled, listing = "ended", NEW n \in Names
               PROVE  \/ Expected(n) <=> dst[n] \in {"whole", "new"}
                      \/ n \in reported /\ dst[n] = "absent"
    BY DEF SyncedOrReported
  <2>1. CASE ~Writes
    BY <1>1, <2>1 DEF BsIInv, BsIdle, Expected, Writes
  <2>2. CASE Writes
    <3>1. BsBody /\ diffCh = <<>> /\ srcList = <<>> /\ (dstList = <<>> \/ sourceListingOnly)
      BY <1>1, <2>2 DEF BsIInv, BsBody, BsWork, BsEnded
    <3>2. \A d, m : ~Said(d, m) /\ ~In(srcList, m)
      BY <3>1 DEF Said, In
    <3>3. opts.isRemove => \A m : ~In(dstList, m)
      BY <3>1 DEF In, sourceListingOnly
    <3>4. CASE n \in source \cap before
      BY <2>2, <3>1, <3>4 DEF BsBody, BsTarget, Expected, Writes
    <3>5. CASE n \in before \ source
      BY <2>2, <3>1, <3>2, <3>3, <3>5 DEF BsBody, BsTarget, BsToRemove, Expected, Writes
    <3>6. CASE n \notin before
      BY <2>2, <3>1, <3>2, <3>6 DEF BsBody, BsTarget, BsToMake, Expected, Writes
    <3> QED
      BY <3>4, <3>5, <3>6
  <2> QED
    BY <2>1, <2>2
<1> QED
  BY <1>1, InitialBuckets, BucketStep, PTL DEF Spec

\* What each goroutine has, and how many differences there can still be: a
\* bucket of a listing is told of at most once.
BsShape ==
  /\ srcKind \in Sources /\ opts \in Options
  /\ source \subseteq Names /\ before \subseteq Names /\ dst \in [Names -> States]
  /\ listing \in {"on", "failed", "ended", "aborted"}
  /\ phase \in Phases /\ cur \in Names \cup {NoName}
  /\ phase \in {"empty", "remove", "make", "lock"} => cur \in Names
  /\ reported \subseteq Names /\ runs \in 1..MaxRuns
BsFlags == cancelled \in BOOLEAN
BsQueues ==
  /\ srcList \in Seq(source) /\ dstList \in Seq(Names) /\ diffCh \in Seq(Diff)
  /\ \A i \in 1..Len(diffCh) : diffCh[i].diff # "error" => diffCh[i].name \in Names
BsRoom ==
  /\ listing = "on" => Len(srcList) + Len(dstList) + Len(diffCh) <= 2 * Cardinality(Names)
  /\ listing = "failed" => Len(diffCh) = 0
  /\ Len(diffCh) <= 2 * Cardinality(Names) + 1
BsSizes == BsShape /\ BsFlags /\ BsQueues /\ BsRoom

\* A mirror between object storages.
BetweenS3 == srcKind = "s3" /\ opts.createDstBuckets

\* The bound is a number.
LEMMA RoomIsNat == Cardinality(Names) \in Nat
PROOF
  BY BucketSyncAssumption, FS_CardinalityType

\* The lengths of the queues.
LEMMA QueueLengths ==
  ASSUME BsQueues
  PROVE  /\ Len(srcList) \in Nat /\ Len(dstList) \in Nat /\ Len(diffCh) \in Nat
         /\ Len(srcList) = 0 <=> srcList = <<>>
PROOF
  BY EmptySeq DEF BsQueues

\* A listing that begins has each bucket once.
LEMMA RoomBegins ==
  ASSUME NEW S, S \subseteq Names, NEW s \in S3Buckets(S)
  PROVE  s \in Seq(S) /\ Len(s) \in Nat /\ Len(s) <= Cardinality(Names)
PROOF
<1>1. IsFiniteSet(S) /\ Cardinality(S) \in Nat /\ Cardinality(S) <= Cardinality(Names)
  BY BucketSyncAssumption, FS_Subset, FS_CardinalityType
<1>2. s \in [1..Cardinality(S) -> S]
  BY DEF S3Buckets
<1>3. s \in Seq(S) /\ Len(s) = Cardinality(S)
  BY <1>1, <1>2
<1> QED
  BY <1>1, <1>3

\* A difference is told: what it is of is taken from a list.
LEMMA TellRoom ==
  ASSUME BsQueues, BsRoom, listing = "on",
         NEW diff \in {"differInFirst", "differInSecond"}, NEW name \in Names, Tell(diff, name),
         UNCHANGED <<source, listing>>,
         \/ srcList # <<>> /\ srcList' = Tail(srcList) /\ dstList' = dstList
         \/ dstList # <<>> /\ dstList' = Tail(dstList) /\ srcList' = srcList
  PROVE  BsQueues' /\ BsRoom'
PROOF
<1>1. /\ srcList' \in Seq(source) /\ dstList' \in Seq(Names)
      /\ Len(srcList') + Len(dstList') = Len(srcList) + Len(dstList) - 1
      /\ Len(srcList') \in Nat /\ Len(dstList') \in Nat
  <2>1. CASE srcList # <<>> /\ srcList' = Tail(srcList) /\ dstList' = dstList
    <3>1. srcList \in Seq(source) /\ srcList # <<>>
      BY <2>1 DEF BsQueues
    <3>2. Tail(srcList) \in Seq(source) /\ Len(Tail(srcList)) = Len(srcList) - 1 /\ Len(srcList) >= 1
      BY <3>1, HeadAndTail
    <3>3. dstList' \in Seq(Names) /\ Len(dstList) \in Nat /\ Len(srcList) \in Nat
      BY <2>1, QueueLengths DEF BsQueues
    <3>4. srcList' \in Seq(source) /\ Len(srcList') = Len(srcList) - 1 /\ dstList' = dstList
      BY <2>1, <3>2
    <3> QED
      BY <3>2, <3>3, <3>4
  <2>2. CASE dstList # <<>> /\ dstList' = Tail(dstList) /\ srcList' = srcList
    <3>1. dstList \in Seq(Names) /\ dstList # <<>>
      BY <2>2 DEF BsQueues
    <3>2. Tail(dstList) \in Seq(Names) /\ Len(Tail(dstList)) = Len(dstList) - 1 /\ Len(dstList) >= 1
      BY <3>1, HeadAndTail
    <3>3. srcList' \in Seq(source) /\ Len(dstList) \in Nat /\ Len(srcList) \in Nat
      BY <2>2, QueueLengths DEF BsQueues
    <3>4. dstList' \in Seq(Names) /\ Len(dstList') = Len(dstList) - 1 /\ srcList' = srcList
      BY <2>2, <3>2
    <3> QED
      BY <3>2, <3>3, <3>4
  <2> QED
    BY <2>1, <2>2
<1> DEFINE e == [diff |-> diff, name |-> name]
<1>2. e \in Diff /\ e.name \in Names /\ diffCh \in Seq(Diff)
  BY DEF Diff, BsQueues
<1>3. diffCh' = Append(diffCh, e)
  BY DEF Tell
<1> HIDE DEF e
<1>4. /\ diffCh' \in Seq(Diff) /\ Len(diffCh') = Len(diffCh) + 1
      /\ \A i \in 1..Len(diffCh) : diffCh'[i] = diffCh[i]
      /\ diffCh'[Len(diffCh) + 1] = e
      /\ \A i \in 1..Len(diffCh') : i \in 1..Len(diffCh) \/ i = Len(diffCh) + 1
  BY <1>2, <1>3, OneAdded
<1>5. \A i \in 1..Len(diffCh') : diffCh'[i].diff # "error" => diffCh'[i].name \in Names
  BY <1>2, <1>4 DEF BsQueues
<1>6. BsQueues'
  BY <1>1, <1>4, <1>5 DEF BsQueues
<1>7. Len(srcList') + Len(dstList') + Len(diffCh') <= 2 * Cardinality(Names)
  BY <1>1, <1>4, QueueLengths, RoomIsNat DEF BsRoom
<1>8. Len(diffCh') \in Nat
  BY <1>4, QueueLengths
<1>9. Len(diffCh') <= 2 * Cardinality(Names) + 1
  BY <1>1, <1>7, <1>8, RoomIsNat
<1> QED
  BY <1>6, <1>7, <1>9 DEF BsRoom

\* The loop takes a difference.
LEMMA TakeRoom ==
  ASSUME BsQueues, BsRoom, diffCh # <<>>, diffCh' = Tail(diffCh),
         UNCHANGED <<source, srcList, dstList, listing>>
  PROVE  /\ BsQueues' /\ BsRoom'
         /\ Head(diffCh).diff # "error" => Head(diffCh).name \in Names
PROOF
<1>1. diffCh \in Seq(Diff) /\ diffCh # <<>>
  BY DEF BsQueues
<1>2. /\ diffCh' \in Seq(Diff) /\ Len(diffCh') = Len(diffCh) - 1
      /\ Head(diffCh) = diffCh[1] /\ 1 \in 1..Len(diffCh) /\ Len(diffCh) >= 1
      /\ \A i \in 1..Len(diffCh') : i + 1 \in 1..Len(diffCh) /\ diffCh'[i] = diffCh[i + 1]
  BY <1>1, HeadAndTail
<1>3. \A i \in 1..Len(diffCh') : diffCh'[i].diff # "error" => diffCh'[i].name \in Names
  BY <1>2 DEF BsQueues
<1>4. BsQueues'
  BY <1>2, <1>3 DEF BsQueues
<1>5. BsRoom'
  BY <1>2, QueueLengths, RoomIsNat DEF BsRoom
<1> QED
  BY <1>2, <1>4, <1>5 DEF BsQueues

\* The goroutines that list and compare.
LEMMA MergeSizes ==
  ASSUME BsSizes, Merge
  PROVE  BsSizes'
PROOF
<1>0. UNCHANGED <<env, dst, phase, cur, cancelled, reported, runs>>
  BY DEF Merge, StopSource, StopTarget, MergeEnds, MergeFirst, MergeSecond, MergeEqual, MergeFails
<1>1. BsShape' /\ BsFlags'
  <2>1. listing' \in {"on", "failed", "ended", "aborted"}
    BY DEF BsSizes, BsShape, Merge, StopSource, StopTarget, MergeEnds, MergeFirst, MergeSecond,
           MergeEqual, MergeFails
  <2> QED
    BY <1>0, <2>1 DEF BsSizes, BsShape, BsFlags, env
<1>2. BsQueues /\ BsRoom /\ source' = source /\ source \subseteq Names
  BY <1>0 DEF BsSizes, BsShape, env
<1>n. Len(srcList) \in Nat /\ Len(dstList) \in Nat /\ Len(diffCh) \in Nat /\ Cardinality(Names) \in Nat
  BY <1>2, QueueLengths, RoomIsNat
<1>3. CASE StopSource \/ StopTarget
  <2>1. /\ (srcList' = <<>> /\ dstList' = dstList) \/ (srcList' = srcList /\ dstList' = <<>>)
        /\ UNCHANGED <<listing, diffCh>> /\ listing = "on"
    BY <1>3 DEF StopSource, StopTarget
  <2>2. BsQueues'
    <3>0. <<>> \in Seq(source) /\ <<>> \in Seq(Names)
      OBVIOUS
    <3>a. srcList \in Seq(source) /\ dstList \in Seq(Names) /\ source' = source
      BY <1>2 DEF BsQueues
    <3>1. srcList' \in Seq(source')
      BY <3>0, <3>a, <2>1, Zenon
    <3>2. dstList' \in Seq(Names)
      BY <3>0, <3>a, <2>1, Zenon
    <3>3. /\ diffCh' \in Seq(Diff)
          /\ \A i \in 1..Len(diffCh') : diffCh'[i].diff # "error" => diffCh'[i].name \in Names
      BY <1>2, <2>1 DEF BsQueues
    <3> QED
      BY <3>1, <3>2, <3>3 DEF BsQueues
  <2>3. Len(srcList') <= Len(srcList) /\ Len(dstList') <= Len(dstList) /\ Len(srcList') \in Nat /\ Len(dstList') \in Nat
    BY <2>1, <1>n
  <2>4. BsRoom'
    BY <1>2, <1>n, <2>1, <2>3 DEF BsRoom
  <2> QED
    BY <1>1, <2>2, <2>4 DEF BsSizes
<1>4. CASE MergeEnds
  BY <1>1, <1>2, <1>4 DEF MergeEnds, BsSizes, BsQueues, BsRoom
<1>5. CASE MergeFirst
  <2>1. srcList \in Seq(source) /\ srcList # <<>>
    BY <1>2, <1>5 DEF BsQueues, MergeFirst
  <2>2. Head(srcList) \in Names
    BY <1>2, <2>1, HeadAndTail
  <2>3. BsQueues' /\ BsRoom'
    BY <1>2, <1>5, <2>2, TellRoom DEF MergeFirst
  <2> QED
    BY <1>1, <2>3 DEF BsSizes
<1>6. CASE MergeSecond
  <2>1. dstList \in Seq(Names) /\ dstList # <<>>
    BY <1>2, <1>6 DEF BsQueues, MergeSecond
  <2>2. Head(dstList) \in Names
    BY <2>1, HeadAndTail
  <2>3. BsQueues' /\ BsRoom'
    BY <1>2, <1>6, <2>2, TellRoom DEF MergeSecond
  <2> QED
    BY <1>1, <2>3 DEF BsSizes
<1>7. CASE MergeEqual
  <2>1. /\ srcList \in Seq(source) /\ srcList # <<>> /\ srcList' = Tail(srcList)
        /\ dstList \in Seq(Names) /\ dstList # <<>> /\ dstList' = Tail(dstList)
        /\ UNCHANGED <<listing, diffCh>> /\ listing = "on"
    BY <1>2, <1>7 DEF BsQueues, MergeEqual
  <2>2. srcList' \in Seq(source) /\ Len(srcList') = Len(srcList) - 1
    BY <2>1, HeadAndTail
  <2>3. dstList' \in Seq(Names) /\ Len(dstList') = Len(dstList) - 1
    BY <2>1, HeadAndTail
  <2>4. BsQueues'
    BY <1>2, <2>1, <2>2, <2>3 DEF BsQueues
  <2>5. BsRoom'
    BY <1>2, <1>n, <2>1, <2>2, <2>3 DEF BsRoom
  <2> QED
    BY <1>1, <2>4, <2>5 DEF BsSizes
<1>8. ASSUME NEW known \in BOOLEAN, MergeFails(known) PROVE BsSizes'
  <2>1. listing = "failed" /\ listing' = "aborted" /\ UNCHANGED <<srcList, dstList>>
    BY <1>8 DEF MergeFails
  <2>2. CASE diffCh' = diffCh
    BY <1>1, <1>2, <2>1, <2>2 DEF BsSizes, BsQueues, BsRoom
  <2>3. CASE diffCh' = Append(diffCh, [diff |-> "error", name |-> NoName])
    <3> DEFINE e == [diff |-> "error", name |-> NoName]
    <3>1. e \in Diff /\ e.diff = "error" /\ diffCh \in Seq(Diff) /\ diffCh' = Append(diffCh, e)
      BY <1>2, <2>3 DEF Diff, BsQueues
    <3> HIDE DEF e
    <3>2. /\ diffCh' \in Seq(Diff) /\ Len(diffCh') = Len(diffCh) + 1
          /\ \A i \in 1..Len(diffCh) : diffCh'[i] = diffCh[i]
          /\ diffCh'[Len(diffCh) + 1] = e
          /\ \A i \in 1..Len(diffCh') : i \in 1..Len(diffCh) \/ i = Len(diffCh) + 1
      BY <3>1, OneAdded
    <3>3. \A i \in 1..Len(diffCh') : diffCh'[i].diff # "error" => diffCh'[i].name \in Names
      BY <1>2, <3>1, <3>2 DEF BsQueues
    <3>4. BsQueues'
      BY <1>2, <2>1, <3>2, <3>3 DEF BsQueues
    <3>5. Len(diffCh') = 1
      BY <1>2, <2>1, <3>2 DEF BsRoom
    <3>6. BsRoom'
      BY <1>n, <2>1, <3>5 DEF BsRoom
    <3> QED
      BY <1>1, <3>4, <3>6 DEF BsSizes
  <2> QED
    BY <1>8, <2>2, <2>3 DEF MergeFails
<1> QED
  BY <1>3, <1>4, <1>5, <1>6, <1>7, <1>8 DEF Merge

\* The loop of runMirror, on a bucket.
LEMMA BucketSizes ==
  ASSUME BsSizes, NEW ok \in BOOLEAN,
         EmptyBucket(ok) \/ EmptyNothing(ok) \/ RemoveBucket(ok) \/ MakeBucket(ok) \/ LockConfig(ok)
  PROVE  BsSizes'
PROOF
<1>1. /\ UNCHANGED <<env, lists, diffCh, cur, cancelled, runs>>
      /\ phase \in {"empty", "remove", "make", "lock"}
      /\ phase' \in Phases
  BY DEF EmptyBucket, EmptyNothing, RemoveBucket, MakeBucket, LockConfig, Phases
<1>2. cur \in Names /\ dst \in [Names -> States] /\ reported \subseteq Names
  BY <1>1 DEF BsSizes, BsShape
<1>3. dst' \in [Names -> States] /\ reported' \subseteq Names
  <2>1. dst' = dst \/ \E v \in States : dst' = [dst EXCEPT ![cur] = v]
    <3>1. dst[cur] \in States
      BY <1>2
    <3> QED
      BY <3>1 DEF EmptyBucket, EmptyNothing, RemoveBucket, MakeBucket, LockConfig, States
  <2>2. reported' \subseteq reported \cup {cur}
    BY DEF EmptyBucket, EmptyNothing, RemoveBucket, MakeBucket, LockConfig
  <2> QED
    BY <1>2, <2>1, <2>2
<1>4. BsShape' /\ BsFlags'
  BY <1>1, <1>2, <1>3 DEF BsSizes, BsShape, BsFlags, env, lists
<1>5. BsQueues' /\ BsRoom'
  BY <1>1 DEF BsSizes, BsQueues, BsRoom, env, lists
<1> QED
  BY <1>4, <1>5 DEF BsSizes

\* The loop of runMirror, on a difference; a run of the mirror begins again.
LEMMA LoopSizes ==
  ASSUME BsSizes, BetweenS3,
         ReceiveError \/ ReceiveSecond \/ ReceiveFirst \/ BucketsDone \/ Restart
  PROVE  BsSizes'
PROOF
<1>1. CASE ReceiveError \/ ReceiveSecond \/ ReceiveFirst
  <2>1. /\ diffCh # <<>> /\ diffCh' = Tail(diffCh)
        /\ UNCHANGED <<env, dst, lists, cancelled, reported, runs>>
    BY <1>1 DEF ReceiveError, ReceiveSecond, ReceiveFirst, Receive
  <2>2. /\ BsQueues' /\ BsRoom'
        /\ Head(diffCh).diff # "error" => Head(diffCh).name \in Names
    BY <2>1, TakeRoom DEF BsSizes, env, lists
  <2>3. /\ phase' \in Phases /\ cur' \in Names \cup {NoName}
        /\ phase' \in {"empty", "remove", "make", "lock"} => cur' \in Names
    BY <1>1, <2>2
       DEF BsSizes, BsShape, ReceiveError, ReceiveSecond, ReceiveFirst, Receive, Phases
  <2> QED
    BY <2>1, <2>2, <2>3 DEF BsSizes, BsShape, BsFlags, env, lists
<1>2. CASE BucketsDone
  BY <1>2 DEF BucketsDone, BsSizes, BsShape, BsFlags, BsQueues, BsRoom, env, lists, Phases
<1>3. CASE Restart
  <2> DEFINE D == {n \in Names : dst[n] # "absent"}
  <2>1. srcList' \in S3Buckets(source) /\ dstList' \in S3Buckets(D)
    BY <1>3 DEF Restart, Listings, dstKind, BetweenS3
  <2>2. /\ srcList' \in Seq(source) /\ Len(srcList') \in Nat /\ Len(srcList') <= Cardinality(Names)
    BY <2>1, RoomBegins DEF BsSizes, BsShape
  <2>3. /\ dstList' \in Seq(Names) /\ Len(dstList') \in Nat /\ Len(dstList') <= Cardinality(Names)
    BY <2>1, RoomBegins, SeqMonotonic
  <2>4. diffCh' = <<>> /\ Len(diffCh') = 0 /\ diffCh' \in Seq(Diff) /\ source' = source
    BY <1>3 DEF Restart, env
  <2>5. BsQueues'
    BY <2>2, <2>3, <2>4 DEF BsQueues
  <2>6. BsRoom'
    BY <2>2, <2>3, <2>4, RoomIsNat DEF BsRoom
  <2>7. runs \in 1..MaxRuns /\ runs' = runs + 1 /\ runs < MaxRuns /\ MaxRuns \in Nat
    BY <1>3, BucketSyncAssumption DEF Restart, BsSizes, BsShape
  <2>8. runs' \in 1..MaxRuns
    BY <2>7
  <2>9. /\ UNCHANGED <<srcKind, opts, source, before, dst, cancelled, reported>>
        /\ listing' \in {"on", "failed"} /\ phase' = "next" /\ cur' = NoName
    BY <1>3 DEF Restart, env
  <2>10. BsShape'
    BY <2>8, <2>9 DEF BsSizes, BsShape, Phases
  <2>11. BsFlags'
    BY <2>9 DEF BsSizes, BsFlags
  <2> QED
    BY <2>5, <2>6, <2>10, <2>11 DEF BsSizes
<1> QED
  BY <1>1, <1>2, <1>3

\* Every step.
LEMMA SizesStep ==
  ASSUME BetweenS3 => BsSizes, [Next]_vars
  PROVE  (BetweenS3 => BsSizes)'
PROOF
<1>1. UNCHANGED env
  BY DEF Next, Merge, Loop, Finished, vars, env, Cancel, StopSource, StopTarget, MergeEnds,
         MergeFirst, MergeSecond, MergeEqual, MergeFails, ReceiveError, ReceiveSecond,
         ReceiveFirst, Receive, EmptyBucket, EmptyNothing, RemoveBucket, MakeBucket,
         LockConfig, BucketsDone, Restart
<1>2. BetweenS3' = BetweenS3
  BY <1>1 DEF BetweenS3, env
<1>3. CASE BetweenS3
  <2>1. BsSizes
    BY <1>3
  <2>2. CASE Cancel
    BY <2>1, <2>2 DEF Cancel, BsSizes, BsShape, BsFlags, BsQueues, BsRoom, env, lists
  <2>3. CASE UNCHANGED vars
    BY <2>1, <2>3 DEF vars, BsSizes, BsShape, BsFlags, BsQueues, BsRoom, env, lists
  <2> QED
    BY <1>3, <2>1, <2>2, <2>3, MergeSizes, BucketSizes, LoopSizes DEF Next, Loop, Finished
<1> QED
  BY <1>2, <1>3

\* A mirror between object storages: every queue and every phase of runMirror
\* has what it should have, and no more differences are told than there are
\* buckets: TypeOK.  (In what order a local directory lists is a computation of
\* readDir.)
THEOREM BucketTypeCorrect == Spec => [](BetweenS3 => TypeOK)
PROOF
<1>1. ASSUME Init, BetweenS3 PROVE BsSizes
  <2>1. source \subseteq Names /\ before \subseteq Names
    BY <1>1 DEF Init
  <2>2. srcList \in S3Buckets(source) /\ dstList \in S3Buckets(before)
    BY <1>1 DEF Init, Listings, dstKind, BetweenS3
  <2>3. srcList \in Seq(source) /\ Len(srcList) \in Nat /\ Len(srcList) <= Cardinality(Names)
    BY <2>1, <2>2, RoomBegins
  <2>4. dstList \in Seq(Names) /\ Len(dstList) \in Nat /\ Len(dstList) <= Cardinality(Names)
    BY <2>1, <2>2, RoomBegins, SeqMonotonic
  <2>5. diffCh = <<>> /\ Len(diffCh) = 0 /\ diffCh \in Seq(Diff)
    BY <1>1 DEF Init
  <2>6. BsQueues
    BY <2>3, <2>4, <2>5 DEF BsQueues
  <2>7. BsRoom
    BY <2>3, <2>4, <2>5, RoomIsNat DEF BsRoom
  <2>8. dst \in [Names -> States]
    BY <1>1 DEF Init, States
  <2>9. runs = 1 /\ MaxRuns \in Nat \ {0}
    BY <1>1, BucketSyncAssumption DEF Init
  <2>10. runs \in 1..MaxRuns
    BY <2>9
  <2>11. BsShape
    BY <1>1, <2>1, <2>8, <2>10 DEF Init, BsShape, Phases
  <2>12. BsFlags
    BY <1>1 DEF Init, BsFlags
  <2> QED
    BY <2>6, <2>7, <2>11, <2>12 DEF BsSizes
<1>2. BsSizes => TypeOK
  BY DEF BsSizes, BsShape, BsFlags, BsQueues, BsRoom, TypeOK
<1> QED
  BY <1>1, <1>2, SizesStep, PTL DEF Spec

-----------------------------------------------------------------------------
(***************************************************************************)
(* Performance tests.                                                      *)
(***************************************************************************)
Feeding == {"select", "show", "final", "out"}

PerfTypes ==
  /\ plan \in PerfPlans /\ Len(plan) \in Nat /\ Tests = 1..Len(plan)
  /\ perfAt \in {"next", "display", "collect", "over"}
  /\ test \in 0..Len(plan) /\ partials \in 0..MaxPartials
  /\ answer \in [Tests -> {"none", "asked", "error", "result", "stuck", "over"}]
  /\ feeder \in [Tests -> {"none", "select", "show", "final", "out", "over"}]
  /\ hand \in [Tests -> [of : 0..Len(plan), is : {"nothing", "error", "result", "part"}]]
  /\ display \in {"off", "on", "left", "done"}
  /\ results \in Seq([of : 0..Len(plan), is : {"nothing", "error", "result", "part"}])

\* At most the feeder of the current test is at work, and not after its result
\* was collected.
OneFeeder ==
  /\ \A i \in Tests : i > test => feeder[i] = "none"
  /\ perfAt \in {"next", "display", "collect"} /\ ~perfJson =>
       /\ \A i \in Tests : i < test => feeder[i] = "over"
       /\ IF perfAt = "next" THEN /\ Len(results) = test
                                  /\ test > 0 => feeder[test] = "over"
          ELSE Len(results) = test - 1 /\ feeder[test] \in Feeding
  /\ perfJson => perfAt \in {"next", "over"} /\ results = <<>>
                 /\ \A i \in Tests : feeder[i] = "none"

\* What is carried and what was collected is of the test whose place it takes.
OwnResults ==
  /\ \A i \in Tests : feeder[i] \in {"final", "out"} => hand[i].of = i
  /\ \A k \in 1..Len(results) : results[k].of = k

PerfIInv == PerfTypes /\ OneFeeder /\ OwnResults

\* Before the first test.
LEMMA PerfInitOK ==
  ASSUME PerfInit PROVE PerfIInv
PROOF
<1>1. plan \in Seq({plan[i] : i \in DOMAIN plan}) /\ plan \in PerfPlans
  BY PerfAssumption DEF PerfInit
<1>2. Len(plan) \in Nat /\ Tests = 1..Len(plan)
  BY <1>1 DEF Tests
<1>3. hand \in [Tests -> [of : 0..Len(plan), is : {"nothing", "error", "result", "part"}]]
  BY <1>2 DEF PerfInit, Nothing, Tests
<1>4. PerfTypes
  BY <1>1, <1>2, <1>3, PerfAssumption DEF PerfTypes, PerfInit, Tests
<1>5. OneFeeder
  BY <1>2 DEF OneFeeder, PerfInit, Tests
<1>6. OwnResults
  BY <1>2 DEF OwnResults, PerfInit, Tests
<1> QED
  BY <1>4, <1>5, <1>6 DEF PerfIInv

\* The caller, the feeders and the displays keep the invariant.
LEMMA PerfStep ==
  ASSUME PerfIInv, [PerfNext]_perfVars PROVE PerfIInv'
PROOF
<1> USE DEF PerfIInv
<1>0. Tests' = Tests /\ plan' = plan /\ perfJson' = perfJson
  BY DEF PerfNext, perfVars, Tests, StartTest, JsonTest, Answer, FeederTakes, FeederShows,
         Collect, KeyQuits, DisplayEnds, DisplayFails, PerfReport
<1>1. CASE StartTest
  <2>1. PerfTypes'
    BY <1>0, <1>1, PerfAssumption DEF PerfTypes, StartTest
  <2>2. OneFeeder' /\ OwnResults'
    BY <1>0, <1>1 DEF PerfTypes, OneFeeder, OwnResults, Feeding, StartTest
  <2> QED
    BY <2>1, <2>2
<1>2. CASE JsonTest
  BY <1>0, <1>2 DEF PerfTypes, OneFeeder, OwnResults, JsonTest
<1>3. ASSUME NEW i \in Tests, Answer(i) PROVE PerfIInv'
  BY <1>0, <1>3 DEF PerfTypes, OneFeeder, OwnResults, Answer
<1>4. ASSUME NEW i \in Tests, FeederTakes(i) PROVE PerfIInv'
  <2>1. feeder[i] = "select" /\ UNCHANGED <<perfAt, test, display, results>>
    BY <1>4 DEF FeederTakes, TakeError, TakeResult, StreamEnds, TakePartial, Take
  <2>2. PICK w \in {"final", "show"}, h \in {"error", "result", "part"},
             a \in {"none", "asked", "error", "result", "stuck", "over"} :
          /\ feeder' = [feeder EXCEPT ![i] = w]
          /\ hand' = IF w = "show" THEN hand ELSE [hand EXCEPT ![i] = [of |-> i, is |-> h]]
          /\ answer' = [answer EXCEPT ![i] = a]
    <3>1. CASE TakeError(i)
      BY <3>1 DEF TakeError, Take
    <3>2. CASE TakeResult(i)
      BY <3>2 DEF TakeResult, Take
    <3>3. CASE StreamEnds(i)
      BY <3>3 DEF StreamEnds, Take
    <3>4. CASE TakePartial(i)
      <4>1. answer' = [answer EXCEPT ![i] = "asked"]
        BY <3>4 DEF TakePartial, PerfTypes
      <4> QED
        BY <3>4, <4>1 DEF TakePartial
    <3> QED
      BY <1>4, <3>1, <3>2, <3>3, <3>4 DEF FeederTakes
  <2>3. partials' \in 0..MaxPartials
    BY <1>4, PerfAssumption
       DEF PerfTypes, FeederTakes, TakeError, TakeResult, StreamEnds, TakePartial
  <2>4. PerfTypes'
    <3>1. i \in 0..Len(plan) /\ i \in Tests
      BY DEF PerfTypes
    <3>2. hand' \in [Tests -> [of : 0..Len(plan), is : {"nothing", "error", "result", "part"}]]
      BY <2>2, <3>1 DEF PerfTypes
    <3> QED
      BY <1>0, <2>1, <2>2, <2>3, <3>2 DEF PerfTypes
  <2>5. OneFeeder'
    <3>1. i \in 1..Len(plan) /\ test \in 0..Len(plan) /\ Len(plan) \in Nat
      BY DEF PerfTypes
    <3>2. ~perfJson /\ i <= test /\ perfAt # "next" /\ (perfAt # "over" => i = test)
      BY <2>1, <3>1 DEF PerfTypes, OneFeeder
    <3> QED
      BY <1>0, <2>1, <2>2, <3>1, <3>2 DEF PerfTypes, OneFeeder, Feeding
  <2>6. OwnResults'
    BY <1>0, <2>1, <2>2 DEF PerfTypes, OwnResults
  <2> QED
    BY <2>4, <2>5, <2>6
<1>5. ASSUME NEW i \in Tests, FeederShows(i) PROVE PerfIInv'
  <2>1. PerfTypes'
    BY <1>0, <1>5 DEF PerfTypes, FeederShows
  <2>2. OneFeeder' /\ OwnResults'
    BY <1>0, <1>5 DEF PerfTypes, OneFeeder, OwnResults, Feeding, FeederShows
  <2> QED
    BY <2>1, <2>2
<1>6. ASSUME NEW i \in Tests, Collect(i) PROVE PerfIInv'
  <2>1. i = test /\ hand[i].of = i /\ Len(results) = test - 1 /\ ~perfJson
    <3>1. i \in 1..Len(plan) /\ test \in 0..Len(plan) /\ Len(plan) \in Nat
      BY DEF PerfTypes
    <3>2. feeder[i] = "out" /\ perfAt = "collect"
      BY <1>6 DEF Collect
    <3> QED
      BY <3>1, <3>2 DEF OneFeeder, OwnResults
  <2>2. PerfTypes'
    BY <1>0, <1>6 DEF PerfTypes, Collect
  <2>3. OneFeeder'
    BY <1>0, <1>6, <2>1 DEF PerfTypes, OneFeeder, Collect
  <2>4. OwnResults'
    BY <1>0, <1>6, <2>1 DEF PerfTypes, OwnResults, Collect
  <2> QED
    BY <2>2, <2>3, <2>4
<1>7. CASE KeyQuits \/ DisplayEnds \/ DisplayFails \/ PerfReport
  <2>1. PerfTypes'
    BY <1>0, <1>7 DEF PerfTypes, KeyQuits, DisplayEnds, DisplayFails, PerfReport
  <2>2. OneFeeder' /\ OwnResults'
    BY <1>0, <1>7 DEF PerfTypes, OneFeeder, OwnResults, KeyQuits, DisplayEnds, DisplayFails,
                      PerfReport
  <2> QED
    BY <2>1, <2>2
<1>8. CASE UNCHANGED perfVars
  BY <1>0, <1>8 DEF PerfTypes, OneFeeder, OwnResults, perfVars
<1> QED
  BY <1>1, <1>2, <1>3, <1>4, <1>5, <1>6, <1>7, <1>8 DEF PerfNext

\* Tests, feeders and what is handed from the one to the other have the values
\* that execSupportPerf gives them.
THEOREM PerfTypeCorrect == PerfSpec => []PerfTypeOK
PROOF
<1>1. ASSUME PerfIInv PROVE PerfTypeOK
  BY <1>1 DEF PerfIInv, PerfTypes, PerfTypeOK
<1> QED
  BY <1>1, PerfInitOK, PerfStep, PTL DEF PerfSpec

\* Each result that execSupportPerf collects is of the test whose place it
\* takes, and a feeder that is not of the current test is not at work.
THEOREM ResultsAreInOrder == PerfSpec => []ResultsInOrder
PROOF
<1>1. ASSUME PerfIInv PROVE ResultsInOrder
  <2>1. DOMAIN results = 1..Len(results)
    BY <1>1 DEF PerfIInv, PerfTypes
  <2>2. ASSUME perfAt = "next", ~perfJson, NEW i \in Tests PROVE feeder[i] \in {"none", "over"}
    BY <1>1, <2>2 DEF PerfIInv, PerfTypes, OneFeeder
  <2> QED
    BY <1>1, <2>1, <2>2 DEF PerfIInv, PerfTypes, OneFeeder, OwnResults, ResultsInOrder
<1> QED
  BY <1>1, PerfInitOK, PerfStep, PTL DEF PerfSpec

===============================================================================
