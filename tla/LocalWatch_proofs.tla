--------------------------- MODULE LocalWatch_proofs ---------------------------
(***************************************************************************)
(* The safety properties of the watchers for any tree, any changes and any *)
(* failures: PanicNeedsStop, NewDirIsWatched and QuietMeansTold.           *)
(***************************************************************************)
EXTENDS LocalWatch, SequenceTheorems, TLAPS

\* The pipe is closed only when the watchpoint has left the tree.
PipeInv == shut => closer = "over"

\* The channels of Watch are closed after a stop, by the other goroutine; or by
\* the one that sends on them, which then has nothing to send and never will.
ChansInv ==
  closedChans # {} =>
    \/ origin = "fs" /\ done = TRUE
    \/ origin = "s3" /\ closer = "over" /\ offer = <<>>

WatchIInv == PipeInv /\ ChansInv /\ PanicNeedsStop

-----------------------------------------------------------------------------
\* A step that closes nothing and, when the goroutine of S3Client.Watch is over,
\* offers nothing.
LEMMA NothingCloses ==
  ASSUME WatchIInv, UNCHANGED <<origin, shut, closer, closedChans, watchPanic>>,
         done => done' = TRUE,
         origin = "s3" /\ closer = "over" /\ offer = <<>> => offer' = <<>>
  PROVE  WatchIInv'
  BY DEF WatchIInv, PipeInv, ChansInv, PanicNeedsStop

LEMMA WatchStep == WatchIInv /\ [WatchNext]_watchVars => WatchIInv'
  <1> SUFFICES ASSUME WatchIInv, [WatchNext]_watchVars PROVE WatchIInv'
    OBVIOUS
  <1> USE DEF kind, tree, notify, pipeState, stopping, receiving
  <1>1. CASE UNCHANGED watchVars
    BY <1>1, NothingCloses DEF watchVars
  <1>2. ASSUME NEW f \in Files, PutFile(f) \/ DeleteFile(f) PROVE WatchIInv'
    BY <1>2, NothingCloses
       DEF PutFile, DeleteFile, ChangeFile, Notify, Q!Accept
  <1>3. ASSUME NEW d \in Dirs, ChangeDir(d) PROVE WatchIInv'
    BY <1>3, NothingCloses DEF ChangeDir, Notify, Q!Accept
  <1>4. ASSUME NEW i \in DOMAIN inFlight, Dispatch(i) PROVE WatchIInv'
    <2>1. ~(Watching /\ shut)
      BY DEF WatchIInv, PipeInv, Watching
    <2>2. UNCHANGED <<origin, shut, closer, closedChans, watchPanic, done, offer>>
      BY <1>4, <2>1 DEF Dispatch, Q!Accept
    <2>3. QED BY <2>2, NothingCloses
  <1>5. CASE Internal
    BY <1>5, NothingCloses DEF Internal
  <1>6. CASE TakeEvent
    BY <1>6, NothingCloses DEF TakeEvent, Q!Deliver
  <1>7. CASE PipeRangeEnds
    BY <1>7, NothingCloses DEF PipeRangeEnds, Q!End
  <1>8. CASE SendPanics
    <2>1. closedChans # {} /\ offer # <<>>
      BY <1>8 DEF SendPanics
    <2>2. origin = "fs" /\ done = TRUE
      BY <2>1 DEF WatchIInv, ChansInv
    <2>3. QED
      BY <1>8, <2>2 DEF SendPanics, WatchIInv, PipeInv, ChansInv, PanicNeedsStop
  <1>9. CASE Close
    <2>1. CASE CloseFs
      BY <1>9, <2>1
         DEF Close, CloseFs, Q!Shut, WatchIInv, PipeInv, ChansInv, PanicNeedsStop
    <2>2. CASE CloseS3
      BY <1>9, <2>2 DEF Close, CloseS3, WatchIInv, PipeInv, ChansInv, PanicNeedsStop
    <2>3. QED BY <1>9, <2>1, <2>2 DEF Close
  <1>10. CASE JoinSelects
    BY <1>10, NothingCloses DEF JoinSelects
  <1>11. CASE JoinForwards
    BY <1>11, NothingCloses DEF JoinForwards
  <1>12. CASE StopWatcher
    BY <1>12, NothingCloses DEF StopWatcher
  <1>13. CASE MainWatch
    BY <1>13, NothingCloses DEF MainWatch
  <1>14. QED
    BY <1>1, <1>2, <1>3, <1>4, <1>5, <1>6, <1>7, <1>8, <1>9, <1>10, <1>11, <1>12,
       <1>13 DEF WatchNext

LEMMA WatchInvariant == WatchSpec => []WatchIInv
  <1>1. WatchInit => WatchIInv
    BY DEF WatchInit, Q!Init, WatchIInv, PipeInv, ChansInv, PanicNeedsStop
  <1>2. QED BY <1>1, WatchStep, PTL DEF WatchSpec

\* Nobody sends on the closed pipe, and only a stop lets the goroutine of
\* fsClient.Watch meet its closed channels: PanicNeedsStop.
THEOREM PanicsNeedStops == WatchSpec => []PanicNeedsStop
  <1>1. WatchIInv => PanicNeedsStop
    BY DEF WatchIInv
  <1>2. QED BY <1>1, WatchInvariant, PTL

-----------------------------------------------------------------------------
(***************************************************************************)
(* NewDirIsWatched: a directory that is not watched yet is on its way to   *)
(* be, whichever events overtake which.                                    *)
(***************************************************************************)
SentEvents == [path : Paths, kind : {"put", "delete", "mkdir"}, size : Nat]

Includes(s, x) == \E n \in DOMAIN s : s[n] = x
IsMkdir(e, d) == e.kind = "mkdir" /\ e.path = d
Sent(d) == \E n \in DOMAIN inFlight : IsMkdir(inFlight[n], d)
OnItsWay(d) == Sent(d) \/ Includes(newDirs, d)

NotifyTypes ==
  /\ inFlight \in Seq(SentEvents) /\ newDirs \in Seq(Paths) /\ changes \in Nat
  /\ closer \in {"wait", "events", "errors", "stopped", "over"}
  /\ closer # "wait" => closedChans # {}

\* While the watch is in the tree: the watchpoints and the directories that are
\* to get one exist or did, and one that exists is watched or will be.
NodeInv ==
  Watching =>
    /\ recNodes \subseteq dirs \cup removedDirs
    /\ (recNodes \cap dirs) \ removedDirs \subseteq kernel
    /\ \A d : OnItsWay(d) => d \in dirs \cup removedDirs
    /\ \A d \in dirs \ removedDirs : d \in kernel \/ OnItsWay(d)

TreeInv == NotifyTypes /\ NodeInv

\* What a queue holds when an element was appended, or the first taken.
LEMMA AppendedAt ==
  ASSUME NEW S, NEW q \in Seq(S), NEW x \in S
  PROVE  /\ Append(q, x) \in Seq(S)
         /\ \A n \in DOMAIN q : n \in DOMAIN Append(q, x) /\ Append(q, x)[n] = q[n]
         /\ \A n \in DOMAIN Append(q, x) : n \in DOMAIN q \/ Append(q, x)[n] = x
         /\ Len(q) + 1 \in DOMAIN Append(q, x) /\ Append(q, x)[Len(q) + 1] = x
  <1> DEFINE r == Append(q, x)
  <1>1. /\ Len(q) \in Nat /\ DOMAIN q = 1..Len(q) /\ DOMAIN r = 1..(Len(q) + 1)
        /\ r \in Seq(S)
    OBVIOUS
  <1>2. r[Len(q) + 1] = x /\ \A m \in 1..Len(q) : r[m] = q[m]
    OBVIOUS
  <1> HIDE DEF r
  <1>3. QED BY <1>1, <1>2 DEF r

LEMMA HeadTaken ==
  ASSUME NEW S, NEW q \in Seq(S), q # <<>>
  PROVE  /\ Head(q) \in S /\ Tail(q) \in Seq(S) /\ Includes(q, Head(q))
         /\ \A y : Includes(Tail(q), y) => Includes(q, y)
         /\ \A y : Includes(q, y) => y = Head(q) \/ Includes(Tail(q), y)
  <1>1. ASSUME NEW n \in DOMAIN q, n # 1
        PROVE  n - 1 \in DOMAIN Tail(q) /\ Tail(q)[n - 1] = q[n]
    BY <1>1
  <1>2. q[1] = Head(q) /\ 1 \in DOMAIN q /\ Head(q) \in S /\ Tail(q) \in Seq(S)
    OBVIOUS
  <1>3. \A n \in DOMAIN Tail(q) : n + 1 \in DOMAIN q /\ q[n + 1] = Tail(q)[n]
    OBVIOUS
  <1>4. QED BY <1>1, <1>2, <1>3 DEF Includes

\* r is q without its i-th element: Without gives it, and Tail for i = 1.
Dropped(q, i, r) ==
  /\ Len(r) = Len(q) - 1 /\ DOMAIN r = 1..Len(r)
  /\ \A n \in 1..Len(r) : r[n] = IF n < i THEN q[n] ELSE q[n + 1]

LEMMA WithoutDrops ==
  ASSUME NEW S, NEW q \in Seq(S), NEW i \in DOMAIN q
  PROVE  Without(q, i) \in Seq(S) /\ Dropped(q, i, Without(q, i))
  <1> DEFINE a == SubSeq(q, 1, i - 1)
             b == SubSeq(q, i + 1, Len(q))
             r == a \o b
  <1>1. Len(q) \in Nat /\ DOMAIN q = 1..Len(q) /\ i \in 1..Len(q)
    OBVIOUS
  <1>2. /\ a \in Seq(S) /\ Len(a) = i - 1
        /\ \A n \in 1..(i - 1) : a[n] = q[n]
    BY <1>1
  <1>3. b \in Seq(S) /\ Len(b) = Len(q) - i
    BY <1>1
  <1>4. ASSUME NEW n \in 1..(Len(q) - i) PROVE b[n] = q[n + i]
    BY <1>1
  <1> HIDE DEF a, b
  <1>5. r \in Seq(S)
    BY <1>2, <1>3
  <1>6. Len(r) = Len(a) + Len(b)
    BY <1>2, <1>3, ConcatProperties, Zenon
  <1>7. \A n \in 1..Len(a) + Len(b) :
          r[n] = IF n <= Len(a) THEN a[n] ELSE b[n - Len(a)]
    BY <1>2, <1>3, ConcatProperties, Zenon
  <1> HIDE DEF r
  <1>8. Len(r) = Len(q) - 1 /\ DOMAIN r = 1..Len(r)
    BY <1>1, <1>2, <1>3, <1>5, <1>6
  <1>9. ASSUME NEW n \in 1..Len(r)
        PROVE  r[n] = IF n < i THEN q[n] ELSE q[n + 1]
    <2>1. r[n] = IF n <= Len(a) THEN a[n] ELSE b[n - Len(a)]
      BY <1>6, <1>7
    <2>2. CASE n < i
      BY <1>1, <1>2, <1>8, <2>1, <2>2
    <2>3. CASE ~(n < i)
      <3>1. n - (i - 1) \in 1..(Len(q) - i) /\ (n - (i - 1)) + i = n + 1
        BY <1>1, <1>8, <2>3
      <3>2. r[n] = b[n - (i - 1)]
        BY <1>1, <1>2, <1>8, <2>1, <2>3
      <3>3. QED BY <1>4, <2>3, <3>1, <3>2
    <2>4. QED BY <2>2, <2>3
  <1>10. Without(q, i) = r
    BY DEF Without, r, a, b
  <1>11. QED BY <1>5, <1>8, <1>9, <1>10 DEF Dropped

LEMMA WithoutOne ==
  ASSUME NEW S, NEW q \in Seq(S), NEW i \in DOMAIN q, NEW r, Dropped(q, i, r)
  PROVE  /\ \A n \in DOMAIN r : \E m \in DOMAIN q : r[n] = q[m]
         /\ \A m \in DOMAIN q : m # i => \E n \in DOMAIN r : r[n] = q[m]
  <1>1. /\ Len(q) \in Nat /\ DOMAIN q = 1..Len(q) /\ i \in 1..Len(q)
        /\ Len(r) = Len(q) - 1 /\ DOMAIN r = 1..Len(r)
        /\ \A n \in 1..Len(r) : r[n] = IF n < i THEN q[n] ELSE q[n + 1]
    BY DEF Dropped
  <1>2. ASSUME NEW n \in DOMAIN r PROVE \E m \in DOMAIN q : r[n] = q[m]
    <2>1. n \in DOMAIN q /\ n + 1 \in DOMAIN q
      BY <1>1
    <2>2. QED BY <1>1, <2>1
  <1>3. ASSUME NEW m \in DOMAIN q, m # i PROVE \E n \in DOMAIN r : r[n] = q[m]
    <2>1. CASE m < i
      BY <1>1, <2>1
    <2>2. CASE m > i
      <3>1. m - 1 \in 1..Len(r) /\ ~(m - 1 < i) /\ (m - 1) + 1 = m
        BY <1>1, <2>2
      <3>2. r[m - 1] = q[(m - 1) + 1]
        BY <1>1, <3>1
      <3>3. QED BY <1>1, <3>1, <3>2
    <2>3. QED BY <1>1, <1>3, <2>1, <2>2
  <1>4. QED BY <1>2, <1>3

\* The watch is in the tree until a channel is closed.
LEMMA WatchingStays ==
  ASSUME NotifyTypes, closer' = closer PROVE Watching' <=> Watching
  BY DEF Watching

\* What is on its way stays there when an event, or a directory, joins it.
LEMMA EventSent ==
  ASSUME NotifyTypes, NEW e \in SentEvents, inFlight' = Append(inFlight, e),
         newDirs' = newDirs
  PROVE  /\ inFlight' \in Seq(SentEvents)
         /\ \A d : OnItsWay(d)' <=> OnItsWay(d) \/ IsMkdir(e, d)
  <1>1. inFlight \in Seq(SentEvents)
    BY DEF NotifyTypes
  <1> DEFINE r == Append(inFlight, e)
  <1>2. /\ r \in Seq(SentEvents)
        /\ \A n \in DOMAIN inFlight : n \in DOMAIN r /\ r[n] = inFlight[n]
        /\ \A n \in DOMAIN r : n \in DOMAIN inFlight \/ r[n] = e
        /\ Len(inFlight) + 1 \in DOMAIN r /\ r[Len(inFlight) + 1] = e
    BY <1>1, AppendedAt
  <1> HIDE DEF r
  <1>3. inFlight' = r
    BY DEF r
  <1>4. \A d : Sent(d)' <=> Sent(d) \/ IsMkdir(e, d)
    BY <1>2, <1>3 DEF Sent, IsMkdir
  <1>5. QED BY <1>2, <1>3, <1>4 DEF OnItsWay, Includes

LEMMA ChangeFileTree ==
  ASSUME TreeInv, NEW f \in Files, NEW size \in Nat, ChangeFile(f, size)
  PROVE  TreeInv'
  <1>1. /\ UNCHANGED <<dirs, removedDirs, kernel, recNodes, newDirs, closer, closedChans>>
        /\ changes' \in Nat
    BY DEF ChangeFile, TreeInv, NotifyTypes, stopping
  <1>2. CASE inFlight' = inFlight
    BY <1>1, <1>2 DEF TreeInv, NotifyTypes, NodeInv, Watching, OnItsWay, Sent, Includes
  <1>3. CASE ~(inFlight' = inFlight)
    <2> DEFINE e == [path |-> f, kind |-> IF size = 0 THEN "delete" ELSE "put",
                     size |-> size]
    <2>1. inFlight' = Append(inFlight, e)
      BY <1>3 DEF ChangeFile, Notify
    <2>2. e \in SentEvents /\ \A d : ~IsMkdir(e, d)
      BY DEF SentEvents, Paths, IsMkdir
    <2> HIDE DEF e
    <2>3. inFlight' \in Seq(SentEvents) /\ \A d : OnItsWay(d)' <=> OnItsWay(d)
      BY <1>1, <2>1, <2>2, EventSent DEF TreeInv
    <2>4. QED BY <1>1, <2>3 DEF TreeInv, NotifyTypes, NodeInv, Watching
  <1>4. QED BY <1>2, <1>3

LEMMA ChangeDirTree ==
  ASSUME TreeInv, NEW d \in Dirs, ChangeDir(d) PROVE TreeInv'
  <1>1. /\ UNCHANGED <<recNodes, newDirs, closer, closedChans>>
        /\ changes' \in Nat /\ Watching
    BY DEF ChangeDir, TreeInv, NotifyTypes, stopping
  <1>2. CASE d \notin dirs
    <2> DEFINE e == [path |-> d, kind |-> "mkdir", size |-> 0]
    <2>1. /\ inFlight' = Append(inFlight, e) /\ dirs' = dirs \cup {d}
          /\ kernel' = kernel /\ removedDirs' = removedDirs
      BY <1>2 DEF ChangeDir, Notify
    <2>2. e \in SentEvents /\ \A x : IsMkdir(e, x) <=> x = d
      BY DEF SentEvents, Paths, IsMkdir
    <2> HIDE DEF e
    <2>3. inFlight' \in Seq(SentEvents) /\ \A x : OnItsWay(x)' <=> OnItsWay(x) \/ x = d
      BY <1>1, <2>1, <2>2, EventSent DEF TreeInv
    <2>4. NodeInv'
      BY <1>1, <1>2, <2>1, <2>3 DEF TreeInv, NodeInv
    <2>5. QED BY <1>1, <2>3, <2>4 DEF TreeInv, NotifyTypes
  <1>3. CASE d \in dirs
    <2> DEFINE e == [path |-> d, kind |-> "delete", size |-> 0]
    <2>1. /\ inFlight' = Append(inFlight, e) /\ dirs' = dirs \ {d}
          /\ kernel' = kernel \ {d} /\ removedDirs' = removedDirs \cup {d}
      BY <1>3 DEF ChangeDir, Notify
    <2>2. e \in SentEvents /\ \A x : ~IsMkdir(e, x)
      BY DEF SentEvents, Paths, IsMkdir
    <2> HIDE DEF e
    <2>3. inFlight' \in Seq(SentEvents) /\ \A x : OnItsWay(x)' <=> OnItsWay(x)
      BY <1>1, <2>1, <2>2, EventSent DEF TreeInv
    <2>4. NodeInv'
      BY <1>1, <2>1, <2>3 DEF TreeInv, NodeInv
    <2>5. QED BY <1>1, <2>3, <2>4 DEF TreeInv, NotifyTypes
  <1>4. QED BY <1>2, <1>3

LEMMA DispatchTree ==
  ASSUME TreeInv, NEW i \in DOMAIN inFlight, Dispatch(i) PROVE TreeInv'
  <1> DEFINE e == inFlight[i]
             r == Without(inFlight, i)
  <1>1. /\ UNCHANGED <<dirs, removedDirs, changes, kernel, recNodes, closer, closedChans>>
        /\ inFlight' = r
        /\ \/ e.kind = "mkdir" /\ newDirs' = Append(newDirs, e.path)
           \/ e.kind # "mkdir" /\ newDirs' = newDirs
    BY DEF Dispatch, tree, stopping
  <1>2. /\ inFlight \in Seq(SentEvents) /\ newDirs \in Seq(Paths) /\ e \in SentEvents
        /\ e.path \in Paths
    <2>1. inFlight \in Seq(SentEvents) /\ newDirs \in Seq(Paths)
      BY DEF TreeInv, NotifyTypes
    <2>2. e \in SentEvents
      BY <2>1
    <2>3. e.path \in Paths
      BY <2>2 DEF SentEvents
    <2>4. QED BY <2>1, <2>2, <2>3
  <1>3. /\ r \in Seq(SentEvents)
        /\ \A n \in DOMAIN r : \E m \in DOMAIN inFlight : r[n] = inFlight[m]
        /\ \A m \in DOMAIN inFlight : m # i => \E n \in DOMAIN r : r[n] = inFlight[m]
    <2>1. r \in Seq(SentEvents) /\ Dropped(inFlight, i, r)
      BY <1>2, WithoutDrops
    <2> HIDE DEF r
    <2>2. QED BY <1>2, <2>1, WithoutOne
  <1> HIDE DEF r
  <1>4. \A d : /\ Sent(d)' => Sent(d)
               /\ Sent(d) => Sent(d)' \/ IsMkdir(e, d)
    BY <1>1, <1>3 DEF Sent, IsMkdir
  <1>5. CASE e.kind # "mkdir"
    <2>1. newDirs' = newDirs /\ \A d : ~IsMkdir(e, d)
      BY <1>1, <1>5 DEF IsMkdir
    <2>2. \A d : OnItsWay(d)' <=> OnItsWay(d)
      BY <1>4, <2>1 DEF OnItsWay, Includes
    <2>3. QED BY <1>1, <1>3, <2>1, <2>2 DEF TreeInv, NotifyTypes, NodeInv, Watching
  <1>6. CASE e.kind = "mkdir"
    <2> DEFINE q == Append(newDirs, e.path)
    <2>1. /\ q \in Seq(Paths)
          /\ \A n \in DOMAIN newDirs : n \in DOMAIN q /\ q[n] = newDirs[n]
          /\ \A n \in DOMAIN q : n \in DOMAIN newDirs \/ q[n] = e.path
          /\ Len(newDirs) + 1 \in DOMAIN q /\ q[Len(newDirs) + 1] = e.path
      BY <1>2, AppendedAt
    <2>2. newDirs' = q
      BY <1>1, <1>6
    <2> HIDE DEF q
    <2>3. \A d : Includes(newDirs, d)' <=> Includes(newDirs, d) \/ IsMkdir(e, d)
      BY <1>6, <2>1, <2>2 DEF Includes, IsMkdir
    <2>4. \A d : IsMkdir(e, d) => Sent(d)
      BY DEF Sent
    <2>5. \A d : OnItsWay(d)' <=> OnItsWay(d)
      BY <1>4, <2>3, <2>4 DEF OnItsWay
    <2>6. QED BY <1>1, <1>3, <2>1, <2>2, <2>5 DEF TreeInv, NotifyTypes, NodeInv, Watching
  <1>7. QED BY <1>5, <1>6

LEMMA InternalTree == ASSUME TreeInv, Internal PROVE TreeInv'
  <1> DEFINE h == Head(newDirs)
  <1>1. /\ UNCHANGED <<dirs, removedDirs, changes, inFlight, closer, closedChans>>
        /\ newDirs # <<>> /\ newDirs' = Tail(newDirs) /\ newDirs \in Seq(Paths)
        /\ IF Watching /\ h \notin recNodes
           THEN recNodes' = recNodes \cup {h} /\ kernel' = kernel \cup ({h} \cap dirs)
           ELSE UNCHANGED <<recNodes, kernel>>
    BY DEF Internal, tree, stopping, TreeInv, NotifyTypes
  <1>2. /\ Tail(newDirs) \in Seq(Paths) /\ Includes(newDirs, h)
        /\ \A y : Includes(newDirs, y)' => Includes(newDirs, y)
        /\ \A y : Includes(newDirs, y) => y = h \/ Includes(newDirs, y)'
    BY <1>1, HeadTaken DEF Includes
  <1>3. /\ \A d : OnItsWay(d)' => OnItsWay(d)
        /\ \A d : OnItsWay(d) => d = h \/ OnItsWay(d)'
        /\ OnItsWay(h)
    BY <1>1, <1>2 DEF OnItsWay, Sent
  <1>4. NodeInv'
    BY <1>1, <1>3 DEF TreeInv, NodeInv, Watching
  <1>5. QED BY <1>1, <1>2, <1>4 DEF TreeInv, NotifyTypes

LEMMA CloseTree == ASSUME TreeInv, Close PROVE TreeInv'
  <1>1. UNCHANGED <<dirs, removedDirs, changes, inFlight, newDirs>>
    BY DEF Close, tree
  <1>2. /\ closer' \in {"wait", "events", "errors", "stopped", "over"}
        /\ closer' # "wait" => closedChans' # {}
        /\ Watching' => Watching /\ UNCHANGED <<kernel, recNodes>>
    BY DEF Close, CloseFs, CloseS3, Watching, TreeInv, NotifyTypes
  <1>3. QED
    BY <1>1, <1>2 DEF TreeInv, NotifyTypes, NodeInv, OnItsWay, Sent, Includes

LEMMA TreeStep == TreeInv /\ [WatchNext]_watchVars => TreeInv'
  <1> SUFFICES ASSUME TreeInv, [WatchNext]_watchVars PROVE TreeInv'
    OBVIOUS
  <1>1. ASSUME NEW f \in Files, PutFile(f) \/ DeleteFile(f) PROVE TreeInv'
    BY <1>1, ChangeFileTree DEF PutFile, DeleteFile, TreeInv, NotifyTypes
  <1>2. ASSUME NEW d \in Dirs, ChangeDir(d) PROVE TreeInv'
    BY <1>2, ChangeDirTree
  <1>3. ASSUME NEW i \in DOMAIN inFlight, Dispatch(i) PROVE TreeInv'
    BY <1>3, DispatchTree
  <1>4. CASE Internal
    BY <1>4, InternalTree
  <1>5. CASE Close
    BY <1>5, CloseTree
  <1>6. CASE \/ TakeEvent \/ PipeRangeEnds \/ SendPanics \/ JoinSelects
             \/ JoinForwards \/ StopWatcher \/ MainWatch \/ UNCHANGED watchVars
    <2>1. UNCHANGED <<tree, notify, closer, closedChans>>
      BY <1>6 DEF TakeEvent, PipeRangeEnds, SendPanics, JoinSelects, JoinForwards,
                  StopWatcher, MainWatch, watchVars, stopping
    <2>2. QED
      BY <2>1 DEF tree, notify, TreeInv, NotifyTypes, NodeInv, Watching, OnItsWay,
                  Sent, Includes
  <1>7. QED BY <1>1, <1>2, <1>3, <1>4, <1>5, <1>6 DEF WatchNext

\* A directory that appears, and was never removed, gets its inotify watch,
\* whichever events about it are overtaken or still under way: NewDirIsWatched.
THEOREM NewDirsAreWatched == WatchSpec => []NewDirIsWatched
  <1>1. WatchInit => TreeInv
    BY DEF WatchInit, TreeInv, NotifyTypes, NodeInv, OnItsWay, Sent, Includes
  <1>2. ASSUME TreeInv, Quiet PROVE dirs \ removedDirs \subseteq kernel
    <2>1. inFlight = <<>> /\ newDirs = <<>> /\ closedChans = {}
      BY <1>2 DEF Quiet
    <2>2. Watching
      BY <1>2, <2>1 DEF TreeInv, NotifyTypes, Watching
    <2>3. \A d : ~OnItsWay(d)
      BY <2>1 DEF OnItsWay, Sent, Includes
    <2>4. QED BY <1>2, <2>2, <2>3 DEF TreeInv, NodeInv
  <1>3. TreeInv => NewDirIsWatched
    BY <1>2 DEF NewDirIsWatched
  <1>4. QED BY <1>1, <1>3, TreeStep, PTL DEF WatchSpec

-----------------------------------------------------------------------------
(***************************************************************************)
(* QuietMeansTold: of the events and messages about a file that are under  *)
(* way, the last in the order in which they will be heard tells the truth; *)
(* when there is none the consumer has heard it.                           *)
(***************************************************************************)
NoneOf(s, f) == \A n \in DOMAIN s : s[n].path # f
LastSays(s, f, x) ==
  \A n \in DOMAIN s :
    s[n].path = f /\ (\A m \in DOMAIN s : m > n => s[m].path # f) => s[n].size = x

\* A message that is being sent, or forwarded.
Says(s, f, x) ==
  \A n \in DOMAIN s : s[n].path = f => s[n].ch = "events" /\ s[n].size = x

Follows(f) ==
  IF ~NoneOf(inFlight, f) THEN LastSays(inFlight, f, disk[f])
  ELSE IF ~NoneOf(pipe, f) THEN LastSays(pipe, f, disk[f])
  ELSE IF ~NoneOf(offer, f) THEN Says(offer, f, disk[f])
  ELSE IF ~NoneOf(joinHolds, f) THEN Says(joinHolds, f, disk[f])
  ELSE told[f] = disk[f]

FileEvents ==
  {e \in SentEvents :
     /\ e.kind = "put" => e.path \in Files
     /\ e.path \in Files => e.kind # "mkdir" /\ (e.kind = "put" <=> e.size # 0)}
SentMessages == [ch : {"events", "errors"}, path : Paths, size : Nat]
Single == {<<>>} \cup {<<m>> : m \in SentMessages}

ToldTypes ==
  /\ inFlight \in Seq(FileEvents) /\ pipe \in Seq(FileEvents)
  /\ offer \in Single /\ joinHolds \in Single
  /\ disk \in [Files -> Nat] /\ told \in [Files -> Nat] /\ changes \in Nat
  /\ origin # "fs" => inFlight = <<>>
  /\ consumerKind = "watch" => joinHolds = <<>>

FollowInv == \A f \in Files \ excused : Follows(f)

ToldInv == ToldTypes /\ FollowInv

-----------------------------------------------------------------------------
\* The last word on f when an element is appended.
LEMMA AppendSays ==
  ASSUME NEW S, NEW q \in Seq(S), NEW e \in S, NEW f
  PROVE  /\ Append(q, e) \in Seq(S)
         /\ e.path # f => /\ NoneOf(Append(q, e), f) <=> NoneOf(q, f)
                          /\ \A x : LastSays(q, f, x) => LastSays(Append(q, e), f, x)
         /\ e.path = f => /\ ~NoneOf(Append(q, e), f)
                          /\ LastSays(Append(q, e), f, e.size)
  <1> DEFINE r == Append(q, e)
  <1>1. /\ Len(q) \in Nat /\ DOMAIN q = 1..Len(q) /\ DOMAIN r = 1..(Len(q) + 1)
        /\ r \in Seq(S)
    OBVIOUS
  <1>2. r[Len(q) + 1] = e /\ \A m \in 1..Len(q) : r[m] = q[m]
    OBVIOUS
  <1> HIDE DEF r
  <1>3. CASE e.path = f
    <2>1. ~NoneOf(r, f)
      BY <1>1, <1>2, <1>3 DEF NoneOf
    <2>2. ASSUME NEW n \in DOMAIN r, \A m \in DOMAIN r : m > n => r[m].path # f
          PROVE  r[n] = e
      BY <1>1, <1>2, <1>3, <2>2
    <2>3. LastSays(r, f, e.size)
      BY <2>2 DEF LastSays
    <2>4. QED BY <1>1, <1>3, <2>1, <2>3 DEF r
  <1>4. CASE e.path # f
    <2>1. NoneOf(r, f) <=> NoneOf(q, f)
      BY <1>1, <1>2, <1>4 DEF NoneOf
    <2>2. ASSUME NEW x, LastSays(q, f, x) PROVE LastSays(r, f, x)
      <3>1. ASSUME NEW n \in DOMAIN r, r[n].path = f,
                   \A m \in DOMAIN r : m > n => r[m].path # f
            PROVE  r[n].size = x
        <4>1. n \in DOMAIN q /\ r[n] = q[n]
          BY <1>1, <1>2, <1>4, <3>1
        <4>2. \A m \in DOMAIN q : m > n => q[m].path # f
          BY <1>1, <1>2, <3>1
        <4>3. QED BY <2>2, <3>1, <4>1, <4>2 DEF LastSays
      <3>2. QED BY <3>1 DEF LastSays
    <2>3. QED BY <1>1, <1>4, <2>1, <2>2 DEF r
  <1>5. QED BY <1>3, <1>4

\* The last word on f when an element is taken that is not about f, or is the
\* first about it.
LEMMA DroppedSays ==
  ASSUME NEW S, NEW q \in Seq(S), NEW i \in 1..Len(q), NEW r, Dropped(q, i, r),
         NEW f, q[i].path = f => \A j \in 1..(i - 1) : q[j].path # f
  PROVE  /\ \A x : LastSays(q, f, x) => LastSays(r, f, x)
         /\ q[i].path # f => (NoneOf(r, f) <=> NoneOf(q, f))
         /\ q[i].path = f => /\ ~NoneOf(q, f)
                             /\ \A x : NoneOf(r, f) /\ LastSays(q, f, x) => q[i].size = x
  <1>1. /\ Len(q) \in Nat /\ DOMAIN q = 1..Len(q) /\ i \in DOMAIN q
        /\ Len(r) = Len(q) - 1 /\ DOMAIN r = 1..Len(r)
        /\ \A n \in 1..Len(r) : r[n] = IF n < i THEN q[n] ELSE q[n + 1]
    BY DEF Dropped
  <1>2. ASSUME NEW m \in DOMAIN q, m # i
        PROVE  \E n \in DOMAIN r : r[n] = q[m] /\ n = IF m < i THEN m ELSE m - 1
    <2>1. CASE m < i
      BY <1>1, <2>1
    <2>2. CASE m > i
      <3>1. m - 1 \in 1..Len(r) /\ ~(m - 1 < i) /\ (m - 1) + 1 = m
        BY <1>1, <2>2
      <3>2. r[m - 1] = q[(m - 1) + 1]
        BY <1>1, <3>1
      <3>3. QED BY <1>1, <2>2, <3>1, <3>2
    <2>3. QED BY <1>1, <1>2, <2>1, <2>2
  <1>3. ASSUME NEW n \in DOMAIN r
        PROVE  \E m \in DOMAIN q : m # i /\ r[n] = q[m] /\ m = IF n < i THEN n ELSE n + 1
    BY <1>1
  <1>4. ASSUME NEW x, LastSays(q, f, x) PROVE LastSays(r, f, x)
    <2>1. ASSUME NEW n \in DOMAIN r, r[n].path = f,
                 \A k \in DOMAIN r : k > n => r[k].path # f
          PROVE  r[n].size = x
      <3>1. PICK m \in DOMAIN q : m # i /\ r[n] = q[m] /\ m = IF n < i THEN n ELSE n + 1
        BY <1>3
      <3>2. ASSUME NEW k \in DOMAIN q, k > m PROVE q[k].path # f
        <4>1. CASE k = i
          BY <1>1, <2>1, <3>1, <3>2, <4>1
        <4>2. CASE k # i
          <5>1. PICK l \in DOMAIN r : r[l] = q[k] /\ l = IF k < i THEN k ELSE k - 1
            BY <1>2, <4>2
          <5>2. l > n
            BY <1>1, <3>1, <3>2, <4>2, <5>1
          <5>3. QED BY <2>1, <5>1, <5>2
        <4>3. QED BY <4>1, <4>2
      <3>3. QED BY <1>4, <2>1, <3>1, <3>2 DEF LastSays
    <2>2. QED BY <2>1 DEF LastSays
  <1>5. ASSUME q[i].path # f PROVE NoneOf(r, f) <=> NoneOf(q, f)
    BY <1>2, <1>3, <1>5 DEF NoneOf
  <1>6. ASSUME q[i].path = f
        PROVE  /\ ~NoneOf(q, f)
               /\ \A x : NoneOf(r, f) /\ LastSays(q, f, x) => q[i].size = x
    <2>1. ~NoneOf(q, f)
      BY <1>1, <1>6 DEF NoneOf
    <2>2. ASSUME NoneOf(r, f), NEW m \in DOMAIN q, m > i PROVE q[m].path # f
      BY <1>1, <1>2, <2>2 DEF NoneOf
    <2>3. QED BY <1>1, <1>6, <2>1, <2>2 DEF LastSays
  <1>7. QED BY <1>4, <1>5, <1>6

LEMMA SameFollows ==
  ASSUME NEW f, UNCHANGED <<inFlight, pipe, offer, joinHolds, disk, told>>
  PROVE  Follows(f)' <=> Follows(f)
  BY DEF Follows, NoneOf, LastSays, Says

LEMMA ChangeFileTold ==
  ASSUME ToldInv, NEW f \in Files, NEW size \in Nat, ChangeFile(f, size)
  PROVE  ToldInv'
  <1> DEFINE e == [path |-> f, kind |-> IF size = 0 THEN "delete" ELSE "put",
                   size |-> size]
             q == Append(inFlight, e)
             r == Append(pipe, e)
  <1>1. /\ UNCHANGED <<offer, joinHolds, told, origin, consumerKind>>
        /\ disk' = [disk EXCEPT ![f] = size] /\ disk \in [Files -> Nat]
        /\ changes' \in Nat
        /\ \A g \in Files \ excused' : g = f \/ g \notin excused
    BY DEF ChangeFile, receiving, kind, ToldInv, ToldTypes
  <1>2. /\ disk' \in [Files -> Nat] /\ disk'[f] = size
        /\ \A g \in Files : g # f => disk'[g] = disk[g]
    BY <1>1
  <1>3. e \in FileEvents /\ e.path = f /\ e.size = size
    BY DEF FileEvents, SentEvents, Paths
  <1>4. inFlight \in Seq(FileEvents) /\ pipe \in Seq(FileEvents)
    BY DEF ToldInv, ToldTypes
  <1>5. \/ f \in excused' /\ UNCHANGED <<inFlight, pipe>>
        \/ origin = "fs" /\ inFlight' = q /\ pipe' = pipe
        \/ origin # "fs" /\ pipe' = r /\ inFlight' = inFlight /\ inFlight = <<>>
    BY DEF ChangeFile, Notify, Q!Accept, pipeState, ToldInv, ToldTypes
  <1> HIDE DEF e
  <1>6. q \in Seq(FileEvents) /\ r \in Seq(FileEvents)
    BY <1>3, <1>4, AppendSays
  <1>7. /\ ~NoneOf(q, f) /\ LastSays(q, f, size)
        /\ \A g : g # f => /\ NoneOf(q, g) <=> NoneOf(inFlight, g)
                           /\ \A x : LastSays(inFlight, g, x) => LastSays(q, g, x)
    BY <1>3, <1>4, AppendSays
  <1>8. /\ ~NoneOf(r, f) /\ LastSays(r, f, size)
        /\ \A g : g # f => /\ NoneOf(r, g) <=> NoneOf(pipe, g)
                           /\ \A x : LastSays(pipe, g, x) => LastSays(r, g, x)
    BY <1>3, <1>4, AppendSays
  <1> HIDE DEF q, r
  <1>9. ToldTypes'
    BY <1>1, <1>2, <1>4, <1>5, <1>6 DEF ToldInv, ToldTypes
  <1>10. ASSUME NEW g \in Files \ excused' PROVE Follows(g)'
    <2>1. CASE g = f
      <3>1. CASE inFlight' = q
        BY <1>2, <1>7, <2>1, <3>1 DEF Follows
      <3>2. CASE pipe' = r /\ inFlight' = <<>>
        BY <1>2, <1>8, <2>1, <3>2 DEF Follows, NoneOf
      <3>3. QED BY <1>5, <1>10, <2>1, <3>1, <3>2
    <2>2. CASE g # f
      <3>1. Follows(g) /\ disk'[g] = disk[g]
        BY <1>1, <1>2, <1>10, <2>2 DEF ToldInv, FollowInv
      <3>2. CASE UNCHANGED <<inFlight, pipe>>
        BY <1>1, <3>1, <3>2 DEF Follows
      <3>3. CASE inFlight' = q /\ pipe' = pipe
        BY <1>1, <1>7, <2>2, <3>1, <3>3 DEF Follows
      <3>4. CASE pipe' = r /\ inFlight' = inFlight
        BY <1>1, <1>8, <2>2, <3>1, <3>4 DEF Follows
      <3>5. QED BY <1>5, <3>2, <3>3, <3>4
    <2>3. QED BY <2>1, <2>2
  <1>11. QED BY <1>9, <1>10 DEF ToldInv, FollowInv

LEMMA ChangeDirTold ==
  ASSUME ToldInv, NEW d \in Dirs, ChangeDir(d) PROVE ToldInv'
  <1>1. /\ UNCHANGED <<disk, pipe, offer, joinHolds, told, origin, consumerKind, excused>>
        /\ changes' \in Nat /\ origin = "fs" /\ inFlight \in Seq(FileEvents)
    BY DEF ChangeDir, Notify, pipeState, receiving, kind, ToldInv, ToldTypes
  <1>2. \E k \in {"mkdir", "delete"} :
          inFlight' = Append(inFlight, [path |-> d, kind |-> k, size |-> 0])
    BY DEF ChangeDir, Notify
  <1>3. PICK k \in {"mkdir", "delete"} :
          inFlight' = Append(inFlight, [path |-> d, kind |-> k, size |-> 0])
    BY <1>2
  <1> DEFINE e == [path |-> d, kind |-> k, size |-> 0]
             q == Append(inFlight, e)
  <1>4. e \in FileEvents /\ \A f \in Files : e.path # f
    BY WatchAssumption DEF WatchAssumption, FileEvents, SentEvents, Paths
  <1> HIDE DEF e
  <1>5. q \in Seq(FileEvents)
    BY <1>1, <1>4, AppendSays
  <1>6. \A f \in Files : /\ NoneOf(q, f) <=> NoneOf(inFlight, f)
                         /\ \A x : LastSays(inFlight, f, x) => LastSays(q, f, x)
    BY <1>1, <1>4, AppendSays
  <1>7. inFlight' = q
    BY <1>3 DEF e
  <1> HIDE DEF q
  <1>8. ToldTypes'
    BY <1>1, <1>5, <1>7 DEF ToldInv, ToldTypes
  <1>9. ASSUME NEW f \in Files \ excused PROVE Follows(f)'
    <2>1. Follows(f)
      BY DEF ToldInv, FollowInv
    <2>2. QED BY <1>1, <1>6, <1>7, <2>1 DEF Follows
  <1>10. QED BY <1>1, <1>8, <1>9 DEF ToldInv, FollowInv

LEMMA DispatchTold ==
  ASSUME ToldInv, WatchIInv, NEW i \in DOMAIN inFlight, Dispatch(i) PROVE ToldInv'
  <1> DEFINE e == inFlight[i]
             q == Without(inFlight, i)
             r == Append(pipe, e)
             first == \A j \in 1..(i - 1) : inFlight[j].path # e.path
  <1>1. /\ UNCHANGED <<disk, changes, offer, joinHolds, told, origin, consumerKind>>
        /\ inFlight' = q /\ excused \subseteq excused'
    BY DEF Dispatch, tree, receiving, kind
  <1>2. /\ inFlight \in Seq(FileEvents) /\ pipe \in Seq(FileEvents) /\ origin = "fs"
        /\ e \in FileEvents /\ i \in 1..Len(inFlight)
    <2>1. inFlight \in Seq(FileEvents) /\ pipe \in Seq(FileEvents)
      BY DEF ToldInv, ToldTypes
    <2>2. origin = "fs"
      BY DEF ToldInv, ToldTypes
    <2>3. QED BY <2>1, <2>2
  <1>3. q \in Seq(FileEvents) /\ Dropped(inFlight, i, q)
    BY <1>2, WithoutDrops
  <1>4. \/ pipe' = pipe /\ (e.path \in Files => e.path \in excused')
        \/ pipe' = r /\ (e.path \in Files => first \/ e.path \in excused')
    <2>1. ~(Watching /\ shut)
      BY DEF WatchIInv, PipeInv, Watching
    <2>2. e.kind = "mkdir" => e.path \notin Files
      BY <1>2 DEF FileEvents
    <2>3. QED BY <2>1, <2>2 DEF Dispatch, Q!Accept, pipeState
  <1>5. pipe' = pipe \/ pipe' = r
    BY DEF Dispatch, Q!Accept, pipeState
  <1> HIDE DEF q
  <1>6. r \in Seq(FileEvents)
    BY <1>2, AppendSays
  <1>7. ToldTypes'
    BY <1>1, <1>2, <1>3, <1>5, <1>6 DEF ToldInv, ToldTypes
  <1>8. ASSUME NEW f \in Files \ excused' PROVE Follows(f)'
    <2>1. Follows(f)
      BY <1>1, <1>8 DEF ToldInv, FollowInv
    <2>2. CASE e.path # f
      <3>1. /\ NoneOf(q, f) <=> NoneOf(inFlight, f)
            /\ \A x : LastSays(inFlight, f, x) => LastSays(q, f, x)
        BY <1>2, <1>3, <2>2, DroppedSays
      <3>2. /\ NoneOf(r, f) <=> NoneOf(pipe, f)
            /\ \A x : LastSays(pipe, f, x) => LastSays(r, f, x)
        BY <1>2, <2>2, AppendSays
      <3> HIDE DEF r
      <3>3. QED BY <1>1, <1>5, <2>1, <3>1, <3>2 DEF Follows
    <2>3. CASE e.path = f
      <3>1. first /\ pipe' = r
        BY <1>4, <1>8, <2>3
      <3>2. /\ \A x : LastSays(inFlight, f, x) => LastSays(q, f, x)
            /\ ~NoneOf(inFlight, f)
            /\ \A x : NoneOf(q, f) /\ LastSays(inFlight, f, x) => e.size = x
        BY <1>2, <1>3, <2>3, <3>1, DroppedSays
      <3>3. ~NoneOf(r, f) /\ LastSays(r, f, e.size)
        BY <1>2, <2>3, AppendSays
      <3> HIDE DEF r
      <3>4. QED BY <1>1, <2>1, <3>1, <3>2, <3>3 DEF Follows
    <2>4. QED BY <2>2, <2>3
  <1>9. QED BY <1>7, <1>8 DEF ToldInv, FollowInv

LEMMA TailDrops ==
  ASSUME NEW S, NEW q \in Seq(S), q # <<>>
  PROVE  /\ Tail(q) \in Seq(S) /\ Head(q) \in S /\ Head(q) = q[1]
         /\ Dropped(q, 1, Tail(q)) /\ 1 \in 1..Len(q)
  <1> DEFINE r == Tail(q)
  <1>1. r \in Seq(S) /\ Len(r) = Len(q) - 1 /\ Len(q) \in Nat \ {0}
    OBVIOUS
  <1>2. \A n \in 1..(Len(q) - 1) : r[n] = q[n + 1]
    BY <1>1
  <1>3. Head(q) \in S /\ Head(q) = q[1]
    OBVIOUS
  <1> HIDE DEF r
  <1>4. DOMAIN r = 1..Len(r)
    BY <1>1
  <1>5. Dropped(q, 1, r)
    BY <1>1, <1>2, <1>4 DEF Dropped
  <1>6. QED BY <1>1, <1>3, <1>5 DEF r

LEMMA TakeTold == ASSUME ToldInv, TakeEvent PROVE ToldInv'
  <1> DEFINE e == Head(pipe)
             r == Tail(pipe)
             gone == origin = "fs" /\ e.kind = "put" /\ disk[e.path] = 0
             size == IF origin = "fs" /\ e.kind = "put" THEN disk[e.path] ELSE e.size
  <1>1. /\ UNCHANGED <<inFlight, disk, changes, joinHolds, told, origin, consumerKind>>
        /\ pipe # <<>> /\ pipe' = r /\ offer = <<>> /\ excused \subseteq excused'
    BY DEF TakeEvent, Q!Deliver, tree, notify, receiving, kind
  <1>2. \/ offer' = (IF gone THEN <<>> ELSE Message("events", e.path, size))
        \/ /\ offer' = Message("errors", e.path, 0)
           /\ e.path \in Files => e.path \in excused'
           /\ origin = "fs" => e.kind = "put"
    BY DEF TakeEvent
  <1>3. /\ pipe \in Seq(FileEvents) /\ r \in Seq(FileEvents) /\ e \in FileEvents
        /\ e = pipe[1] /\ Dropped(pipe, 1, r) /\ 1 \in 1..Len(pipe)
    <2>1. pipe \in Seq(FileEvents)
      BY DEF ToldInv, ToldTypes
    <2>2. QED BY <1>1, <2>1, TailDrops
  <1> HIDE DEF r
  <1>4. /\ e.path \in Paths /\ e.size \in Nat
        /\ e.path \in Files => (e.kind = "put" <=> e.size # 0)
        /\ e.kind = "put" => e.path \in Files
    BY <1>3 DEF FileEvents, SentEvents
  <1> HIDE DEF e
  <1>5. ASSUME NEW f \in Files \ excused' PROVE Follows(f)'
    <2>1. Follows(f)
      BY <1>1, <1>5 DEF ToldInv, FollowInv
    <2>2. CASE e.path # f
      <3>1. /\ NoneOf(r, f) <=> NoneOf(pipe, f)
            /\ \A x : LastSays(pipe, f, x) => LastSays(r, f, x)
        BY <1>3, <2>2, DroppedSays
      <3>2. NoneOf(offer', f) /\ NoneOf(offer, f)
        BY <1>1, <1>2, <2>2 DEF NoneOf, Message
      <3>3. QED BY <1>1, <2>1, <3>1, <3>2 DEF Follows
    <2>3. CASE e.path = f
      <3>1. /\ \A x : LastSays(pipe, f, x) => LastSays(r, f, x)
            /\ ~NoneOf(pipe, f)
            /\ \A x : NoneOf(r, f) /\ LastSays(pipe, f, x) => e.size = x
        BY <1>3, <2>3, DroppedSays
      <3>2. CASE ~(NoneOf(inFlight, f) /\ NoneOf(r, f))
        BY <1>1, <2>1, <3>1, <3>2 DEF Follows
      <3>3. CASE NoneOf(inFlight, f) /\ NoneOf(r, f)
        <4>1. e.size = disk[f]
          BY <2>1, <3>1, <3>3 DEF Follows
        <4>2. ~gone /\ size = disk[f]
          BY <1>4, <2>3, <4>1
        <4>3. offer' = Message("events", f, disk[f])
          BY <1>2, <1>5, <2>3, <4>2
        <4>4. ~NoneOf(offer', f) /\ Says(offer', f, disk[f])
          BY <4>3 DEF NoneOf, Says, Message
        <4>5. QED BY <1>1, <3>3, <4>4 DEF Follows
      <3>4. QED BY <3>2, <3>3
    <2>4. QED BY <2>2, <2>3
  <1>6. offer' \in Single
    <2>1. size \in Nat
      BY <1>4 DEF ToldInv, ToldTypes
    <2> HIDE DEF size
    <2>2. \A ch \in {"events", "errors"}, n \in Nat : Message(ch, e.path, n) \in Single
      BY <1>4 DEF Message, Single, SentMessages
    <2>3. <<>> \in Single
      BY DEF Single
    <2>4. QED BY <1>2, <2>1, <2>2, <2>3
  <1>7. QED BY <1>1, <1>3, <1>5, <1>6 DEF ToldInv, ToldTypes, FollowInv

\* What a consumer hears is the last word on a file, or other words follow.
LEMMA Heard ==
  ASSUME ToldInv, NEW m \in SentMessages, Hear(m), excused' = excused,
         UNCHANGED <<inFlight, pipe, disk>>,
         \/ offer = <<m>> /\ offer' = <<>> /\ joinHolds = <<>> /\ joinHolds' = <<>>
         \/ joinHolds = <<m>> /\ joinHolds' = <<>> /\ offer' = offer
  PROVE  told' \in [Files -> Nat] /\ FollowInv'
  <1>1. told \in [Files -> Nat] /\ m.size \in Nat
    BY DEF ToldInv, ToldTypes, SentMessages
  <1>2. /\ told' \in [Files -> Nat]
        /\ \A f \in Files : m.path # f => told'[f] = told[f]
        /\ \A f \in Files : m.path = f /\ m.ch = "events" => told'[f] = m.size
    BY <1>1 DEF Hear
  <1>3. ASSUME NEW f \in Files \ excused PROVE Follows(f)'
    <2>1. Follows(f)
      BY DEF ToldInv, FollowInv
    <2>2. NoneOf(<<>>, f) /\ (NoneOf(<<m>>, f) <=> m.path # f)
      BY DEF NoneOf
    <2>3. \A x : Says(<<m>>, f, x) /\ m.path = f => m.ch = "events" /\ m.size = x
      BY DEF Says
    <2>4. CASE ~(NoneOf(inFlight, f) /\ NoneOf(pipe, f))
      BY <2>1, <2>4 DEF Follows
    <2>5. CASE NoneOf(inFlight, f) /\ NoneOf(pipe, f)
      <3>1. CASE offer = <<m>> /\ offer' = <<>> /\ joinHolds = <<>> /\ joinHolds' = <<>>
        BY <1>2, <2>1, <2>2, <2>3, <2>5, <3>1 DEF Follows
      <3>2. CASE joinHolds = <<m>> /\ joinHolds' = <<>> /\ offer' = offer
        BY <1>2, <2>1, <2>2, <2>3, <2>5, <3>2 DEF Follows
      <3>3. QED BY <3>1, <3>2
    <2>6. QED BY <2>4, <2>5
  <1>4. QED BY <1>2, <1>3 DEF FollowInv

LEMMA ConsumerTold ==
  ASSUME ToldInv, JoinSelects \/ JoinForwards \/ MainWatch PROVE ToldInv'
  <1>1. /\ UNCHANGED <<inFlight, pipe, disk, changes, origin, consumerKind, excused>>
        /\ offer \in Single /\ joinHolds \in Single
    BY DEF JoinSelects, JoinForwards, MainWatch, notify, pipeState, tree, kind,
           ToldInv, ToldTypes
  <1>2. \A s \in Single : s = <<>> \/ \E m \in SentMessages : s = <<m>> /\ s[1] = m
    BY DEF Single
  <1>3. <<>> \in Single
    BY DEF Single
  <1>4. CASE UNCHANGED <<offer, joinHolds, told>>
    <2>1. \A f \in Files \ excused : Follows(f)' <=> Follows(f)
      BY <1>1, <1>4, SameFollows
    <2>2. QED BY <1>1, <1>4, <2>1 DEF ToldInv, ToldTypes, FollowInv
  <1>5. CASE /\ joinHolds = <<>> /\ joinHolds' = offer /\ offer' = <<>>
             /\ told' = told /\ consumerKind = "mirror"
    <2>1. ASSUME NEW f \in Files \ excused PROVE Follows(f)'
      <3>1. Follows(f)
        BY DEF ToldInv, FollowInv
      <3>2. NoneOf(<<>>, f)
        BY DEF NoneOf
      <3>3. QED BY <1>1, <1>5, <3>1, <3>2 DEF Follows
    <2>2. QED BY <1>1, <1>3, <1>5, <2>1 DEF ToldInv, ToldTypes, FollowInv
  <1>6. CASE JoinForwards
    <2>1. /\ joinHolds # <<>> /\ Hear(joinHolds[1]) /\ joinHolds' = <<>>
          /\ offer' = offer
      BY <1>6 DEF JoinForwards
    <2>2. PICK m \in SentMessages : joinHolds = <<m>> /\ joinHolds[1] = m
      BY <1>1, <1>2, <2>1
    <2>3. told' \in [Files -> Nat] /\ FollowInv'
      BY <1>1, <2>1, <2>2, Heard
    <2>4. QED BY <1>1, <1>3, <2>1, <2>3 DEF ToldInv, ToldTypes
  <1>7. CASE MainWatch /\ offer # <<>> /\ Hear(offer[1]) /\ offer' = <<>>
    <2>1. joinHolds = <<>> /\ joinHolds' = <<>>
      BY <1>7 DEF MainWatch, ToldInv, ToldTypes
    <2>2. PICK m \in SentMessages : offer = <<m>> /\ offer[1] = m
      BY <1>1, <1>2, <1>7
    <2>3. told' \in [Files -> Nat] /\ FollowInv'
      BY <1>1, <1>7, <2>1, <2>2, Heard
    <2>4. QED BY <1>1, <1>3, <1>7, <2>1, <2>3 DEF ToldInv, ToldTypes
  <1>8. \A i \in DOMAIN offer : i = 1 /\ offer # <<>>
    BY <1>1, <1>2
  <1>9. JoinSelects => \/ UNCHANGED <<offer, joinHolds, told>>
                       \/ /\ joinHolds = <<>> /\ joinHolds' = offer /\ offer' = <<>>
                          /\ told' = told /\ consumerKind = "mirror"
    BY DEF JoinSelects
  <1>10. MainWatch => \/ UNCHANGED <<offer, joinHolds, told>>
                      \/ offer # <<>> /\ Hear(offer[1]) /\ offer' = <<>>
    BY <1>8 DEF MainWatch
  <1>11. QED BY <1>4, <1>5, <1>6, <1>7, <1>9, <1>10

LEMMA ToldStep ==
  ToldInv /\ WatchIInv /\ [WatchNext]_watchVars => ToldInv'
  <1> SUFFICES ASSUME ToldInv, WatchIInv, [WatchNext]_watchVars PROVE ToldInv'
    OBVIOUS
  <1>1. ASSUME NEW f \in Files, PutFile(f) \/ DeleteFile(f) PROVE ToldInv'
    BY <1>1, ChangeFileTold DEF PutFile, DeleteFile, ToldInv, ToldTypes
  <1>2. ASSUME NEW d \in Dirs, ChangeDir(d) PROVE ToldInv'
    BY <1>2, ChangeDirTold
  <1>3. ASSUME NEW i \in DOMAIN inFlight, Dispatch(i) PROVE ToldInv'
    BY <1>3, DispatchTold
  <1>4. CASE TakeEvent
    BY <1>4, TakeTold
  <1>5. CASE JoinSelects \/ JoinForwards \/ MainWatch
    BY <1>5, ConsumerTold
  <1>6. CASE \/ Internal \/ PipeRangeEnds \/ SendPanics \/ Close \/ StopWatcher
             \/ UNCHANGED watchVars
    <2>1. UNCHANGED <<inFlight, pipe, offer, joinHolds, disk, told, changes,
                      origin, consumerKind, excused>>
      BY <1>6 DEF Internal, PipeRangeEnds, SendPanics, Close, CloseFs, CloseS3,
                  Q!End, Q!Shut, StopWatcher, watchVars, kind, tree, notify,
                  pipeState, receiving
    <2>2. \A f \in Files \ excused : Follows(f)' <=> Follows(f)
      BY <2>1, SameFollows
    <2>3. QED BY <2>1, <2>2 DEF ToldInv, ToldTypes, FollowInv
  <1>7. QED BY <1>1, <1>2, <1>3, <1>4, <1>5, <1>6 DEF WatchNext

\* When nothing is under way the consumer knows the size of each file that is
\* not excused, however late its events were looked up on the disk: the last of
\* them could not be overtaken without an excuse.  QuietMeansTold.
THEOREM QuietIsTold == WatchSpec => []QuietMeansTold
  <1>1. WatchInit => ToldInv
    <2>1. ASSUME WatchInit PROVE ToldTypes
      BY <2>1 DEF WatchInit, Q!Init, ToldTypes, Single
    <2>2. ASSUME WatchInit, NEW f \in Files PROVE Follows(f)
      BY <2>2 DEF WatchInit, Q!Init, Follows, NoneOf
    <2>3. QED BY <2>1, <2>2 DEF ToldInv, FollowInv
  <1>2. ASSUME ToldInv, Quiet, NEW f \in Files \ excused PROVE told[f] = disk[f]
    <2>1. inFlight = <<>> /\ pipe = <<>> /\ offer = <<>> /\ joinHolds = <<>>
      BY <1>2 DEF Quiet
    <2>2. QED BY <1>2, <2>1 DEF ToldInv, FollowInv, Follows, NoneOf
  <1>3. ToldInv => QuietMeansTold
    BY <1>2 DEF QuietMeansTold
  <1>4. QED BY <1>1, <1>3, WatchInvariant, ToldStep, PTL DEF WatchSpec

-----------------------------------------------------------------------------
(***************************************************************************)
(* The types of a watch.                                                   *)
(***************************************************************************)
FileSizes == 0..MaxFsChanges
\* A put is of a file, and a directory is what is made.
OwnEvents ==
  {e \in Events : /\ e.kind = "put" => e.path \in Files
                  /\ e.kind = "mkdir" => e.path \in Dirs}
Sendings == {<<>>} \cup {<<m>> : m \in Messages}

WatchDiskOK == /\ disk \in [Files -> FileSizes] /\ changes \in FileSizes
          /\ origin \in Origins /\ consumerKind \in Consumers
WatchDirsOK == /\ kernel \subseteq dirs /\ dirs \subseteq Dirs /\ recNodes \subseteq Dirs
          /\ removedDirs \subseteq Dirs /\ newDirs \in Seq(Dirs)
WatchQueuesOK == inFlight \in Seq(OwnEvents) /\ pipe \in Seq(OwnEvents)
WatchSendsOK == offer \in Sendings /\ joinHolds \in Sendings /\ told \in [Files -> FileSizes]
WatchChansOK == closedChans \subseteq {"events", "errors"} /\ excused \subseteq Files
WatchOK == WatchDiskOK /\ WatchDirsOK /\ WatchQueuesOK /\ WatchSendsOK /\ WatchChansOK

\* Changes of the tree are counted, and are events.
LEMMA WatchChangesOK ==
  ASSUME WatchOK, \/ \E f \in Files : PutFile(f) \/ DeleteFile(f)
                  \/ \E d \in Dirs : ChangeDir(d)
  PROVE  WatchOK'
<1> USE DEF tree, notify, pipeState, stopping, receiving, kind
<1>0. MaxFsChanges \in Nat
  BY WatchAssumption
<1>1. ASSUME NEW f \in Files, NEW size \in FileSizes, ChangeFile(f, size)
      PROVE  WatchOK'
  <2>1. UNCHANGED <<origin, consumerKind, dirs, removedDirs, kernel, recNodes, newDirs,
                    offer, joinHolds, told, closedChans>>
    BY <1>1 DEF ChangeFile
  <2>2. WatchDiskOK'
    <3>1. disk' = [disk EXCEPT ![f] = size] /\ changes' = changes + 1
          /\ changes < MaxFsChanges
      BY <1>1 DEF ChangeFile
    <3> QED
      BY <1>0, <2>1, <3>1 DEF WatchOK, WatchDiskOK, FileSizes
  <2>3. WatchQueuesOK'
    <3> DEFINE e == [path |-> f, kind |-> IF size = 0 THEN "delete" ELSE "put",
                     size |-> size]
    <3>1. e \in OwnEvents
      BY DEF OwnEvents, Events, Paths, FileSizes
    <3>2. /\ inFlight' = inFlight \/ inFlight' = Append(inFlight, e)
          /\ pipe' = pipe \/ pipe' = Append(pipe, e)
      BY <1>1 DEF ChangeFile, Notify, Q!Accept
    <3> HIDE DEF e
    <3>3. inFlight \in Seq(OwnEvents) /\ pipe \in Seq(OwnEvents)
      BY DEF WatchOK, WatchQueuesOK
    <3>4. Append(inFlight, e) \in Seq(OwnEvents) /\ Append(pipe, e) \in Seq(OwnEvents)
      BY <3>1, <3>3, AppendedAt
    <3> QED
      BY <3>2, <3>3, <3>4, Zenon DEF WatchQueuesOK
  <2>4. WatchChansOK'
    BY <1>1, <2>1 DEF ChangeFile, WatchOK, WatchChansOK
  <2> QED
    BY <2>1, <2>2, <2>3, <2>4 DEF WatchOK, WatchDirsOK, WatchSendsOK
<1>2. ASSUME NEW f \in Files, PutFile(f) \/ DeleteFile(f) PROVE WatchOK'
  <2>1. changes \in Nat /\ 0 \in FileSizes
    BY <1>0 DEF WatchOK, WatchDiskOK, FileSizes
  <2>2. CASE PutFile(f)
    <3>1. changes + 1 \in FileSizes
      BY <1>0, <2>1, <2>2 DEF PutFile, ChangeFile, FileSizes
    <3> QED
      BY <1>1, <2>2, <3>1 DEF PutFile
  <2>3. CASE DeleteFile(f)
    BY <1>1, <2>1, <2>3 DEF DeleteFile
  <2> QED
    BY <1>2, <2>2, <2>3
<1>3. ASSUME NEW d \in Dirs, ChangeDir(d) PROVE WatchOK'
  <2>1. UNCHANGED <<origin, consumerKind, disk, recNodes, newDirs, offer, joinHolds,
                    told, closedChans, excused>>
    BY <1>3 DEF ChangeDir
  <2>2. changes' = changes + 1 /\ changes < MaxFsChanges
    BY <1>3 DEF ChangeDir
  <2>3. WatchDiskOK'
    BY <1>0, <2>1, <2>2 DEF WatchOK, WatchDiskOK, FileSizes
  <2>4. WatchDirsOK'
    BY <1>3, <2>1 DEF WatchOK, WatchDirsOK, ChangeDir
  <2>5. WatchQueuesOK'
    <3>1. \E k \in {"mkdir", "delete"} :
            /\ inFlight' = inFlight \/ inFlight' = Append(inFlight, [path |-> d, kind |-> k, size |-> 0])
            /\ pipe' = pipe \/ pipe' = Append(pipe, [path |-> d, kind |-> k, size |-> 0])
      BY <1>3 DEF ChangeDir, Notify, Q!Accept
    <3>2. PICK k \in {"mkdir", "delete"} :
            /\ inFlight' = inFlight \/ inFlight' = Append(inFlight, [path |-> d, kind |-> k, size |-> 0])
            /\ pipe' = pipe \/ pipe' = Append(pipe, [path |-> d, kind |-> k, size |-> 0])
      BY <3>1
    <3> DEFINE e == [path |-> d, kind |-> k, size |-> 0]
    <3>3. e \in OwnEvents
      BY <1>0 DEF OwnEvents, Events, Paths
    <3>4. /\ inFlight' = inFlight \/ inFlight' = Append(inFlight, e)
          /\ pipe' = pipe \/ pipe' = Append(pipe, e)
      BY <3>2
    <3> HIDE DEF e
    <3>5. inFlight \in Seq(OwnEvents) /\ pipe \in Seq(OwnEvents)
      BY DEF WatchOK, WatchQueuesOK
    <3>6. Append(inFlight, e) \in Seq(OwnEvents) /\ Append(pipe, e) \in Seq(OwnEvents)
      BY <3>3, <3>5, AppendedAt
    <3> QED
      BY <3>4, <3>5, <3>6, Zenon DEF WatchQueuesOK
  <2> QED
    BY <2>1, <2>3, <2>4, <2>5 DEF WatchOK, WatchSendsOK, WatchChansOK
<1> QED
  BY <1>2, <1>3

\* What pkg/fswatch makes of an event.
LEMMA WatchDispatchOK ==
  ASSUME WatchOK, (\E i \in DOMAIN inFlight : Dispatch(i)) \/ Internal
  PROVE  WatchOK'
<1> USE DEF tree, notify, pipeState, stopping, receiving, kind
<1>1. ASSUME NEW i \in DOMAIN inFlight, Dispatch(i) PROVE WatchOK'
  <2> DEFINE e == inFlight[i]
  <2>1. UNCHANGED <<origin, consumerKind, disk, dirs, changes, removedDirs, kernel, recNodes,
                    offer, joinHolds, told, closedChans>>
    BY <1>1 DEF Dispatch
  <2>2. inFlight \in Seq(OwnEvents) /\ e \in OwnEvents
    BY DEF WatchOK, WatchQueuesOK
  <2>3. inFlight' = Without(inFlight, i) /\ inFlight' \in Seq(OwnEvents)
    BY <1>1, <2>2, WithoutDrops DEF Dispatch
  <2>4. pipe' = pipe \/ pipe' = Append(pipe, e)
    BY <1>1 DEF Dispatch, Q!Accept
  <2>5. newDirs' = newDirs \/ (e.kind = "mkdir" /\ newDirs' = Append(newDirs, e.path))
    BY <1>1 DEF Dispatch
  <2>6. excused' \subseteq excused \cup Files
    BY <1>1 DEF Dispatch
  <2>7. e.kind = "mkdir" => e.path \in Dirs
    BY <2>2 DEF OwnEvents
  <2> HIDE DEF e
  <2>8. WatchQueuesOK'
    <3>1. pipe \in Seq(OwnEvents) /\ Append(pipe, e) \in Seq(OwnEvents)
      BY <2>2, AppendedAt DEF WatchOK, WatchQueuesOK
    <3> QED
      BY <2>3, <2>4, <3>1, Zenon DEF WatchQueuesOK
  <2>9. WatchDirsOK'
    BY <2>1, <2>5, <2>7 DEF WatchOK, WatchDirsOK
  <2>10. WatchChansOK'
    BY <2>1, <2>6 DEF WatchOK, WatchChansOK
  <2> QED
    BY <2>1, <2>8, <2>9, <2>10 DEF WatchOK, WatchDiskOK, WatchSendsOK
<1>2. CASE Internal
  <2>1. UNCHANGED <<origin, consumerKind, disk, dirs, changes, removedDirs, inFlight, pipe,
                    offer, joinHolds, told, closedChans, excused>>
    BY <1>2 DEF Internal
  <2>2. newDirs \in Seq(Dirs) /\ newDirs # <<>> /\ newDirs' = Tail(newDirs)
    BY <1>2 DEF Internal, WatchOK, WatchDirsOK
  <2>3. Head(newDirs) \in Dirs /\ newDirs' \in Seq(Dirs)
    BY <2>2, HeadTaken
  <2>4. WatchDirsOK'
    BY <1>2, <2>1, <2>3 DEF Internal, WatchOK, WatchDirsOK
  <2> QED
    BY <2>1, <2>4 DEF WatchOK, WatchDiskOK, WatchQueuesOK, WatchSendsOK, WatchChansOK
<1> QED
  BY <1>1, <1>2

\* What the goroutines of Watch make of it.
LEMMA WatchSenderOK ==
  ASSUME WatchOK, TakeEvent \/ PipeRangeEnds \/ SendPanics \/ Close
  PROVE  WatchOK'
<1> USE DEF tree, notify, pipeState, stopping, receiving, kind
<1>1. CASE TakeEvent
  <2> DEFINE e == Head(pipe)
             size == IF origin = "fs" /\ e.kind = "put" THEN disk[e.path] ELSE e.size
  <2>1. UNCHANGED <<origin, consumerKind, disk, dirs, changes, removedDirs, kernel, recNodes,
                    newDirs, inFlight, joinHolds, told, closedChans>>
    BY <1>1 DEF TakeEvent
  <2>2. pipe \in Seq(OwnEvents) /\ pipe # <<>> /\ pipe' = Tail(pipe)
    BY <1>1 DEF TakeEvent, Q!Deliver, WatchOK, WatchQueuesOK
  <2>3. e \in OwnEvents /\ pipe' \in Seq(OwnEvents)
    BY <2>2, HeadTaken
  <2>4. size \in FileSizes /\ 0 \in FileSizes /\ e.path \in Paths
    BY <2>3, WatchAssumption DEF WatchOK, WatchDiskOK, OwnEvents, Events, FileSizes
  <2>5. \/ offer' = <<>> \/ offer' = Message("events", e.path, size)
        \/ offer' = Message("errors", e.path, 0)
    BY <1>1 DEF TakeEvent
  <2>6. excused' \subseteq excused \cup Files
    BY <1>1 DEF TakeEvent
  <2> HIDE DEF e, size
  <2>7. offer' \in Sendings
    BY <2>4, <2>5 DEF Message, Sendings, Messages, FileSizes
  <2>8. WatchQueuesOK' /\ WatchSendsOK' /\ WatchChansOK'
    BY <2>1, <2>3, <2>6, <2>7 DEF WatchOK, WatchQueuesOK, WatchSendsOK, WatchChansOK
  <2> QED
    BY <2>1, <2>8 DEF WatchOK, WatchDiskOK, WatchDirsOK
<1>2. CASE PipeRangeEnds \/ SendPanics
  BY <1>2 DEF PipeRangeEnds, SendPanics, Q!End, WatchOK, WatchDiskOK, WatchDirsOK, WatchQueuesOK, WatchSendsOK, WatchChansOK
<1>3. CASE Close
  <2>1. UNCHANGED <<origin, consumerKind, disk, dirs, changes, removedDirs, newDirs, inFlight, pipe,
                    offer, joinHolds, told, excused>>
    BY <1>3 DEF Close, CloseFs, CloseS3, Q!Shut
  <2>2. kernel' \subseteq kernel /\ recNodes' \subseteq recNodes
    BY <1>3 DEF Close, CloseFs, CloseS3
  <2>3. closedChans' \subseteq {"events", "errors"}
    BY <1>3 DEF Close, CloseFs, CloseS3, WatchOK, WatchChansOK
  <2> QED
    BY <2>1, <2>2, <2>3 DEF WatchOK, WatchDiskOK, WatchDirsOK, WatchQueuesOK, WatchSendsOK, WatchChansOK
<1> QED
  BY <1>1, <1>2, <1>3

\* What the receivers make of it.
LEMMA WatchReceiverOK ==
  ASSUME WatchOK, JoinSelects \/ JoinForwards \/ StopWatcher \/ MainWatch
  PROVE  WatchOK'
<1> USE DEF tree, notify, pipeState, stopping, receiving, kind
<1>1. UNCHANGED <<origin, consumerKind, disk, dirs, changes, removedDirs, kernel, recNodes,
                  newDirs, inFlight, pipe, closedChans, excused>>
  BY DEF JoinSelects, JoinForwards, StopWatcher, MainWatch
<1>2. offer' \in Sendings /\ joinHolds' \in Sendings
  BY DEF JoinSelects, JoinForwards, StopWatcher, MainWatch, Sendings, WatchOK, WatchSendsOK
<1>3. told' \in [Files -> FileSizes]
  <2>0. told \in [Files -> FileSizes] /\ offer \in Sendings /\ joinHolds \in Sendings
    BY DEF WatchOK, WatchSendsOK
  <2>1. ASSUME NEW s \in Sendings, NEW i \in DOMAIN s, Hear(s[i]) PROVE told' \in [Files -> FileSizes]
    <3>1. s[i] \in Messages
      BY DEF Sendings
    <3>2. s[i].size \in FileSizes
      BY <3>1 DEF Messages, FileSizes
    <3> QED
      BY <2>0, <2>1, <3>2 DEF Hear
  <2>2. CASE told' = told
    BY <2>0, <2>2
  <2>3. CASE JoinForwards
    <3>1. joinHolds # <<>> /\ Hear(joinHolds[1])
      BY <2>3 DEF JoinForwards
    <3>2. 1 \in DOMAIN joinHolds
      BY <2>0, <3>1 DEF Sendings
    <3> QED
      BY <2>0, <2>1, <3>1, <3>2
  <2>4. CASE MainWatch /\ told' # told
    <3>1. \E i \in DOMAIN offer : Hear(offer[i])
      BY <2>4 DEF MainWatch
    <3> QED
      BY <2>0, <2>1, <3>1
  <2> QED
    BY <2>2, <2>3, <2>4 DEF JoinSelects, StopWatcher
<1> QED
  BY <1>1, <1>2, <1>3 DEF WatchOK, WatchDiskOK, WatchDirsOK, WatchQueuesOK, WatchSendsOK, WatchChansOK

\* A watch never hears of what is no path of the tree, nor of a size it never
\* had, inotify watches only what is there, and a directory that is to be added
\* to the tree is one: WatchTypeOK.
THEOREM WatchTypeCorrect == WatchSpec => []WatchTypeOK
<1>1. WatchInit => WatchOK
  BY WatchAssumption
     DEF WatchInit, Q!Init, WatchOK, WatchDiskOK, WatchDirsOK, WatchQueuesOK, WatchSendsOK, WatchChansOK, FileSizes, Sendings
<1>2. WatchOK /\ [WatchNext]_watchVars => WatchOK'
  <2> SUFFICES ASSUME WatchOK, [WatchNext]_watchVars PROVE WatchOK'
    OBVIOUS
  <2>1. CASE UNCHANGED watchVars
    BY <2>1 DEF watchVars, tree, notify, pipeState, stopping, receiving, kind,
                WatchOK, WatchDiskOK, WatchDirsOK, WatchQueuesOK, WatchSendsOK, WatchChansOK
  <2> QED
    BY <2>1, WatchChangesOK, WatchDispatchOK, WatchSenderOK, WatchReceiverOK DEF WatchNext
<1>3. WatchOK => WatchTypeOK
  <2> SUFFICES ASSUME WatchOK PROVE WatchTypeOK
    OBVIOUS
  <2>1. AllIn(inFlight, Events) /\ AllIn(pipe, Events)
    BY DEF WatchOK, WatchQueuesOK, AllIn, OwnEvents
  <2>2. AllIn(newDirs, Dirs)
    BY DEF WatchOK, WatchDirsOK, AllIn
  <2>3. AllIn(offer, Messages) /\ AllIn(joinHolds, Messages)
    BY DEF WatchOK, WatchSendsOK, Sendings, AllIn
  <2> QED
    BY <2>1, <2>2, <2>3 DEF WatchTypeOK, WatchOK, WatchDiskOK, WatchDirsOK, WatchSendsOK, WatchChansOK, FileSizes
<1> QED
  BY <1>1, <1>2, <1>3, PTL DEF WatchSpec

===============================================================================
