------------------------------ MODULE LocalWatch ------------------------------
(***************************************************************************)
(* How a watching mc learns of changes.  Of a local tree: inotify and the  *)
(* tree of watchpoints of pkg/fswatch, the goroutines of fsClient.Watch    *)
(* and, between them, PipeChan as EventQueue describes it.  Of a bucket:   *)
(* the goroutine of S3Client.Watch behind minio-go's channel.  Then        *)
(* Watcher.Join and Stop of cmd/watch.go, or the loop of mc watch.         *)
(*                                                                         *)
(* The tree is one recursive watchpoint, its subdirectories and their      *)
(* files.  The size of a file stands for its contents, 0 for its absence.  *)
(* Ignored names and non-recursive watches are left out.                   *)
(***************************************************************************)
EXTENDS Naturals, Sequences

CONSTANTS
  Files, Dirs,    \* what may come and go below Root
  Root, ParentOf, \* [Files -> Dirs \cup {Root}]
  Origins,        \* of "fs", "s3"
  Consumers,      \* of "mirror", "watch"
  WatchFailures,  \* of "drop", "stat", "server"
  MaxFsChanges    \* bound: changes

ASSUME WatchAssumption == Files \cap Dirs = {} /\ MaxFsChanges \in Nat

VARIABLES
  origin, consumerKind,
  disk, dirs, changes,     \* size of each file; directories; how many changes
  kernel, recNodes,        \* directories inotify watches; watchpoints of the tree
  inFlight, newDirs,       \* events on their way to a dispatch goroutine; t.rec
  pipe, shut, pipeEnded,   \* the queue into the goroutine of Watch
  offer,                   \* <<>> or what that goroutine is sending
  closedChans, closer,     \* of "events", "errors"; the goroutine that closes
  done,                    \* DoneChan is closed
  join, joinHolds,         \* the goroutine of Join, and what it forwards
  consumer, told,          \* "on", "stop", "over"; the last size heard of a file
  watchPanic,              \* "no", "watch" or "dispatch"
  excused, removedDirs     \* history: see QuietMeansTold and NewDirIsWatched

tree == <<disk, dirs, changes, removedDirs>>
notify == <<kernel, recNodes, inFlight, newDirs>>
pipeState == <<pipe, shut, pipeEnded>>
stopping == <<closedChans, closer, done>>
receiving == <<join, joinHolds, consumer, told>>
kind == <<origin, consumerKind>>
watchVars == <<kind, tree, notify, pipeState, offer, stopping, receiving, watchPanic,
               excused>>

Paths == Files \cup Dirs
Events == [path : Paths, kind : {"put", "delete", "mkdir"}, size : 0..MaxFsChanges]
Messages == [ch : {"events", "errors"}, path : Paths, size : 0..MaxFsChanges]

Q == INSTANCE EventQueue WITH Elements <- Events, queue <- pipe, ended <- pipeEnded

Undisturbed == watchPanic = "no"
Watching == closer \in {"wait", "events", "errors"}  \* c is in the tree
Without(s, i) == SubSeq(s, 1, i - 1) \o SubSeq(s, i + 1, Len(s))
AllIn(s, S) == \A i \in DOMAIN s : s[i] \in S

WatchTypeOK ==
  /\ origin \in Origins /\ consumerKind \in Consumers
  /\ disk \in [Files -> 0..MaxFsChanges] /\ told \in [Files -> 0..MaxFsChanges]
  /\ kernel \subseteq dirs /\ dirs \cup recNodes \cup removedDirs \subseteq Dirs
  /\ AllIn(inFlight, Events) /\ AllIn(newDirs, Dirs) /\ AllIn(pipe, Events)
  /\ AllIn(offer, Messages) /\ AllIn(joinHolds, Messages)
  /\ closedChans \subseteq {"events", "errors"}
  /\ excused \subseteq Files

WatchInit ==
  /\ origin \in Origins /\ consumerKind \in Consumers
  /\ disk = [f \in Files |-> 0] /\ changes = 0 /\ removedDirs = {}
  /\ dirs \in SUBSET Dirs /\ kernel = dirs /\ recNodes = dirs
  /\ inFlight = <<>> /\ newDirs = <<>>
  /\ Q!Init
  /\ offer = <<>> /\ closedChans = {} /\ closer = "wait" /\ done = FALSE
  /\ join = "select" /\ joinHolds = <<>>
  /\ consumer = "on" /\ told = disk
  /\ watchPanic = "no" /\ excused = {}

-----------------------------------------------------------------------------
(***************************************************************************)
(* Changes of the tree.  The kernel tells of those in a watched directory; *)
(* a server tells of all, in their order.                                  *)
(***************************************************************************)
Notify(e) ==
  IF origin = "fs"
  THEN inFlight' = Append(inFlight, e) /\ UNCHANGED pipeState
  ELSE Q!Accept(e) /\ UNCHANGED inFlight

ChangeFile(f, size) ==
  /\ changes < MaxFsChanges /\ Undisturbed
  /\ origin = "s3" \/ ParentOf[f] \in dirs \cup {Root}
  /\ disk[f] # size
  /\ disk' = [disk EXCEPT ![f] = size]
  /\ changes' = changes + 1
  /\ IF Watching /\ (origin = "s3" \/ ParentOf[f] \in kernel \cup {Root})
     THEN /\ Notify([path |-> f, kind |-> IF size = 0 THEN "delete" ELSE "put",
                   size |-> size])
          /\ excused' = IF \E i \in DOMAIN inFlight : inFlight[i].path = f
                        THEN excused ELSE excused \ {f}
     ELSE excused' = excused \cup {f} /\ UNCHANGED <<inFlight, pipeState>>
  /\ UNCHANGED <<kind, dirs, removedDirs, kernel, recNodes, newDirs, offer,
                 stopping, receiving, watchPanic>>

PutFile(f) == ChangeFile(f, changes + 1)
DeleteFile(f) == ChangeFile(f, 0)

\* An inotify watch goes with its directory; the watchpoint of the tree stays.
ChangeDir(d) ==
  /\ changes < MaxFsChanges /\ Undisturbed /\ origin = "fs" /\ Watching
  /\ \/ /\ d \notin dirs
        /\ dirs' = dirs \cup {d}
        /\ Notify([path |-> d, kind |-> "mkdir", size |-> 0])
        /\ UNCHANGED <<kernel, removedDirs>>
     \/ /\ d \in dirs /\ \A f \in Files : ParentOf[f] = d => disk[f] = 0
        /\ dirs' = dirs \ {d} /\ kernel' = kernel \ {d}
        /\ removedDirs' = removedDirs \cup {d}
        /\ Notify([path |-> d, kind |-> "delete", size |-> 0])
  /\ changes' = changes + 1
  /\ UNCHANGED <<kind, disk, recNodes, newDirs, offer, stopping, receiving,
                 watchPanic, excused>>

-----------------------------------------------------------------------------
(***************************************************************************)
(* pkg/fswatch.  Each event has a goroutine of its own: they overtake one  *)
(* another.  Under the tree's lock the goroutine looks up who wants the    *)
(* event and sends without waiting.                                        *)
(***************************************************************************)
Dispatch(i) ==
  LET e == inFlight[i]
      overtakes == \E j \in 1..(i - 1) : inFlight[j].path = e.path
      lost == /\ excused' = excused \cup ({e.path} \cap Files)
              /\ UNCHANGED <<pipeState, watchPanic>>
  IN /\ Undisturbed /\ inFlight' = Without(inFlight, i)
     /\ \/ /\ e.kind = "mkdir"
           /\ newDirs' = Append(newDirs, e.path)
           /\ UNCHANGED <<pipeState, watchPanic, excused>>
        \/ /\ e.kind # "mkdir" /\ UNCHANGED newDirs
           /\ \/ /\ Watching /\ ~shut
                 /\ Q!Accept(e)
                 /\ excused' = excused \cup
                      IF overtakes THEN {e.path} \cap Files ELSE {}
                 /\ UNCHANGED watchPanic
              \/ Watching /\ "drop" \in WatchFailures /\ lost
              \/ /\ Watching /\ shut
                 /\ watchPanic' = "dispatch" /\ UNCHANGED <<pipeState, excused>>
              \/ ~Watching /\ lost
     /\ UNCHANGED <<kind, tree, kernel, recNodes, offer, stopping, receiving>>

\* Mutant: the watchpoint without the inotify watch.
InternalTreeOnly ==
  /\ Undisturbed /\ newDirs # <<>>
  /\ newDirs' = Tail(newDirs)
  /\ recNodes' = recNodes \cup {Head(newDirs)}
  /\ UNCHANGED kernel
  /\ UNCHANGED <<kind, tree, inFlight, pipeState, offer, stopping, receiving,
                 watchPanic, excused>>

\* nonrecursiveTree.internal: a new directory gets a watchpoint, and an inotify
\* watch if its event set has changed by that.
Internal ==
  /\ Undisturbed /\ newDirs # <<>>
  /\ newDirs' = Tail(newDirs)
  /\ IF Watching /\ Head(newDirs) \notin recNodes
     THEN /\ recNodes' = recNodes \cup {Head(newDirs)}
          /\ kernel' = kernel \cup ({Head(newDirs)} \cap dirs)
     ELSE UNCHANGED <<recNodes, kernel>>
  /\ UNCHANGED <<kind, tree, inFlight, pipeState, offer, stopping, receiving,
                 watchPanic, excused>>

-----------------------------------------------------------------------------
(***************************************************************************)
(* The goroutines of Watch.                                                *)
(***************************************************************************)
Message(ch, p, size) == <<[ch |-> ch, path |-> p, size |-> size]>>

\* Mutant: whatever the event, a file that is gone is passed over.
TakeStat ==
  /\ Undisturbed /\ offer = <<>> /\ Q!Deliver
  /\ origin = "s3" => closer = "wait"
  /\ LET e == Head(pipe)
         gone == origin = "fs" /\ e.path \in Files /\ disk[e.path] = 0
         size == IF origin = "fs" /\ e.kind = "put" THEN disk[e.path] ELSE e.size
         failure == IF origin = "fs" THEN "stat" ELSE "server"
     IN \/ /\ offer' = IF gone THEN <<>> ELSE Message("events", e.path, size)
           /\ UNCHANGED excused
        \/ /\ failure \in WatchFailures /\ (origin = "fs" => e.kind = "put")
           /\ offer' = Message("errors", e.path, 0)
           /\ excused' = excused \cup ({e.path} \cap Files)
  /\ UNCHANGED <<kind, tree, notify, stopping, receiving, watchPanic>>

\* A put is looked at on the disk, now: a file that is gone, and a directory,
\* are passed over.  S3Client.Watch goes by the notification.
TakeEvent ==
  /\ Undisturbed /\ offer = <<>> /\ Q!Deliver
  /\ origin = "s3" => closer = "wait"
  /\ LET e == Head(pipe)
         gone == origin = "fs" /\ e.kind = "put" /\ disk[e.path] = 0
         size == IF origin = "fs" /\ e.kind = "put" THEN disk[e.path] ELSE e.size
         failure == IF origin = "fs" THEN "stat" ELSE "server"
     IN \/ /\ offer' = IF gone THEN <<>> ELSE Message("events", e.path, size)
           /\ UNCHANGED excused
        \/ /\ failure \in WatchFailures /\ (origin = "fs" => e.kind = "put")
           /\ offer' = Message("errors", e.path, 0)
           /\ excused' = excused \cup ({e.path} \cap Files)
  /\ UNCHANGED <<kind, tree, notify, stopping, receiving, watchPanic>>

PipeRangeEnds ==
  /\ Undisturbed /\ offer = <<>> /\ Q!End
  /\ UNCHANGED <<kind, tree, notify, offer, stopping, receiving, watchPanic, excused>>

\* A goroutine that waits in a send panics when its channel is closed.
SendPanics ==
  /\ Undisturbed /\ \E i \in DOMAIN offer : offer[i].ch \in closedChans
  /\ watchPanic' = "watch"
  /\ UNCHANGED <<kind, tree, notify, pipeState, offer, stopping, receiving, excused>>

\* The other goroutine of fsClient.Watch, a statement at a time; that of
\* S3Client.Watch, between two events only.
CloseFs ==
  /\ origin = "fs" /\ done
  /\ \/ closer = "wait" /\ closer' = "events" /\ closedChans' = {"events"}
        /\ UNCHANGED <<kernel, recNodes, pipeState>>
     \/ closer = "events" /\ closer' = "errors" /\ closedChans' = {"events", "errors"}
        /\ UNCHANGED <<kernel, recNodes, pipeState>>
     \/ closer = "errors" /\ closer' = "stopped" /\ kernel' = {} /\ recNodes' = {}
        /\ UNCHANGED <<closedChans, pipeState>>
     \/ closer = "stopped" /\ closer' = "over" /\ Q!Shut
        /\ UNCHANGED <<closedChans, kernel, recNodes>>

\* Mutant: another goroutine closes the channels, as in fsClient.Watch.
CloseS3Beside ==
  /\ origin = "s3" /\ closer = "wait"
  /\ done \/ "server" \in WatchFailures
  /\ closer' = "over" /\ closedChans' = {"events", "errors"}
  /\ UNCHANGED <<kernel, recNodes, pipeState>>

CloseS3 ==
  /\ origin = "s3" /\ offer = <<>> /\ closer = "wait"
  /\ done \/ "server" \in WatchFailures
  /\ closer' = "over" /\ closedChans' = {"events", "errors"}
  /\ UNCHANGED <<kernel, recNodes, pipeState>>

Close ==
  /\ Undisturbed /\ (CloseFs \/ CloseS3)
  /\ UNCHANGED <<kind, tree, inFlight, newDirs, offer, done, receiving, watchPanic,
                 excused>>

-----------------------------------------------------------------------------
(***************************************************************************)
(* Watcher.Join and Stop, mirror's loop, and the loop of mc watch.         *)
(***************************************************************************)
Hear(m) ==
  told' = IF m.ch = "events" /\ m.path \in Files
          THEN [told EXCEPT ![m.path] = m.size] ELSE told

JoinSelects ==
  /\ Undisturbed /\ consumerKind = "mirror" /\ join = "select" /\ joinHolds = <<>>
  /\ \/ /\ done \/ closedChans # {}
        /\ join' = "left" /\ UNCHANGED <<joinHolds, offer>>
     \/ /\ \E i \in DOMAIN offer : offer[i].ch \notin closedChans
        /\ joinHolds' = offer /\ offer' = <<>> /\ UNCHANGED join
  /\ UNCHANGED <<kind, tree, notify, pipeState, stopping, consumer, told, watchPanic,
                 excused>>

JoinForwards ==
  /\ Undisturbed /\ joinHolds # <<>> /\ consumer = "on"
  /\ Hear(joinHolds[1]) /\ joinHolds' = <<>>
  /\ UNCHANGED <<kind, tree, notify, pipeState, offer, stopping, join, consumer,
                 watchPanic, excused>>

\* Stop closes DoneChan and waits for the goroutine of Join.
StopWatcher ==
  /\ Undisturbed /\ consumerKind = "mirror"
  /\ \/ consumer = "on" /\ consumer' = "stop" /\ done' = TRUE
     \/ consumer = "stop" /\ join = "left" /\ consumer' = "over" /\ UNCHANGED done
  /\ UNCHANGED <<kind, tree, notify, pipeState, offer, closedChans, closer, join,
                 joinHolds, told, watchPanic, excused>>

\* mc watch ends at the interrupt, at the first error and with the stream.
MainWatch ==
  /\ Undisturbed /\ consumerKind = "watch" /\ consumer = "on"
  /\ \/ /\ consumer' = "over" /\ done' = TRUE
        /\ UNCHANGED <<offer, told>>
     \/ /\ \E i \in DOMAIN offer :
             /\ offer[i].ch \notin closedChans /\ Hear(offer[i])
             /\ consumer' = IF offer[i].ch = "errors" THEN "over" ELSE "on"
        /\ offer' = <<>> /\ UNCHANGED done
     \/ /\ closedChans # {}
        /\ consumer' = "over" /\ UNCHANGED <<offer, told, done>>
  /\ UNCHANGED <<kind, tree, notify, pipeState, closedChans, closer, join, joinHolds,
                 watchPanic, excused>>

WatchNext ==
  \/ \E f \in Files : PutFile(f) \/ DeleteFile(f)
  \/ \E d \in Dirs : ChangeDir(d)
  \/ \E i \in DOMAIN inFlight : Dispatch(i)
  \/ Internal \/ TakeEvent \/ PipeRangeEnds \/ SendPanics \/ Close
  \/ JoinSelects \/ JoinForwards \/ StopWatcher \/ MainWatch

WatchSpec == WatchInit /\ [][WatchNext]_watchVars

-----------------------------------------------------------------------------
Quiet == /\ Undisturbed /\ ~done /\ closedChans = {} /\ consumer = "on"
         /\ <<inFlight, newDirs, pipe, offer, joinHolds>> =
              <<<<>>, <<>>, <<>>, <<>>, <<>>>>

\* When all that was under way has arrived, the last event the consumer has had
\* of a file is true: a file that is there was put with its present size, one
\* that is not there was deleted, although a put is looked up later than it
\* happened and not reported when the file has gone.  Excused are the files
\* whose events overtook one another in the goroutines of dispatch, whose event
\* was dropped or answered by an error, and whose last change was made in a
\* directory without a watch.
QuietMeansTold == Quiet => \A f \in Files \ excused : told[f] = disk[f]

\* A directory that appears below a recursive watchpoint is watched, also when
\* the events about it and the changes in it are still under way; one that has
\* been removed and made again is not (Internal), and is left out.
NewDirIsWatched == Quiet => dirs \ removedDirs \subseteq kernel

\* Nobody sends on the pipe after it was closed, and the goroutine of
\* fsClient.Watch meets its closed channels only when it was told to stop; the
\* one of S3Client.Watch, which closes its channels itself, never does.
PanicNeedsStop ==
  /\ watchPanic # "dispatch"
  /\ watchPanic = "watch" => done /\ origin = "fs"

===============================================================================
