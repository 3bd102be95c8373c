----------------------------- MODULE ActiveActive -----------------------------
(***************************************************************************)
(* mc mirror --active-active A B and --active-active B A: two mirrors in   *)
(* opposite directions that carry one object between two sites.  Each      *)
(* follows the events of its source (watchMirrorEvents) and, whenever it   *)
(* starts, compares the listings of both sites (activeActiveModTimeUpdated *)
(* of cmd/difference.go).  Mirrors come and go; their tasks run in any     *)
(* order.  A copy carries the time of its source in its metadata, by which *)
(* the other mirror knows it; a removal, the name of the mirror.           *)
(***************************************************************************)
EXTENDS Naturals, Sequences

CONSTANTS
  ObjectSizes,  \* of what the users put; LargeSize goes up in parts
  LargeSize,
  ClockSkews,   \* how far the clock of "A" may be ahead of that of "B"
  MaxUserChanges, MaxMirrorStarts,  \* bounds; nothing new begins after a clash
  MaxEchoes     \* bound: events of uploads in parts that are acted on

ASSUME TwinAssumption ==
  /\ ObjectSizes \subseteq Nat /\ ClockSkews \subseteq Nat
  /\ MaxUserChanges \in Nat /\ MaxMirrorStarts \in Nat /\ MaxEchoes \in Nat

VARIABLES
  skew, withMetadata,  \* the clocks; the listings have the metadata
  site,                \* what each site holds
  clock, latest,       \* the time; what the users want
  up, heard,           \* of each mirror: it runs; the events of its source
  comparing, listed,   \* of each mirror: it compares; what it has listed
  tasks,               \* of each mirror
  userChanges, mirrorStarts, echoes, copies,
  clash                \* history: see SitesAgree

mirrors == <<up, heard, comparing, listed, tasks>>
counters == <<userChanges, mirrorStarts, echoes, copies>>
twinVars == <<skew, withMetadata, site, clock, latest, mirrors, counters, clash>>

Sites == {"A", "B"}
Other(s) == IF s = "A" THEN "B" ELSE "A"

\* An object: its content is the number of the change that made it, its origin
\* what the metadata says of the time of its source, or 0.
NoObject == [content |-> 0, size |-> 0, time |-> 0, origin |-> 0]
TimeAt(s) == clock' + (IF s = "A" THEN skew ELSE 0)
Same(o, p) == o.content = p.content /\ o.size = p.size

TwinTypeOK ==
  /\ \A s \in Sites : /\ site[s].content \in 0..MaxUserChanges
                      /\ site[s].size \in ObjectSizes \cup {0}
                      /\ site[s].time <= clock + skew
                      /\ ~up[s] => ~comparing[s] /\ <<heard[s], tasks[s]>> = <<<<>>, <<>>>>
                      /\ ~comparing[s] => listed[s] = <<>>
  /\ echoes <= MaxEchoes /\ clash \subseteq {"change", "deletion", "size", "parts"}

TwinInit ==
  /\ skew \in ClockSkews
  /\ withMetadata \in BOOLEAN /\ (skew = 0 => ~withMetadata)  \* no matter then
  /\ site = [s \in Sites |-> NoObject] /\ latest = NoObject /\ clock = 0
  /\ up = [s \in Sites |-> FALSE] /\ heard = [s \in Sites |-> <<>>]
  /\ comparing = [s \in Sites |-> FALSE] /\ listed = [s \in Sites |-> <<>>]
  /\ tasks = [s \in Sites |-> <<>>]
  /\ userChanges = 0 /\ mirrorStarts = 0 /\ echoes = 0 /\ copies = 0
  /\ clash = {}

-----------------------------------------------------------------------------
InParts(o) == o.size = LargeSize
PutEvent(o) == [kind |-> IF InParts(o) THEN "parts" ELSE "put",
                time |-> o.time, origin |-> o.origin, size |-> o.size]
DeleteEvent(byMirror) ==
  [kind |-> IF byMirror THEN "mirror" ELSE "delete",
   time |-> 0, origin |-> 0, size |-> 0]

\* The server tells the mirror that listens.
Announce(s, e) ==
  heard' = IF up[s] THEN [heard EXCEPT ![s] = Append(@, e)] ELSE heard

NothingUnderWay ==
  \A s \in Sites : ~comparing[s] /\ <<heard[s], tasks[s]>> = <<<<>>, <<>>>>
DeletionUnderWay ==
  \E s \in Sites : \/ \E i \in DOMAIN heard[s] : heard[s][i].kind = "delete"
                   \/ \E i \in DOMAIN tasks[s] : tasks[s][i].kind = "remove"
Clash(condition, what) == clash' = clash \cup IF condition THEN {what} ELSE {}

UserPut(s, size) ==
  /\ userChanges + skew < MaxUserChanges /\ clash = {}
  /\ userChanges' = userChanges + 1 /\ clock' = clock + 1
  /\ latest' = [content |-> userChanges', size |-> size, time |-> TimeAt(s), origin |-> 0]
  /\ site' = [site EXCEPT ![s] = latest']
  /\ Announce(s, PutEvent(latest'))
  /\ Clash(~NothingUnderWay, "change")
  /\ UNCHANGED <<skew, withMetadata, up, comparing, listed, tasks, mirrorStarts,
                 echoes, copies>>

UserDelete(s) ==
  /\ userChanges + skew < MaxUserChanges /\ clash = {} /\ site[s].content # 0
  /\ userChanges' = userChanges + 1 /\ clock' = clock + 1
  /\ latest' = NoObject
  /\ site' = [site EXCEPT ![s] = NoObject]
  /\ Announce(s, DeleteEvent(FALSE))
  /\ Clash(~NothingUnderWay \/ ~up["A"] \/ ~up["B"], "deletion")
  /\ UNCHANGED <<skew, withMetadata, up, comparing, listed, tasks, mirrorStarts,
                 echoes, copies>>

\* runMirror: the mirror listens before it lists.
StartTwin(s) ==
  /\ ~up[s] /\ mirrorStarts < MaxMirrorStarts /\ clash = {}
  /\ mirrorStarts' = mirrorStarts + 1
  /\ up' = [up EXCEPT ![s] = TRUE]
  /\ comparing' = [comparing EXCEPT ![s] = TRUE]
  /\ Clash(DeletionUnderWay, "deletion")
  /\ UNCHANGED <<skew, withMetadata, site, clock, latest, heard, listed, tasks, userChanges,
                 echoes, copies>>

\* It is killed, or returns after an error to be called again by mainMirror.
StopTwin(s) ==
  /\ up[s] /\ up' = [up EXCEPT ![s] = FALSE]
  /\ heard' = [heard EXCEPT ![s] = <<>>] /\ tasks' = [tasks EXCEPT ![s] = <<>>]
  /\ comparing' = [comparing EXCEPT ![s] = FALSE] /\ listed' = [listed EXCEPT ![s] = <<>>]
  /\ Clash(DeletionUnderWay, "deletion")
  /\ UNCHANGED <<skew, withMetadata, site, clock, latest, counters>>

-----------------------------------------------------------------------------
CopyTask(o) == [kind |-> "copy", time |-> o.time, origin |-> o.origin, size |-> o.size]
RemoveTask == [kind |-> "remove", time |-> 0, origin |-> 0, size |-> 0]

\* Mutant: the copy with the older data is never left alone.
anyModTimeUpdated(src, dst) == src.time # dst.time

\* activeActiveModTimeUpdated; without metadata the origins are not seen.
activeActiveModTimeUpdated(src, dst) ==
  LET actual(o) == IF withMetadata /\ o.origin > o.time THEN o.origin ELSE o.time
  IN actual(src) > actual(dst)

\* The two listings are made in either order.
ListSide(s, side) ==
  /\ comparing[s] /\ side \notin DOMAIN listed[s]
  /\ listed' = [listed EXCEPT ![s] = [x \in DOMAIN @ \cup {side} |->
                                        IF x = side THEN site[side] ELSE @[x]]]
  /\ UNCHANGED <<skew, withMetadata, site, clock, latest, up, heard, comparing, tasks,
                 counters, clash>>

\* differenceInternal and deltaSourceTarget: with --active-active every
\* difference of an object that the source has is copied; a size that differs is
\* a difference before the times are looked at.
CompareSides(s) ==
  /\ comparing[s] /\ DOMAIN listed[s] = Sites
  /\ LET src == listed[s][s]
         dst == listed[s][Other(s)]
         sizes == dst.content # 0 /\ src.size # dst.size
         copy == src.content # 0 /\ (\/ dst.content = 0 \/ sizes
                                     \/ activeActiveModTimeUpdated(src, dst))
     IN /\ tasks' = IF ~copy THEN tasks
                    ELSE [tasks EXCEPT ![s] = Append(@, CopyTask([src EXCEPT !.origin = 0]))]
        /\ Clash(copy /\ sizes /\ ~activeActiveModTimeUpdated(src, dst), "size")
  /\ comparing' = [comparing EXCEPT ![s] = FALSE] /\ listed' = [listed EXCEPT ![s] = <<>>]
  /\ UNCHANGED <<skew, withMetadata, site, clock, latest, up, heard, counters>>

\* Mutant: a copy that the other mirror has made is copied back.
TakesAll(e) == e.kind # "mirror"

\* What the other mirror has put or removed is left alone, but not what it has
\* put in parts.
Takes(e) ==
  CASE e.kind = "put" -> e.origin = 0
    [] e.kind = "parts" -> TRUE
    [] e.kind = "delete" -> TRUE
    [] e.kind = "mirror" -> FALSE

\* watchMirrorEvents
HearEvent(s) ==
  /\ heard[s] # <<>>
  /\ LET e == Head(heard[s])
         echo == e.kind = "parts" /\ e.origin # 0
     IN /\ echo => echoes < MaxEchoes
        /\ echoes' = IF echo THEN echoes + 1 ELSE echoes
        /\ tasks' = IF ~Takes(e) THEN tasks
                    ELSE [tasks EXCEPT ![s] = Append(@, IF e.kind = "delete" THEN RemoveTask
                                                        ELSE CopyTask(e))]
        /\ Clash(echo, "parts")
  /\ heard' = [heard EXCEPT ![s] = Tail(@)]
  /\ UNCHANGED <<skew, withMetadata, site, clock, latest, up, comparing, listed, userChanges,
                 mirrorStarts, copies>>

TaskOver(s, i) ==
  tasks' = [tasks EXCEPT ![s] = SubSeq(@, 1, i - 1) \o SubSeq(@, i + 1, Len(@))]

\* doMirror and uploadSourceToTargetURL: what the source holds now, and of that as
\* much as the task says; a source that is gone or has shrunk is an error.
CopyObject(s, i) ==
  LET t == tasks[s][i]
      copied == [content |-> site[s].content, size |-> t.size, time |-> TimeAt(Other(s)),
                 origin |-> IF t.origin # 0 THEN t.origin ELSE t.time]
  IN /\ t.kind = "copy" /\ TaskOver(s, i)
     /\ IF site[s].content = 0 \/ site[s].size < t.size
        THEN UNCHANGED <<site, clock, heard, copies>>
        ELSE /\ clock' = clock + 1
             /\ site' = [site EXCEPT ![Other(s)] = copied]
             /\ Announce(Other(s), PutEvent(copied))
             /\ copies' = copies + 1
     /\ UNCHANGED <<skew, withMetadata, latest, up, comparing, listed, userChanges,
                    mirrorStarts, echoes, clash>>

\* doRemove
RemoveObject(s, i) ==
  /\ tasks[s][i].kind = "remove" /\ TaskOver(s, i)
  /\ site' = [site EXCEPT ![Other(s)] = NoObject]
  /\ Announce(Other(s), DeleteEvent(TRUE))
  /\ UNCHANGED <<skew, withMetadata, clock, latest, up, comparing, listed, counters,
                 clash>>

TwinNext ==
  \E s \in Sites :
    \/ \E size \in ObjectSizes : UserPut(s, size)
    \/ UserDelete(s) \/ StartTwin(s) \/ StopTwin(s)
    \/ \E side \in Sites : ListSide(s, side)
    \/ CompareSides(s) \/ HearEvent(s)
    \/ \E i \in DOMAIN tasks[s] : CopyObject(s, i) \/ RemoveObject(s, i)

TwinSpec == TwinInit /\ [][TwinNext]_twinVars

-----------------------------------------------------------------------------
\* The mirrors do not answer each other for ever: a put of a user and a start
\* of a mirror each lead to one copy, but every copy in parts to one more.  And
\* when both have compared and followed all events, both sites have what the
\* users want.  Not so after a clash: a change made while an earlier one was
\* still on its way; a deletion that a mirror did not see or that meets a
\* comparison; a comparison that has found sizes that differ, and copies the
\* older object over the newer; parts that echo; or clocks that differ.
SitesAgree ==
  /\ copies <= userChanges + mirrorStarts + echoes
  /\ clash = {} /\ skew = 0 /\ NothingUnderWay /\ up["A"] /\ up["B"] =>
       \A s \in Sites : Same(site[s], latest)

===============================================================================
