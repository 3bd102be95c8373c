---------------------------------- MODULE Restore ----------------------------------
(***************************************************************************)
(* mc ilm restore (cmd/ilm-restore.go): a first pass over the listing asks *)
(* the server to bring each object back from its tier, a second one waits  *)
(* for each, and a goroutine counts and prints what both report over two   *)
(* unbuffered channels.  The second pass lists anew: meanwhile the server  *)
(* restores or gives up, and others put, delete and hide versions.         *)
(***************************************************************************)
EXTENDS Naturals, FiniteSets

CONSTANTS
  RestoreNames,       \* the names of the objects
  MaxRestoreChanges,  \* bound: what others put, delete and hide
  RestoreErrors       \* what may fail: "list", "request", "stat", "tier"

ASSUME RestoreAssumption == MaxRestoreChanges \in Nat

VARIABLES
  recursive, allVersions, \* --recursive, --versions
  tier,          \* version -> "cold", "asked", "back", "hot", or "marker", "none"
  toRestore,     \* the versions in the cold tier that have been meant all the time
  othersDid,
  pass,          \* "send", "check" or "over"
  hasListing, toDo,  \* the pass has its listing; the entries to come
  sent, finished,\* the names that were counted
  complained     \* an error was printed

restoreVars == <<recursive, allVersions, tier, toRestore, othersDid, pass, hasListing,
                 toDo, sent, finished, complained>>

\* A version is known by its name and its number; the last is the latest.
OneName == CHOOSE n \in RestoreNames : TRUE
Numbers == 1..2 + MaxRestoreChanges
Present(v) == tier[v] # "none"
Data(v) == tier[v] \notin {"none", "marker"}
IsLatest(v) == Present(v) /\ \A w \in DOMAIN tier :
                               w.name = v.name /\ Present(w) => w.number <= v.number
InScope(v) == Data(v) /\ (recursive \/ v.name = OneName) /\ (allVersions \/ IsLatest(v))

\* An entry without a version, of number 0, means the latest when it is used.
Means(e) == {v \in DOMAIN tier : v.name = e.name /\ Data(v)
                                 /\ IF e.number = 0 THEN IsLatest(v) ELSE v.number = e.number}

RestoreInit ==
  /\ recursive \in BOOLEAN /\ allVersions \in BOOLEAN /\ (allVersions => recursive)
  /\ \E older \in {"cold", "none"}, two \in [RestoreNames -> {"cold", "hot"}] :
       tier = [v \in [name : RestoreNames, number : Numbers] |->
                 CASE v.number = 1 -> older [] v.number = 2 -> two[v.name]
                   [] OTHER -> "none"]
  /\ toRestore = {v \in DOMAIN tier : InScope(v) /\ tier[v] = "cold"}
  /\ othersDid = 0 /\ pass = "send" /\ hasListing = FALSE /\ toDo = {}
  /\ sent = {} /\ finished = {} /\ complained = FALSE

\* Without --recursive there is one entry.  An error of a listing ends it.
RestoreList ==
  LET inList == {v \in DOMAIN tier : InScope(v)}
      entries == IF ~recursive THEN {[name |-> OneName, number |-> 0]}
                 ELSE IF allVersions THEN inList
                 ELSE {[name |-> v.name, number |-> 0] : v \in inList}
  IN
  /\ pass # "over" /\ ~hasListing /\ hasListing' = TRUE
  /\ \/ toDo' = entries /\ UNCHANGED complained
     \/ /\ recursive /\ "list" \in RestoreErrors
        /\ toDo' \in SUBSET entries /\ complained' = TRUE
  /\ UNCHANGED <<recursive, allVersions, tier, toRestore, othersDid, pass, sent, finished>>

\* restoreObject: what is not in a tier, or on its way already, is refused; an
\* answer may be lost.
SendRequest(e) ==
  /\ pass = "send" /\ e \in toDo /\ toDo' = toDo \ {e}
  /\ \/ \E v \in Means(e) :
          /\ tier[v] \in {"cold", "back"}
          /\ tier' = [tier EXCEPT ![v] = IF @ = "cold" THEN "asked" ELSE @]
          /\ \/ sent' = sent \cup {e.name} /\ UNCHANGED complained
             \/ "request" \in RestoreErrors /\ complained' = TRUE /\ UNCHANGED sent
     \/ /\ "request" \in RestoreErrors \/ \A v \in Means(e) : tier[v] \notin {"cold", "back"}
        /\ complained' = TRUE /\ UNCHANGED <<tier, sent>>
  /\ UNCHANGED <<recursive, allVersions, toRestore, othersDid, pass, hasListing, finished>>

\* Mutant: a restore that still goes on is taken for one that is finished.
CheckEntryOnce(e) ==
  /\ pass = "check" /\ e \in toDo /\ toDo' = toDo \ {e}
  /\ \/ /\ \E v \in Means(e) : tier[v] \in {"asked", "back"}
        /\ finished' = finished \cup {e.name} /\ UNCHANGED complained
     \/ /\ \A v \in Means(e) : tier[v] \notin {"asked", "back"}
        /\ complained' = TRUE /\ UNCHANGED finished
  /\ UNCHANGED <<recursive, allVersions, tier, toRestore, othersDid, pass, hasListing, sent>>

\* waitRestoreObject looks every 5 seconds until the restore no longer goes on.
CheckEntry(e) ==
  /\ pass = "check" /\ e \in toDo /\ toDo' = toDo \ {e}
  /\ \/ /\ \E v \in Means(e) : tier[v] = "back"
        /\ finished' = finished \cup {e.name} /\ UNCHANGED complained
     \/ /\ "stat" \in RestoreErrors \/ \A v \in Means(e) : tier[v] \in {"cold", "hot"}
        /\ complained' = TRUE /\ UNCHANGED finished
  /\ UNCHANGED <<recursive, allVersions, tier, toRestore, othersDid, pass, hasListing, sent>>

NextPass ==
  /\ pass # "over" /\ hasListing /\ toDo = {}
  /\ pass' = IF pass = "send" THEN "check" ELSE "over"
  /\ hasListing' = FALSE
  /\ UNCHANGED <<recursive, allVersions, tier, toRestore, othersDid, toDo, sent,
                 finished, complained>>

ServerRestores ==
  /\ pass # "over"
  /\ \E v \in DOMAIN tier :
       /\ tier[v] = "asked"
       /\ \E t \in {"back"} \cup (IF "tier" \in RestoreErrors THEN {"cold"} ELSE {}) :
            tier' = [tier EXCEPT ![v] = t]
  /\ UNCHANGED <<recursive, allVersions, toRestore, othersDid, pass, hasListing, toDo,
                 sent, finished, complained>>

\* Others put a new version, or a marker; or delete a version.
OthersChange ==
  /\ othersDid < MaxRestoreChanges /\ othersDid' = othersDid + 1 /\ pass # "over"
  /\ \E v \in DOMAIN tier :
       \/ /\ v.number = 2 + othersDid'
          /\ \E t \in {"hot", "marker"} : tier' = [tier EXCEPT ![v] = t]
       \/ Present(v) /\ tier' = [tier EXCEPT ![v] = "none"]
  /\ UNCHANGED <<recursive, allVersions, pass, hasListing, toDo, sent, finished, complained>>
  /\ toRestore' = {v \in toRestore : InScope(v)'}

RestoreNext ==
  \/ RestoreList \/ NextPass \/ ServerRestores \/ OthersChange
  \/ \E e \in toDo : SendRequest(e) \/ CheckEntry(e)

RestoreSpec == RestoreInit /\ [][RestoreNext]_restoreVars

-----------------------------------------------------------------------------
RestoreTypeOK ==
  /\ tier \in [[name : RestoreNames, number : Numbers] ->
                 {"cold", "asked", "back", "hot", "marker", "none"}]
  /\ pass \in {"send", "check", "over"} /\ othersDid \in 0..MaxRestoreChanges
  /\ sent \subseteq RestoreNames /\ finished \subseteq RestoreNames

\* When no error was printed, every version that the command has meant from its
\* start to its end has been brought back, whatever changed before, between and
\* after the two listings; and each name that was counted as restored had been
\* asked for.
RestoreTold ==
  pass = "over" /\ ~complained =>
    /\ \A v \in toRestore : tier[v] = "back"
    /\ finished \subseteq sent

===============================================================================
