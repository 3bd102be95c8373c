----------------------------------- MODULE Undo -----------------------------------
(***************************************************************************)
(* mc undo of cmd/undo-main.go: undoURL goes through the listing of all    *)
(* versions, and undoLastNOperations removes the last ones of an object,   *)
(* in the order of sortObjectVersions (cmd/ls.go).  Client.Remove is here  *)
(* what Removal shows of it: every version it is sent is removed or fails. *)
(***************************************************************************)
EXTENDS Integers, Sequences, FiniteSets

CONSTANTS
  VersionListings,  \* what List may deliver: sequences of
                    \* [object, time, latest, marker, glacier], by object
  UndoOptions       \* [last, action: "", "PUT" or "DELETE", isRecursive,
                    \*  isDryRun, target]

\* The listing has the versions of an object together, which differ in time, and
\* of which one at most is the latest; parseUndoSyntax checks --last.
ASSUME UndoAssumption ==
  /\ \A l \in VersionListings :
       /\ l \in Seq({l[i] : i \in DOMAIN l})
       /\ \A i \in DOMAIN l :
            /\ l[i].object # "" /\ l[i].time \in Nat
            /\ l[i].latest \in BOOLEAN /\ l[i].marker \in BOOLEAN /\ l[i].glacier \in BOOLEAN
       /\ \A i, j \in DOMAIN l :
            i < j /\ l[i].object = l[j].object =>
              /\ l[i].time # l[j].time /\ ~(l[i].latest /\ l[j].latest)
              /\ \A k \in i..j : l[k].object = l[i].object
  /\ \A o \in UndoOptions :
       /\ o.last \in Nat \ {0}
       /\ o.isRecursive \in BOOLEAN /\ o.isDryRun \in BOOLEAN /\ o.target # ""

VARIABLES
  vlist, undoOpts,
  at,              \* the place in the listing
  lastObject, perObject, eligible,  \* lastObjectPath, perObjectVersions, remove
  anyUndone,       \* atLeastOneUndoApplied
  undone, undoFailed,
  undoExit         \* <<>>, or <<1>> after an error

undoVars == <<vlist, undoOpts, at, lastObject, perObject, eligible, anyUndone,
              undone, undoFailed, undoExit>>

\* --action goes with --last 1 only.
UndoInit ==
  /\ vlist \in VersionListings /\ undoOpts \in UndoOptions
  /\ undoOpts.action # "" => undoOpts.last = 1
  /\ at = 1 /\ lastObject = "" /\ perObject = {} /\ eligible = TRUE
  /\ anyUndone = FALSE /\ undone = {} /\ undoFailed = {} /\ undoExit = <<>>

\* How many of the versions of an object are to go.
howMany(versions) ==
  IF Cardinality(versions) > undoOpts.last THEN undoOpts.last ELSE Cardinality(versions)

\* Mutant: not sorted before they are cut off.
anyOf(versions) == {chosen \in SUBSET versions : Cardinality(chosen) = howMany(versions)}

\* sortObjectVersions, the latest first and then by time, and the first of that
\* order.
Newer(v, w) == v.latest \/ (~w.latest /\ v.time > w.time)
lastOf(versions) ==
  {chosen \in SUBSET versions :
     /\ Cardinality(chosen) = howMany(versions)
     /\ \A v \in chosen, w \in versions \ chosen : ~Newer(w, v)}

\* undoLastNOperations: any of what is sent may fail.  exit is its result.
undoLast(versions) ==
  \E sent \in IF undoOpts.isDryRun THEN {{}} ELSE lastOf(versions) :
    \E bad \in SUBSET sent :
       /\ undone' = undone \cup (sent \ bad)
       /\ undoFailed' = undoFailed \cup bad
       /\ undoExit' = IF bad = {} THEN <<>> ELSE <<1>>

\* The next version of the listing.  A new object has the one before undone.
UndoNextVersion ==
  /\ at \in 1..Len(vlist)
  /\ LET v == vlist[at]
         newObject == v.object # lastObject
         goOn == newObject \/ eligible
         otherKind == \/ v.latest /\ undoOpts.action = "DELETE" /\ ~v.marker
                      \/ v.latest /\ undoOpts.action = "PUT" /\ v.marker
     IN IF v.glacier
        THEN at' = at + 1 /\ UNCHANGED <<lastObject, perObject, eligible, anyUndone,
                                         undone, undoFailed, undoExit>>
        ELSE IF ~undoOpts.isRecursive /\ v.object # undoOpts.target
        THEN at' = Len(vlist) + 1 /\ UNCHANGED <<lastObject, perObject, eligible, anyUndone,
                                                 undone, undoFailed, undoExit>>
        ELSE /\ at' = at + 1
             /\ lastObject' = v.object
             /\ IF newObject /\ eligible THEN undoLast(perObject)
                ELSE UNCHANGED <<undone, undoFailed, undoExit>>
             /\ eligible' = (goOn /\ ~otherKind)
             /\ anyUndone' = (anyUndone \/ eligible')
             /\ perObject' = (IF newObject THEN {} ELSE perObject)
                               \cup (IF eligible' THEN {v} ELSE {})
  /\ UNCHANGED <<vlist, undoOpts>>

\* A listing error is fatal; it may come at any place.
UndoListingFails ==
  /\ at \in 1..Len(vlist) /\ at' = 0 /\ undoExit' = <<1>>
  /\ UNCHANGED <<vlist, undoOpts, lastObject, perObject, eligible, anyUndone, undone, undoFailed>>

\* After the listing.
UndoEnds ==
  /\ at = Len(vlist) + 1 /\ at' = 0
  /\ IF perObject # {} /\ eligible
     THEN undoLast(perObject)
     ELSE /\ undoExit' = IF anyUndone THEN undoExit ELSE <<1>>
          /\ UNCHANGED <<undone, undoFailed>>
  /\ UNCHANGED <<vlist, undoOpts, lastObject, perObject, eligible, anyUndone>>

UndoNext == UndoNextVersion \/ UndoListingFails \/ UndoEnds

UndoSpec == UndoInit /\ [][UndoNext]_undoVars

-----------------------------------------------------------------------------
UndoTypeOK ==
  /\ at \in 0..(Len(vlist) + 1) /\ undoExit \in {<<>>, <<1>>}
  /\ undone \cap undoFailed = {}
  /\ undone \cup undoFailed \subseteq {vlist[i] : i \in DOMAIN vlist}

\* The versions that the flags mean: of the target, or of every object, the
\* last ones there are outside GLACIER, but none if --action is of the other
\* kind than the latest.
Meant ==
  LET all == {v \in {vlist[i] : i \in DOMAIN vlist} : ~v.glacier}
      newer(v) == {w \in all : w.object = v.object /\ (w.latest \/ w.time > v.time)} \ {v}
      of(v) == {w \in all : w.object = v.object /\ w.latest}
  IN {v \in all :
        /\ undoOpts.isRecursive \/ v.object = undoOpts.target
        /\ v.latest \/ Cardinality(newer(v)) < undoOpts.last
        /\ \A w \in of(v) : /\ undoOpts.action = "PUT" => ~w.marker
                            /\ undoOpts.action = "DELETE" => w.marker}

\* Nothing but the last versions is removed, whatever their order in the
\* listing; and an undo that has gone through the listing has tried all of
\* them, those of the last object too.
UndoneAreLast ==
  /\ undone \cup undoFailed \subseteq Meant
  /\ at = 0 /\ undoExit = <<>> /\ ~undoOpts.isDryRun => undone \cup undoFailed = Meant

===============================================================================
