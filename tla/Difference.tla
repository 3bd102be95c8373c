------------------------------ MODULE Difference ------------------------------
(***************************************************************************)
(* The comparison of a source and a target listing (cmd/difference.go) and *)
(* its translation to the copies and removals of a mirror                  *)
(* (deltaSourceTarget of cmd/mirror-url.go).                               *)
(*                                                                         *)
(* A key is a number: its place in the byte order in which both sides list *)
(* their keys.  The comparison orders the NFC forms of the keys: Norm maps *)
(* a key to the place of its NFC form.  A listing is the set of keys that  *)
(* are still to be received; the least one is the popped entry.  A listing *)
(* that fails ends with an error in place of the keys after the cut.       *)
(***************************************************************************)
EXTENDS Integers, Sequences, FiniteSets

CONSTANTS
  Keys,      \* the keys either side may hold, in listing order
  Norm,      \* key -> place of its NFC form in the order of comparison
  Invalid,   \* the keys that are not valid UTF-8
  Excluded,  \* the keys the exclude options match by name
  ClassExcluded, \* the source keys of an excluded storage class
  Variants,  \* how the two entries of each key may differ: functions that
             \* give a key the set of aspects in which they do
  Options,   \* the mirrorOptions the command may compute
  DiffCap    \* bound: capacity of diffCh (10000 in the code)

Aspects == {"size", "newer", "userMetadata", "metadata"}
ListingEnds == {"eof", "reported", "other"}

ASSUME DifferenceAssumption ==
  /\ Keys \subseteq Nat /\ IsFiniteSet(Keys)
  /\ Norm \in [Keys -> Nat]
  /\ Invalid \subseteq Keys /\ Excluded \subseteq Keys
  /\ ClassExcluded \subseteq Keys
  /\ Variants \subseteq [Keys -> SUBSET Aspects]
  /\ DiffCap \in Nat \ {0}
  /\ \A o \in Options :
       o \in [sourceListingOnly: BOOLEAN, isMetadata: BOOLEAN,
              isOverwrite: BOOLEAN, isFake: BOOLEAN, activeActive: BOOLEAN,
              isRemove: BOOLEAN]

VARIABLES
  source, target,    \* the keys each side really holds
  aspects,           \* source key -> how its counterpart differs
  opts,              \* the options of this run
  srcLeft, tgtLeft,  \* entries of each listing not yet consumed
  srcEnd, tgtEnd,    \* how each listing ends
  comparing,         \* differenceInternal has not returned
  diffCh,            \* the messages of difference not yet received
  urls,              \* everything deltaSourceTarget has sent on URLsCh
  closed             \* URLsCh is closed

inputs == <<source, target, aspects, opts, srcEnd, tgtEnd>>
vars == <<inputs, srcLeft, tgtLeft, comparing, diffCh, urls, closed>>

First(S) == CHOOSE k \in S : \A j \in S : k <= j
Counterpart(k, S) == {j \in S : Norm[j] = Norm[k]}

-----------------------------------------------------------------------------
\* What a listing of the keys S delivers before it ends: all of them, or those
\* before the error.
Delivered(S, end) ==
  IF end = "eof" THEN {S}
  ELSE {{k \in S : k < cut} : cut \in S} \cup {S}

Init ==
  /\ source \in SUBSET Keys /\ target \in SUBSET Keys
  /\ aspects \in Variants
  /\ \A k \in Keys :
       k \notin source \/ Counterpart(k, target) = {} => aspects[k] = {}
  /\ opts \in Options
  /\ srcEnd \in ListingEnds /\ tgtEnd \in ListingEnds
  /\ srcLeft \in Delivered(source, srcEnd)
  /\ tgtLeft \in Delivered(target, tgtEnd)
  /\ comparing = TRUE /\ diffCh = <<>> /\ urls = {} /\ closed = FALSE

(***************************************************************************)
(* differenceInternal: one action per way through the body of its loop.    *)
(***************************************************************************)
SrcEOF == srcLeft = {} /\ srcEnd = "eof"
TgtEOF == tgtLeft = {} /\ tgtEnd = "eof"
SrcErr == srcLeft = {} /\ srcEnd # "eof"
TgtErr == tgtLeft = {} /\ tgtEnd # "eof"

\* Mutant: no bound on diffCh.
EmitUnbounded(msg) == diffCh' = Append(diffCh, msg)

\* diffCh <- msg
Emit(msg) == Len(diffCh) < DiffCap /\ diffCh' = Append(diffCh, msg)
PopSource == srcLeft' = srcLeft \ {First(srcLeft)}
PopTarget == tgtLeft' = tgtLeft \ {First(tgtLeft)}

\* Mutant: with sourceListingOnly, the loop ends with the target's listing.
EndOfAnyListing == comparing /\ IF opts.sourceListingOnly
                                THEN SrcEOF \/ TgtEOF
                                ELSE SrcEOF /\ TgtEOF

\* No objects from source AND target, or from the source when only the source
\* listing counts: the loop is over.
EndOfListings == comparing /\ IF opts.sourceListingOnly
                              THEN SrcEOF
                              ELSE SrcEOF /\ TgtEOF

CompareEnds ==
  /\ EndOfListings
  /\ comparing' = FALSE
  /\ UNCHANGED <<inputs, srcLeft, tgtLeft, diffCh, urls, closed>>

\* Mutant: an error is logged and the listing read again.
ListingFailsForever ==
  /\ comparing /\ ~EndOfListings
  /\ SrcErr \/ TgtErr
  /\ UNCHANGED vars

\* A listing error ends the comparison.  difference passes the errors it knows
\* on to the receiver of diffCh, all others are only logged.
ListingFails ==
  /\ comparing /\ ~EndOfListings
  /\ SrcErr \/ TgtErr
  /\ LET end == IF SrcErr THEN srcEnd ELSE tgtEnd IN
       IF end = "reported"
       THEN Emit([diff |-> "error", key |-> 0])
       ELSE UNCHANGED diffCh
  /\ comparing' = FALSE
  /\ UNCHANGED <<inputs, srcLeft, tgtLeft, urls, closed>>

\* The loop goes on, with an entry from at least one side.
Looping == comparing /\ ~EndOfListings /\ ~SrcErr /\ ~TgtErr

\* Mutant: the end of the source's listing is not told from its error.
OnlyTargetAfterAny ==
  /\ comparing /\ ~EndOfListings /\ srcLeft = {} /\ tgtLeft # {}
  /\ Emit([diff |-> "differInSecond", key |-> First(tgtLeft)])
  /\ PopTarget
  /\ UNCHANGED <<inputs, srcLeft, comparing, urls, closed>>

OnlyTarget ==
  /\ Looping /\ SrcEOF /\ tgtLeft # {}
  /\ Emit([diff |-> "differInSecond", key |-> First(tgtLeft)])
  /\ PopTarget
  /\ UNCHANGED <<inputs, srcLeft, comparing, urls, closed>>

OnlySource ==
  /\ Looping /\ TgtEOF /\ srcLeft # {}
  /\ Emit([diff |-> "differInFirst", key |-> First(srcLeft)])
  /\ PopSource
  /\ UNCHANGED <<inputs, tgtLeft, comparing, urls, closed>>

\* Both sides have an entry, and keys must be valid UTF-8.
Both == Looping /\ srcLeft # {} /\ tgtLeft # {}

InvalidSource ==
  /\ Both /\ First(srcLeft) \in Invalid
  /\ Emit([diff |-> "error", key |-> 0])
  /\ PopSource
  /\ UNCHANGED <<inputs, tgtLeft, comparing, urls, closed>>

InvalidTarget ==
  /\ Both /\ First(srcLeft) \notin Invalid /\ First(tgtLeft) \in Invalid
  /\ Emit([diff |-> "error", key |-> 0])
  /\ PopTarget
  /\ UNCHANGED <<inputs, srcLeft, comparing, urls, closed>>

BothValid == Both /\ First(srcLeft) \notin Invalid
                  /\ First(tgtLeft) \notin Invalid

SourceIsFirst ==
  /\ BothValid /\ Norm[First(tgtLeft)] > Norm[First(srcLeft)]
  /\ Emit([diff |-> "differInFirst", key |-> First(srcLeft)])
  /\ PopSource
  /\ UNCHANGED <<inputs, tgtLeft, comparing, urls, closed>>

\* Two entries of one key: size, then modification time, then metadata (the
\* user's and the object's, when asked for) decide.
DiffOf(k) ==
  CASE "size" \in aspects[k] -> "differInSize"
    [] "size" \notin aspects[k] /\ "newer" \in aspects[k] ->
         "differInAASourceMTime"
    [] aspects[k] \cap {"size", "newer"} = {} /\ opts.isMetadata
         /\ {"userMetadata", "metadata"} \subseteq aspects[k] ->
         "differInMetadata"
    [] OTHER -> "none"

SameKey ==
  /\ BothValid /\ Norm[First(tgtLeft)] = Norm[First(srcLeft)]
  /\ LET diff == DiffOf(First(srcLeft)) IN
       IF diff = "none" THEN UNCHANGED diffCh
       ELSE Emit([diff |-> diff, key |-> First(srcLeft)])
  /\ PopSource /\ PopTarget
  /\ UNCHANGED <<inputs, comparing, urls, closed>>

TargetIsFirst ==
  /\ BothValid /\ Norm[First(tgtLeft)] < Norm[First(srcLeft)]
  /\ Emit([diff |-> "differInSecond", key |-> First(tgtLeft)])
  /\ PopTarget
  /\ UNCHANGED <<inputs, srcLeft, comparing, urls, closed>>

(***************************************************************************)
(* deltaSourceTarget: the next message of diffCh becomes what the mirror   *)
(* has to do.                                                              *)
(***************************************************************************)
Skipped(msg) ==
  \/ msg.key \in Excluded
  \/ msg.diff # "differInSecond" /\ msg.key \in ClassExcluded

Overwrites == opts.isOverwrite \/ opts.isFake \/ opts.activeActive

UrlsOf(msg) ==
  IF msg.diff = "error" THEN {[do |-> "error", key |-> 0]}
  ELSE IF Skipped(msg) THEN {}
  ELSE CASE msg.diff = "differInFirst" -> {[do |-> "copy", key |-> msg.key]}
         [] msg.diff = "differInSecond" ->
              IF opts.isRemove \/ opts.isFake
              THEN {[do |-> "remove", key |-> msg.key]} ELSE {}
         [] OTHER ->
              {[do |-> IF Overwrites THEN "copy" ELSE "refuse",
                key |-> msg.key]}

Translate ==
  /\ diffCh # <<>>
  /\ urls' = urls \cup UrlsOf(Head(diffCh))
  /\ diffCh' = Tail(diffCh)
  /\ UNCHANGED <<inputs, srcLeft, tgtLeft, comparing, closed>>

CloseURLs ==
  /\ ~comparing /\ diffCh = <<>> /\ ~closed
  /\ closed' = TRUE
  /\ UNCHANGED <<inputs, srcLeft, tgtLeft, comparing, diffCh, urls>>

Compare ==
  \/ CompareEnds \/ ListingFails \/ OnlyTarget \/ OnlySource
  \/ InvalidSource \/ InvalidTarget
  \/ SourceIsFirst \/ SameKey \/ TargetIsFirst

Finished == closed /\ UNCHANGED vars

Next == Compare \/ Translate \/ CloseURLs \/ Finished

Spec == Init /\ [][Next]_vars

\* Both goroutines run whenever they can.
FairSpec == Spec /\ WF_vars(Compare) /\ WF_vars(Translate) /\ WF_vars(CloseURLs)

-----------------------------------------------------------------------------
(***************************************************************************)
(* Properties.                                                             *)
(***************************************************************************)
Diffs == {"error", "differInFirst", "differInSecond", "differInSize",
          "differInAASourceMTime", "differInMetadata"}
Msg == [diff: Diffs, key: Keys \cup {0}]
Url == [do: {"copy", "remove", "refuse", "error"}, key: Keys \cup {0}]

TypeOK ==
  /\ source \subseteq Keys /\ target \subseteq Keys
  /\ aspects \in Variants
  /\ opts \in Options
  /\ srcLeft \subseteq source /\ tgtLeft \subseteq target
  /\ srcEnd \in ListingEnds /\ tgtEnd \in ListingEnds
  /\ comparing \in BOOLEAN /\ closed \in BOOLEAN
  /\ diffCh \in Seq(Msg) /\ Len(diffCh) <= DiffCap
  /\ urls \subseteq Url

\* "only in target (SECOND)": what a mirror with --remove removes from the
\* target is in no case a key that the source holds, also when a listing fails
\* half way, when invalid keys are passed over on either side, and whatever is
\* still in diffCh.  (An invalid key itself may be removed: the end of the
\* source's listing comes before the look at its validity.)
RemovalsAreExtraneous ==
  \A u \in urls :
    u.do = "remove" /\ u.key \notin Invalid => Counterpart(u.key, source) = {}

\* When both listings came to their end, the mirror has been told to copy and
\* to remove exactly what the options ask for of the valid keys, whatever the
\* merge skipped or passed over, and of an error only if there is an invalid key.
ToCopy ==
  {k \in source \ (Excluded \cup ClassExcluded) :
     Counterpart(k, target) = {} \/ (DiffOf(k) # "none" /\ Overwrites)}
ToRemove ==
  IF opts.isRemove \/ opts.isFake
  THEN {k \in target \ Excluded : Counterpart(k, source) = {}}
  ELSE {}
Told(do) == {u.key : u \in {v \in urls : v.do = do}}
MirrorIsTold ==
  closed /\ srcEnd = "eof" /\ tgtEnd = "eof" =>
    /\ Told("copy") \ Invalid = ToCopy \ Invalid
    /\ ~opts.sourceListingOnly =>
         Told("remove") \ Invalid = ToRemove \ Invalid
    /\ Told("error") # {} => (source \cup target) \cap Invalid # {}

\* The comparison always comes to its end and URLsCh is closed.
ComparisonEnds == <>closed

\* difference says "Unable to list comparison retrying..": when the source's
\* listing failed, the receiver of URLsCh learns that the comparison is not
\* complete (it has no other way to know).
ListingErrorReachesMirror ==
  closed /\ SrcErr => Told("error") # {}

===============================================================================
