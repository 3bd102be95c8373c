------------------------------ MODULE BucketSync ------------------------------
(***************************************************************************)
(* The synchronization of buckets with which a mirror begins: the two      *)
(* bucket listings and their comparison (bucketDifference of               *)
(* cmd/difference.go, ListBuckets of cmd/client-fs.go) and the loop of     *)
(* runMirror (cmd/mirror-main.go) that deletes and makes buckets.          *)
(*                                                                         *)
(* A name has two places in the byte order of all strings: Plain, its own, *)
(* and Slash, that of the name followed by "/".  For "a", "a-b" and "b":   *)
(* "a" < "a-b" < "a-b/" < "a/" < "b" < "b/".                               *)
(***************************************************************************)
EXTENDS Integers, Sequences, FiniteSets, SequencesExt

CONSTANTS
  Names,     \* directory entries of the source, bucket names of the target
  Plain,     \* name -> its place in the byte order
  Slash,     \* name -> the place of the name with a trailing "/"
  Kind,      \* name -> what a local source has there: "dir", "link", "file"
  Excluded,  \* the buckets that match --exclude-bucket
  Sources,   \* the kinds of source to consider: "fs", "s3"
  Options,   \* the flags of the command line to consider
  MaxRuns,   \* bound: how often mainMirror calls runMirror
  NoName     \* no bucket

ASSUME BucketSyncAssumption ==
  /\ IsFiniteSet(Names) /\ Excluded \subseteq Names
  /\ Plain \in [Names -> Nat] /\ Slash \in [Names -> Nat]
  /\ Kind \in [Names -> {"dir", "link", "file"}]
  /\ \A n \in Names : Plain[n] < Slash[n]
  /\ \A m, n \in Names : m # n => Plain[m] # Plain[n] /\ Slash[m] # Plain[n]
  /\ Sources \subseteq {"fs", "s3"}
  /\ \A o \in Options :
       o \in [isFake: BOOLEAN, isRemove: BOOLEAN, activeActive: BOOLEAN,
              createDstBuckets: BOOLEAN, preserve: BOOLEAN]
  /\ MaxRuns \in Nat \ {0} /\ NoName \notin Names

VARIABLES
  srcKind, opts,     \* the source and the flags
  source,            \* the buckets of the source
  before,            \* the buckets of the target when the command starts
  dst,               \* bucket -> what the target has there
  srcList, dstList,  \* the buckets of each listing not yet received
  listing,           \* "on", "failed", "ended" or "aborted"
  diffCh,            \* the differences not yet received
  phase,             \* where runMirror is
  cur,               \* the bucket it works on
  cancelled,         \* the context of the mirror was cancelled
  reported,          \* the buckets that could not be made, on the terminal
  runs               \* how often runMirror was called

env == <<srcKind, opts, source, before>>
lists == <<srcList, dstList, listing>>
vars == <<env, dst, lists, diffCh, phase, cur, cancelled, reported, runs>>

\* What the target may have in the place of a bucket: nothing, the bucket with
\* the objects it had at the start, with some or all of them removed, or a new
\* bucket.
States == {"absent", "whole", "emptied", "new"}
Phases ==
  {"next", "empty", "remove", "make", "lock", "mirror", "retry", "fatal"}

-----------------------------------------------------------------------------
(***************************************************************************)
(* The listings.                                                           *)
(***************************************************************************)

\* byDirName.Less: the separator is added to one of the two names only.
Less(m, n) ==
  IF Kind[m] = "dir" THEN Slash[m] < Plain[n]
  ELSE IF Kind[n] = "dir" THEN Plain[m] < Slash[n]
  ELSE Plain[m] < Plain[n]

\* sort.Sort is an insertion sort for as few entries as there are here: a new
\* entry moves in front of those at the end that it is less than.
Insert(sorted, n) ==
  LET after == {i \in 1..Len(sorted) + 1 :
                  \A j \in i..Len(sorted) : Less(n, sorted[j])}
      place == CHOOSE i \in after : \A j \in after : i <= j
  IN InsertAt(sorted, place, n)

readDir(dirents) == FoldLeft(Insert, <<>>, dirents)

\* ListBuckets of a local directory: the system lists the entries in any
\* order, readDir sorts them, directories and links to them are buckets.
FsBuckets(S) ==
  LET files == {n \in Names : Kind[n] = "file"}
  IN {SelectSeq(readDir(d), LAMBDA n : Kind[n] # "file") :
        d \in SetToSeqs(S \cup files)}

\* ListBuckets of an object storage: by name.
S3Buckets(S) ==
  {s \in [1..Cardinality(S) -> S] :
     /\ \A n \in S : \E i \in DOMAIN s : s[i] = n
     /\ \A i, j \in DOMAIN s : i < j => Plain[s[i]] < Plain[s[j]]}

Listings(kind, S) == IF kind = "fs" THEN FsBuckets(S) ELSE S3Buckets(S)

\* Buckets are made only in an object storage.
dstKind == IF opts.createDstBuckets THEN "s3" ELSE "fs"

Init ==
  /\ srcKind \in Sources /\ opts \in Options
  /\ ~opts.createDstBuckets => srcKind = "s3"
  /\ source \in SUBSET {n \in Names : Kind[n] # "file"}
  /\ before \in SUBSET {n \in Names : Kind[n] # "file"}
  /\ dst = [n \in Names |-> IF n \in before THEN "whole" ELSE "absent"]
  /\ srcList \in Listings(srcKind, source)
  /\ dstList \in Listings(dstKind, before)
  /\ listing \in {"on", "failed"}
  /\ diffCh = <<>>
  /\ phase = "next" /\ cur = NoName
  /\ cancelled = FALSE /\ reported = {} /\ runs = 1

(***************************************************************************)
(* bucketDifference.                                                       *)
(***************************************************************************)
Running == phase \notin {"mirror", "retry", "fatal"}
sourceListingOnly == ~opts.activeActive /\ ~opts.isRemove

\* The user interrupts the mirror.
Cancel ==
  /\ Running /\ ~cancelled
  /\ cancelled' = TRUE
  /\ UNCHANGED <<env, dst, lists, diffCh, phase, cur, reported, runs>>

\* The goroutine that sends the buckets of one side finds the context done and
\* returns: its channel is closed as if there were no more buckets.
StopSource ==
  /\ Running /\ cancelled /\ listing = "on" /\ srcList # <<>>
  /\ srcList' = <<>>
  /\ UNCHANGED <<env, dst, dstList, listing, diffCh, phase, cur, cancelled,
                 reported, runs>>
StopTarget ==
  /\ Running /\ cancelled /\ listing = "on" /\ dstList # <<>>
  /\ dstList' = <<>>
  /\ UNCHANGED <<env, dst, srcList, listing, diffCh, phase, cur, cancelled,
                 reported, runs>>

\* differenceInternal over two bucket listings, by plain name.  An equal name
\* is a difference that runMirror does nothing about.
MergeEnds ==
  /\ Running /\ listing = "on"
  /\ srcList = <<>> /\ (dstList = <<>> \/ sourceListingOnly)
  /\ listing' = "ended"
  /\ UNCHANGED <<env, dst, srcList, dstList, diffCh, phase, cur, cancelled,
                 reported, runs>>

Tell(diff, name) == diffCh' = Append(diffCh, [diff |-> diff, name |-> name])

MergeFirst ==
  /\ Running /\ listing = "on" /\ srcList # <<>>
  /\ dstList # <<>> => Plain[Head(dstList)] > Plain[Head(srcList)]
  /\ Tell("differInFirst", Head(srcList))
  /\ srcList' = Tail(srcList)
  /\ UNCHANGED <<env, dst, dstList, listing, phase, cur, cancelled, reported,
                 runs>>

MergeSecond ==
  /\ Running /\ listing = "on" /\ dstList # <<>>
  /\ IF srcList = <<>> THEN ~sourceListingOnly
     ELSE Plain[Head(dstList)] < Plain[Head(srcList)]
  /\ Tell("differInSecond", Head(dstList))
  /\ dstList' = Tail(dstList)
  /\ UNCHANGED <<env, dst, srcList, listing, phase, cur, cancelled, reported,
                 runs>>

MergeEqual ==
  /\ Running /\ listing = "on" /\ srcList # <<>> /\ dstList # <<>>
  /\ Head(srcList) = Head(dstList)
  /\ srcList' = Tail(srcList) /\ dstList' = Tail(dstList)
  /\ UNCHANGED <<env, dst, listing, diffCh, phase, cur, cancelled, reported,
                 runs>>

\* ListBuckets failed: difference reports the errors it knows.
MergeFails(known) ==
  /\ Running /\ listing = "failed"
  /\ diffCh' = IF known
               THEN Append(diffCh, [diff |-> "error", name |-> NoName])
               ELSE diffCh
  /\ listing' = "aborted"
  /\ UNCHANGED <<env, dst, srcList, dstList, phase, cur, cancelled, reported,
                 runs>>

(***************************************************************************)
(* runMirror: the loop over the differences.                               *)
(***************************************************************************)
Receive(diff) == /\ phase = "next" /\ diffCh # <<>>
                 /\ Head(diffCh).diff = diff
                 /\ diffCh' = Tail(diffCh)
                 /\ UNCHANGED <<env, dst, lists, cancelled, reported, runs>>

ReceiveError ==
  /\ Receive("error")
  /\ phase' = IF opts.activeActive THEN "retry" ELSE "fatal"
  /\ UNCHANGED cur

\* Mutant: the name of the bucket is lost.
ReceiveSecondNoName ==
  /\ Receive("differInSecond")
  /\ IF ~opts.isFake /\ opts.isRemove /\ opts.createDstBuckets
     THEN phase' = "empty" /\ cur' = NoName
     ELSE UNCHANGED <<phase, cur>>

ReceiveSecond ==
  /\ Receive("differInSecond")
  /\ IF ~opts.isFake /\ opts.isRemove /\ opts.createDstBuckets
     THEN phase' = "empty" /\ cur' = Head(diffCh).name
     ELSE UNCHANGED <<phase, cur>>

\* Mutant: also the buckets that are excluded are made.
ReceiveFirstAny ==
  /\ Receive("differInFirst")
  /\ IF opts.createDstBuckets /\ ~opts.isFake
     THEN phase' = "make" /\ cur' = Head(diffCh).name
     ELSE UNCHANGED <<phase, cur>>

ReceiveFirst ==
  /\ Receive("differInFirst")
  /\ IF opts.createDstBuckets /\ ~opts.isFake
        /\ Head(diffCh).name \notin Excluded
     THEN phase' = "make" /\ cur' = Head(diffCh).name
     ELSE UNCHANGED <<phase, cur>>

\* Mutant: the contents are removed with a context of their own.
EmptyWithOwnContext(ok) ==
  /\ phase = "empty"
  /\ dst' = [dst EXCEPT ![cur] = "emptied"]
  /\ phase' = IF ok THEN "remove" ELSE "fatal"
  /\ UNCHANGED <<env, lists, diffCh, cur, cancelled, reported, runs>>

\* deleteBucket removes the contents of the bucket; the first error ends the
\* command, with what was removed until then lost.
EmptyBucket(ok) ==
  /\ phase = "empty" /\ ~cancelled
  /\ dst' = [dst EXCEPT ![cur] = "emptied"]
  /\ phase' = IF ok THEN "remove" ELSE "fatal"
  /\ UNCHANGED <<env, lists, diffCh, cur, cancelled, reported, runs>>

\* With the context done the contents are not listed.
EmptyNothing(ok) ==
  /\ phase = "empty" /\ cancelled
  /\ phase' = IF ok THEN "remove" ELSE "fatal"
  /\ UNCHANGED <<env, dst, lists, diffCh, cur, cancelled, reported, runs>>

\* ... and then the bucket itself.  With the context done the call fails.
RemoveBucket(ok) ==
  /\ phase = "remove"
  /\ ok => ~cancelled
  /\ dst' = [dst EXCEPT ![cur] = IF ok THEN "absent" ELSE @]
  /\ phase' = IF ok THEN "next" ELSE "fatal"
  /\ UNCHANGED <<env, lists, diffCh, cur, cancelled, reported, runs>>

\* A failed MakeBucket is reported and the loop goes on.
MakeBucket(ok) ==
  /\ phase = "make"
  /\ ok => ~cancelled /\ dst[cur] = "absent"
  /\ dst' = [dst EXCEPT ![cur] = IF ok THEN "new" ELSE @]
  /\ phase' = IF ok /\ opts.preserve /\ srcKind = "s3" THEN "lock" ELSE "next"
  /\ reported' = IF ok THEN reported ELSE reported \cup {cur}
  /\ UNCHANGED <<env, lists, diffCh, cur, cancelled, runs>>

\* The object lock configuration and the policies of the new bucket; only an
\* active-active mirror starts again when the former cannot be set.
LockConfig(ok) ==
  /\ phase = "lock"
  /\ phase' = IF ~ok /\ opts.activeActive THEN "retry" ELSE "next"
  /\ UNCHANGED <<env, dst, lists, diffCh, cur, cancelled, reported, runs>>

\* The differences are over: the objects are mirrored.
BucketsDone ==
  /\ phase = "next" /\ listing \in {"ended", "aborted"} /\ diffCh = <<>>
  /\ phase' = "mirror"
  /\ UNCHANGED <<env, dst, lists, diffCh, cur, cancelled, reported, runs>>

\* mainMirror calls runMirror again.
Restart ==
  /\ phase = "retry" /\ runs < MaxRuns /\ ~cancelled
  /\ srcList' \in Listings(srcKind, source)
  /\ dstList' \in Listings(dstKind, {n \in Names : dst[n] # "absent"})
  /\ listing' \in {"on", "failed"}
  /\ diffCh' = <<>> /\ phase' = "next" /\ cur' = NoName /\ runs' = runs + 1
  /\ UNCHANGED <<env, dst, cancelled, reported>>

Merge ==
  \/ StopSource \/ StopTarget
  \/ MergeEnds \/ MergeFirst \/ MergeSecond \/ MergeEqual
  \/ \E known \in BOOLEAN : MergeFails(known)

Loop ==
  \/ ReceiveError \/ ReceiveSecond \/ ReceiveFirst
  \/ \E ok \in BOOLEAN : EmptyBucket(ok) \/ EmptyNothing(ok) \/ RemoveBucket(ok)
                         \/ MakeBucket(ok) \/ LockConfig(ok)
  \/ BucketsDone \/ Restart

Finished == ~Running /\ UNCHANGED vars

Next == Cancel \/ Merge \/ Loop \/ Finished

Spec == Init /\ [][Next]_vars

-----------------------------------------------------------------------------
(***************************************************************************)
(* Properties.                                                             *)
(***************************************************************************)
Diff == [diff: {"error", "differInFirst", "differInSecond"},
         name: Names \cup {NoName}]

TypeOK ==
  /\ srcKind \in Sources /\ opts \in Options
  /\ source \subseteq Names /\ before \subseteq Names
  /\ dst \in [Names -> States]
  /\ srcList \in Seq(source) /\ dstList \in Seq(Names)
  /\ listing \in {"on", "failed", "ended", "aborted"}
  /\ diffCh \in Seq(Diff) /\ Len(diffCh) <= 2 * Cardinality(Names) + 1
  /\ phase \in Phases /\ cur \in Names \cup {NoName}
  /\ phase \in {"empty", "remove", "make", "lock"} => cur \in Names
  /\ cancelled \in BOOLEAN /\ reported \subseteq Names /\ runs \in 1..MaxRuns

\* The comment of the loop: "we don't want to perform MakeBucket (and in turn
\* delete and recreate already existing buckets and objects) if it already
\* exists".  A bucket that both sides have is never touched, also when a
\* cancelled listing looks like one that came to its end.
SharedBucketsKept ==
  \A n \in source \cap before : dst[n] = "whole"

\* When the loop comes to its end and nothing interrupted or aborted the
\* listings, the target has exactly the buckets that the flags ask for, except
\* for those that were reported as not made.
Expected(n) ==
  LET writes == opts.createDstBuckets /\ ~opts.isFake
  IN IF n \in before
     THEN ~(writes /\ opts.isRemove /\ n \notin source)
     ELSE writes /\ n \in source \ Excluded
SyncedOrReported ==
  phase = "mirror" /\ ~cancelled /\ listing = "ended" =>
    \A n \in Names :
      \/ Expected(n) <=> dst[n] \in {"whole", "new"}
      \/ n \in reported /\ dst[n] = "absent"

===============================================================================
