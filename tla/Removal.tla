-------------------------------- MODULE Removal --------------------------------
(***************************************************************************)
(* mc rm: removeSingle and listAndRemove of cmd/rm-main.go, with the       *)
(* goroutines of Client.Remove that they feed: fsClient.Remove, or         *)
(* S3Client.Remove and behind it RemoveObjectsWithResult of minio-go (not  *)
(* in this repository: it takes objects until there is a batch or no more  *)
(* of them, removes the batch, and then reports on each of its objects).   *)
(* The channels are unbuffered but for that of removeSingle, which has room *)
(* for its only content: a send and its receive are one step.              *)
(***************************************************************************)
EXTENDS Sequences, Naturals

CONSTANTS
  RmListings,       \* what Client.List may deliver: sequences of entries
                  \* [bucket, path, isDir, dirs, latest, marker, isPrefix,
                  \* young, error], where dirs are the paths of the
                  \* directories of the file system that it is in, up to the
                  \* one that is listed, and error is "none", "denied" or
                  \* "failed"
  RemoveOptions,  \* [client: "s3" or "fs", mode: "single", "plain" or
                  \*  "nonCurrent", isFake, isForce, olderThan]
  BatchSize,      \* objects per request (1000 in minio-go)
  RemoveErrors    \* of "permission", "worm", "notEmpty", "other"

ASSUME RemovalAssumption ==
  /\ BatchSize \in Nat \ {0}
  /\ \A l \in RmListings : /\ l \in Seq({l[i] : i \in DOMAIN l})
                           /\ \A i \in DOMAIN l : l[i].bucket # "none"
  /\ RemoveOptions \subseteq
       [client: {"s3", "fs"}, mode: {"single", "plain", "nonCurrent"},
        isFake: BOOLEAN, isForce: BOOLEAN, olderThan: BOOLEAN]
  /\ RemoveErrors \subseteq {"permission", "worm", "notEmpty", "other"}

VARIABLES
  rmListing, rmOpts,      \* the command
  place, versions,       \* of the listing; perObjectVersions, by their places
  toSend,                \* the places that the loop has to send before it goes on
  rm, rmFailed,          \* "list", "drain" or "exited"; the exit status
  client,                \* "receive", "forward", "switch", "end" or "closed"
  held, result,          \* the content in hand and what resultCh is offered, or <<>>
  prevBucket,
  objectsOpen, batch, statuses,  \* RemoveObjectsWithResult
  removed, failures, printed     \* what is gone, what failed, what was printed

rmCommand == <<rmListing, rmOpts>>
loop == <<place, versions, toSend, rm, rmFailed, printed>>
api == <<objectsOpen, batch, statuses, removed, failures>>
removalVars == <<rmCommand, loop, client, held, result, prevBucket, api>>

None == "none"
Entries == {e \in {rmListing[i] : i \in DOMAIN rmListing} : e.error = None}

\* What the conditions of the loop let through: no prefix, nothing younger than
\* --older-than, and with --non-current not the version that is the object.
Chosen(e) ==
  /\ ~e.isPrefix
  /\ rmOpts.olderThan => ~e.young
  /\ rmOpts.mode = "nonCurrent" => ~(e.latest /\ ~e.marker)

Within(e, d) == d.isDir /\ d.path \in e.dirs
SameObject(e, f) == e.bucket = f.bucket /\ e.path = f.path

RmTypeOK ==
  /\ place \in 1..(Len(rmListing) + 1)
  /\ \A i \in versions \cup toSend : i \in DOMAIN rmListing /\ rmListing[i] \in Entries
  /\ rm \in {"list", "drain", "exited"} /\ rmFailed \in BOOLEAN
  /\ client \in {"receive", "forward", "switch", "end", "closed"}
  /\ \A i \in DOMAIN held : held[i] \in Entries
  /\ Len(result) <= 1 /\ Len(batch) <= BatchSize
  /\ removed \cup {f.of : f \in failures} \subseteq Entries

RmInit ==
  /\ rmListing \in RmListings /\ rmOpts \in RemoveOptions
  /\ rmOpts.mode = "single" => Len(rmListing) = 1
  /\ place = 1 /\ versions = {} /\ toSend = {}
  /\ rm = "list" /\ rmFailed = FALSE
  /\ client = "receive" /\ held = <<>> /\ result = <<>> /\ prevBucket = None
  /\ objectsOpen = FALSE /\ batch = <<>> /\ statuses = <<>>
  /\ removed = {} /\ failures = {} /\ printed = {}

-----------------------------------------------------------------------------
Picked(places) == {i \in places : Chosen(rmListing[i]) /\ ~rmOpts.isFake}

\* The next entry of the listing.  With --non-current the versions of an
\* object are kept until the next object begins.
NextEntry ==
  /\ rm = "list" /\ toSend = {} /\ place <= Len(rmListing)
  /\ LET e == rmListing[place]
         newObject == \A i \in versions : ~SameObject(rmListing[i], e)
     IN \/ /\ \/ e.error = "failed"
              \/ e.error = "denied" /\ rmOpts.mode = "single"
           /\ rm' = "exited" /\ rmFailed' = TRUE
           /\ UNCHANGED <<versions, toSend>>
        \/ /\ e.error = "denied" /\ rmOpts.mode # "single"
           /\ UNCHANGED <<versions, toSend, rm, rmFailed>>
        \/ /\ e.error = None /\ rmOpts.mode = "nonCurrent"
           /\ toSend' = IF newObject THEN Picked(versions) ELSE {}
           /\ versions' = IF newObject THEN {place} ELSE versions \cup {place}
           /\ UNCHANGED <<rm, rmFailed>>
        \/ /\ e.error = None /\ rmOpts.mode # "nonCurrent"
           /\ toSend' = Picked({place})
           /\ UNCHANGED <<versions, rm, rmFailed>>
  /\ place' = place + 1
  /\ UNCHANGED <<rmCommand, client, held, result, prevBucket, api, printed>>

\* Mutant: the versions of the last object are forgotten.
EndOfListingOnly ==
  /\ rm = "list" /\ toSend = {} /\ place > Len(rmListing)
  /\ versions' = {}
  /\ rm' = IF rmOpts.isFake THEN "exited" ELSE "drain"
  /\ UNCHANGED <<toSend, rmFailed>>
  /\ UNCHANGED <<rmCommand, place, client, held, result, prevBucket, api, printed>>

\* After the listing: the versions that are left, then close(contentCh).
EndOfListing ==
  /\ rm = "list" /\ toSend = {} /\ place > Len(rmListing)
  /\ versions' = {}
  /\ IF Picked(versions) # {}
     THEN /\ toSend' = Picked(versions)
          /\ UNCHANGED <<rm, rmFailed>>
     ELSE /\ rm' = IF rmOpts.isFake THEN "exited" ELSE "drain"
          /\ UNCHANGED <<toSend, rmFailed>>
  /\ UNCHANGED <<rmCommand, place, client, held, result, prevBucket, api, printed>>

SendContent ==
  /\ rm = "list" /\ toSend # {} /\ client = "receive" /\ result = <<>>
  /\ \E i \in toSend :
       /\ \A j \in toSend : i <= j
       /\ held' = <<rmListing[i]>> /\ toSend' = toSend \ {i}
  /\ client' = "forward"
  /\ UNCHANGED <<rmCommand, place, versions, rm, rmFailed, result, prevBucket, api,
                 printed>>

\* Mutant: printed before the error is looked at.
PrintResult ==
  /\ result # <<>>
  /\ \/ rm = "list" /\ toSend # {} /\ rmOpts.mode # "single"
     \/ rm = "drain"
  /\ LET r == result[1] IN
     /\ printed' = printed \cup {[bucket |-> r.bucket, of |-> r.of]}
     /\ IF r.error \in {None, "permission"}
        THEN UNCHANGED <<rm, rmFailed>>
        ELSE rm' = "exited" /\ rmFailed' = TRUE
  /\ result' = <<>>
  /\ UNCHANGED <<rmCommand, place, versions, toSend, client, held, prevBucket, api>>

\* A result, while contents are being sent or after them.  Errors of
\* permission are passed over; those of WORM protection only by the select of
\* the plain loop, not by the range at the end.
ReceiveResult ==
  /\ result # <<>>
  /\ \/ rm = "list" /\ toSend # {} /\ rmOpts.mode # "single"
     \/ rm = "drain"
  /\ LET r == result[1]
         passedOver == \/ r.error = "permission"
                       \/ r.error = "worm" /\ rm = "list" /\ rmOpts.mode = "plain"
     IN /\ IF r.error = None
           THEN printed' = printed \cup {[bucket |-> r.bucket, of |-> r.of]}
           ELSE UNCHANGED printed
        /\ IF r.error = None \/ passedOver
           THEN UNCHANGED <<rm, rmFailed>>
           ELSE rm' = "exited" /\ rmFailed' = TRUE
  /\ result' = <<>>
  /\ UNCHANGED <<rmCommand, place, versions, toSend, client, held, prevBucket, api>>

\* resultCh is closed.  Nothing found is an error, but not with --force.
EndOfResults ==
  /\ rm = "drain" /\ result = <<>> /\ client = "closed"
  /\ rm' = "exited"
  /\ rmFailed' = (Entries = {} /\ ~rmOpts.isForce)
  /\ UNCHANGED <<rmCommand, place, versions, toSend, printed, client, held, result,
                 prevBucket, api>>

-----------------------------------------------------------------------------
ContentClosed == rm # "list"
Outcome(e, error) == [of |-> e, bucket |-> e.bucket, error |-> error]
Outcomes == {None, "gone"} \cup RemoveErrors

\* deleteFile has no error for a directory that is not empty nor for what is not
\* there, which somebody else may have removed.
Unsaid == {"gone", "notEmpty"}

\* After an error that is not one of permission the goroutine is over.
AnswerOf(error) ==
  /\ result' = <<Outcome(held[1], error)>>
  /\ client' = IF error = "other" THEN "closed" ELSE "receive"

\* fsClient.Remove: a file at a time, and then, upwards, directories that have
\* become empty.  When one of those cannot be removed, that is the answer.
RemoveFile ==
  /\ rmOpts.client = "fs" /\ client = "forward"
  /\ \/ \E dirs \in SUBSET {d \in Entries : Within(held[1], d)},
          above \in {"permission", "other"} :
          /\ held[1] \notin removed
          /\ removed' = removed \cup {held[1]} \cup dirs
          /\ \A d \in dirs \cup {held[1]}, e \in Entries :
               Within(e, d) => e \in removed' \/ Outcome(e, "gone") \in failures
          /\ rmOpts.mode = "single" => dirs = {}
          /\ \/ AnswerOf(None)
             \/ rmOpts.mode # "single" /\ above \in RemoveErrors /\ AnswerOf(above)
          /\ UNCHANGED failures
     \/ \E error \in Outcomes \ {None, "worm"} :
          /\ held[1] \in removed => error = "gone"
          /\ error = "notEmpty" => held[1].isDir
          /\ failures' = failures \cup {Outcome(held[1], error)}
          /\ AnswerOf(IF error \in Unsaid THEN None ELSE error)
          /\ UNCHANGED removed
  /\ held' = <<>>
  /\ UNCHANGED <<rmCommand, loop, prevBucket, objectsOpen, batch, statuses>>

\* S3Client.Remove: the first content opens objectsCh, a content of another
\* bucket has the statuses of the last one received first.
OpenObjects ==
  /\ rmOpts.client = "s3" /\ client = "forward" /\ prevBucket # held[1].bucket
  /\ IF prevBucket = None
     THEN objectsOpen' = TRUE /\ prevBucket' = held[1].bucket /\ UNCHANGED client
     ELSE objectsOpen' = FALSE /\ client' = "switch" /\ UNCHANGED prevBucket
  /\ UNCHANGED <<rmCommand, loop, held, result, batch, statuses, removed, failures>>

StatusEnd == ~objectsOpen /\ batch = <<>> /\ statuses = <<>>

SwitchBucket ==
  /\ client = "switch" /\ result = <<>> /\ StatusEnd
  /\ objectsOpen' = TRUE /\ prevBucket' = held[1].bucket
  /\ client' = "forward"
  /\ UNCHANGED <<rmCommand, loop, held, result, batch, statuses, removed, failures>>

SendObject ==
  /\ rmOpts.client = "s3" /\ client = "forward" /\ prevBucket = held[1].bucket
  /\ result = <<>> /\ statuses = <<>> /\ Len(batch) < BatchSize
  /\ batch' = Append(batch, held[1])
  /\ held' = <<>> /\ client' = "receive"
  /\ UNCHANGED <<rmCommand, loop, result, prevBucket, objectsOpen, statuses,
                 removed, failures>>

\* A status goes on to resultCh; while a content waits, and when the bucket
\* changes, it gets the bucket of that content.
ForwardStatus ==
  /\ client \in {"forward", "switch", "end"} /\ result = <<>> /\ statuses # <<>>
  /\ result' = <<[statuses[1] EXCEPT !.bucket =
                    IF client = "end" THEN prevBucket ELSE held[1].bucket]>>
  /\ statuses' = Tail(statuses)
  /\ UNCHANGED <<rmCommand, loop, client, held, prevBucket, objectsOpen, batch,
                 removed, failures>>

EndOfContents ==
  /\ client = "receive" /\ ContentClosed /\ result = <<>>
  /\ client' = IF rmOpts.client = "s3" THEN "end" ELSE "closed"
  /\ objectsOpen' = FALSE
  /\ UNCHANGED <<rmCommand, loop, held, result, prevBucket, batch, statuses, removed,
                 failures>>

CloseResults ==
  /\ client = "end" /\ result = <<>> /\ StatusEnd
  /\ client' = "closed"
  /\ UNCHANGED <<rmCommand, loop, held, result, prevBucket, api>>

\* minio-go: one request removes a batch.
RemoveBatch ==
  /\ batch # <<>> /\ statuses = <<>>
  /\ Len(batch) = BatchSize \/ ~objectsOpen
  /\ \E errors \in [DOMAIN batch -> Outcomes \ ({"permission"} \cup Unsaid)] :
       /\ statuses' = [i \in DOMAIN batch |-> Outcome(batch[i], errors[i])]
       /\ removed' = removed \cup {batch[i] : i \in {j \in DOMAIN batch : errors[j] = None}}
       /\ failures' = failures \cup
            {Outcome(batch[i], errors[i]) : i \in {j \in DOMAIN batch : errors[j] # None}}
  /\ batch' = <<>>
  /\ UNCHANGED <<rmCommand, loop, client, held, result, prevBucket, objectsOpen>>

Main == NextEntry \/ EndOfListing \/ ReceiveResult \/ EndOfResults
Client ==
  \/ SendContent \/ RemoveFile \/ OpenObjects \/ SwitchBucket \/ SendObject
  \/ ForwardStatus \/ EndOfContents \/ CloseResults

RmNext == Main \/ Client \/ RemoveBatch

RmSpec == RmInit /\ [][RmNext]_removalVars
-----------------------------------------------------------------------------
\* Nothing is removed that the flags leave out, in particular with
\* --non-current no version that is the object, and nothing with --dry-run; but a
\* directory goes, whatever the flags say of it, when all that it had has gone.
\* Exit status 0 means that all of the rest is removed, unless its removal
\* failed with an error that is passed over or that is not said: the versions of
\* the last object of the listing were sent, and every status was received.
\* What is printed as removed is removed, or was a directory that is not empty or
\* something that was not there, for which deleteFile returns no error; as long
\* as the listing stays in one bucket, it is printed with its bucket.
RmExact ==
  LET NotRemoved(e, errors) == \E f \in failures : f.of = e /\ f.error \in errors IN
  /\ \A e \in removed :
       /\ ~rmOpts.isFake
       /\ \/ Chosen(e)
          \/ /\ rmOpts.client = "fs" /\ \E f \in removed : Chosen(f) /\ Within(f, e)
             /\ \A f \in Entries :
                  Within(f, e) => f \in removed \/ NotRemoved(f, {"gone"})
  /\ rm = "exited" /\ ~rmFailed /\ ~rmOpts.isFake =>
       \A e \in Entries :
         ~Chosen(e) \/ e \in removed \/ NotRemoved(e, {"permission", "worm"} \cup Unsaid)
  /\ \A p \in printed :
       /\ p.of \in removed \/ (rmOpts.client = "fs" /\ NotRemoved(p.of, Unsaid))
       /\ (\A e \in Entries : e.bucket = p.of.bucket) => p.bucket = p.of.bucket

===============================================================================
