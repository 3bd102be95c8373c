-------------------------------- MODULE Rewind --------------------------------
(***************************************************************************)
(* A listing of a bucket store as it was at a time (--rewind): versioned-  *)
(* List, listVersionsRoutine and unversionedList of cmd/client-s3.go.  It  *)
(* reads the buckets one after the other, the versions of an object newest *)
(* first, while users go on to put and delete; minio-go and the server are *)
(* external.  "ls" asks for all versions and prints the newest of each     *)
(* object, a delete marker as such (cmd/ls.go); "cp" asks for one version  *)
(* of each object and no markers (cmd/cp-url.go).                          *)
(***************************************************************************)
EXTENDS Naturals, Sequences, FiniteSets

CONSTANTS
  VersionedKeys,    \* sequence of [bucket, name]: the order of the listing
  RewindCommands,   \* of "ls", "cp"
  RewindFailures,   \* of "error", "notImplemented"
  MaxVersions       \* bound: puts and deletes

ASSUME RewindAssumption ==
  /\ VersionedKeys \in Seq({VersionedKeys[i] : i \in DOMAIN VersionedKeys})
  /\ RewindCommands \subseteq {"ls", "cp"} /\ MaxVersions \in Nat

VARIABLES
  history,          \* key -> its versions, [time, marker], newest first
  past,             \* past[t]: the keys there were just before time t
  now,
  rwCommand, timeRef,  \* timeRef is 0 without --rewind
  reading,          \* "no", "versions", "present" or "ended"
  nextKey,          \* the place in VersionedKeys
  emitted,          \* what contentCh has delivered: [key, time, marker]
  failedBuckets,    \* those whose error it has delivered
  fellBack          \* the listing has begun again, from the present

rewindVars == <<history, past, now, rwCommand, timeRef, reading, nextKey, emitted,
                failedBuckets, fellBack>>

Keys2 == {VersionedKeys[i] : i \in DOMAIN VersionedKeys}
BucketOf(i) == VersionedKeys[i].bucket
Live(h) == {k \in Keys2 : h[k] # <<>> /\ ~h[k][1].marker}

RewindTypeOK ==
  /\ now \in 0..MaxVersions /\ timeRef \in 0..(MaxVersions + 1)
  /\ DOMAIN past = 1..(now + 1) /\ past[now + 1] = Live(history)
  /\ nextKey \in 1..(Len(VersionedKeys) + 1)
  /\ {e.key : e \in emitted} \subseteq Keys2
  /\ failedBuckets \subseteq {k.bucket : k \in Keys2}

RewindInit ==
  /\ history = [k \in Keys2 |-> <<>>] /\ now = 0 /\ past = <<{}>>
  /\ rwCommand \in RewindCommands /\ timeRef = 0
  /\ reading = "no" /\ nextKey = 1 /\ emitted = {} /\ failedBuckets = {}
  /\ fellBack = FALSE

\* A put or a delete, which leaves a marker, of a user; at any time.
NewVersion(k, marker) ==
  /\ now < MaxVersions /\ reading # "ended"
  /\ now' = now + 1
  /\ history' = [history EXCEPT ![k] = <<[time |-> now', marker |-> marker]>> \o @]
  /\ past' = Append(past, Live(history'))
  /\ UNCHANGED <<rwCommand, timeRef, reading, nextKey, emitted, failedBuckets, fellBack>>

\* S3Client.List.  The time of --rewind is not in the future.
StartListing(t) ==
  /\ reading = "no"
  /\ timeRef' = t
  /\ reading' = IF t = 0 THEN "present" ELSE "versions"
  /\ UNCHANGED <<history, past, now, rwCommand, nextKey, emitted, failedBuckets, fellBack>>

WithOlderVersions == rwCommand = "ls"
WithDeleteMarkers == rwCommand = "ls"

\* Mutant: a marker that is not asked for does not count as the version.
newestPut(vs) ==
  LET before == {i \in DOMAIN vs : vs[i].time < timeRef}
      wanted == {i \in before : WithDeleteMarkers \/ ~vs[i].marker}
  IN {vs[i] : i \in {j \in wanted : WithOlderVersions \/ \A l \in wanted : j <= l}}

\* listVersionsRoutine, of the versions of one object: those before the time, or
\* the first of them only (skipKey), and then without the markers.
versionsListed(vs) ==
  LET before == {i \in DOMAIN vs : vs[i].time < timeRef}
      asked == {i \in before : WithOlderVersions \/ \A l \in before : i <= l}
  IN {vs[i] : i \in {j \in asked : WithDeleteMarkers \/ ~vs[j].marker}}

Emit(k, vs) == emitted' = emitted \cup
                 {[key |-> k, time |-> v.time, marker |-> v.marker] : v \in vs}

ListObject ==
  /\ reading \in {"versions", "present"} /\ nextKey <= Len(VersionedKeys)
  /\ LET k == VersionedKeys[nextKey]
         present == IF k \in Live(history) THEN {history[k][1]} ELSE {}
     IN Emit(k, IF reading = "present" THEN present ELSE versionsListed(history[k]))
  /\ nextKey' = nextKey + 1
  /\ UNCHANGED <<history, past, now, rwCommand, timeRef, reading, failedBuckets, fellBack>>

\* An error ends the listing of its bucket and is passed on; that of the present
\* ends with it.  A server without versions has the present listed, in addition
\* to what was.
ListError ==
  /\ reading \in {"versions", "present"} /\ nextKey <= Len(VersionedKeys)
  /\ \/ /\ "error" \in RewindFailures
        /\ failedBuckets' = failedBuckets \cup {BucketOf(nextKey)}
        /\ LET rest == {i \in nextKey..Len(VersionedKeys) : BucketOf(i) # BucketOf(nextKey)}
           IN nextKey' = IF reading = "present" \/ rest = {} THEN Len(VersionedKeys) + 1
                         ELSE CHOOSE i \in rest : \A j \in rest : i <= j
        /\ UNCHANGED <<reading, fellBack>>
     \/ /\ "notImplemented" \in RewindFailures /\ reading = "versions"
        /\ reading' = "present" /\ nextKey' = 1 /\ fellBack' = TRUE
        /\ UNCHANGED failedBuckets
  /\ UNCHANGED <<history, past, now, rwCommand, timeRef, emitted>>

EndOfVersions ==
  /\ reading \in {"versions", "present"} /\ nextKey > Len(VersionedKeys)
  /\ reading' = "ended"
  /\ UNCHANGED <<history, past, now, rwCommand, timeRef, nextKey, emitted, failedBuckets,
                 fellBack>>

RewindNext ==
  \/ \E k \in Keys2, marker \in BOOLEAN : NewVersion(k, marker)
  \/ \E t \in 0..(now + 1) : StartListing(t)
  \/ ListObject \/ ListError \/ EndOfVersions

RewindSpec == RewindInit /\ [][RewindNext]_rewindVars

-----------------------------------------------------------------------------
\* Of each object the newest version delivered, the one that ls prints.
Newest == {e \in emitted : \A f \in emitted : f.key = e.key => f.time <= e.time}

\* A listing with --rewind shows the objects that there were at that time,
\* whatever is put and deleted while it reads: none that was deleted before, by
\* its marker or otherwise, none that came later, and all of the rest, but for
\* the buckets whose error it has delivered.  This does not hold of a server
\* that does not list versions.
RewindShowsThePast ==
  reading = "ended" /\ timeRef > 0 /\ ~fellBack =>
    LET shown == {e.key : e \in {n \in Newest : ~n.marker}}
        there == past[timeRef]
    IN /\ shown \subseteq there
       /\ \A k \in there \ shown : k.bucket \in failedBuckets

===============================================================================
