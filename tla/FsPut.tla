--------------------------------- MODULE FsPut ---------------------------------
(***************************************************************************)
(* Writes and removals in one directory of the local file system:          *)
(* fsClient.put and putN, which write to a temporary file beside the       *)
(* target, and deleteFile, which removes a file and then the directories   *)
(* that have become empty (cmd/client-fs.go).  Calls run at the same time, *)
(* in the workers of a mirror or of two commands; mc may be killed, and    *)
(* the power may fail, between any two steps.                              *)
(***************************************************************************)
EXTENDS Integers

CONSTANTS
  Puts,       \* calls of put and putN
  Deletes,    \* calls of deleteFile
  Streams,    \* [length, claim]: the bytes that the reader has, and size,
              \* -1 if that is unknown
  PutErrors   \* of "mkdir", "open", "read", "rename", "times", "remove",
              \* "kill", "power"

ASSUME StreamsAssumption == Streams \subseteq [length : Nat, claim : Nat \cup {-1}]

VARIABLES
  stream, exactly,   \* of each put; exactly is TRUE for putN
  dirExists,
  target, temps,     \* what the target and the temporary files hold, see Bytes
  putAt, putResult,  \* where each put is, and what it has returned
  deleteAt,          \* where each deleteFile is
  stopped            \* "killed", when mc is, "power", when the machine stops,
                     \* or "no"

putVars == <<stream, exactly, dirExists, target, temps, putAt, putResult,
             deleteAt, stopped>>

\* The bytes of a put: [by, length, whole].  Absent is no file.
Bytes(w, n, all) == [by |-> w, length |-> n, whole |-> all]
Absent == Bytes("none", 0, TRUE)

PutInit ==
  /\ stream \in [Puts -> Streams]
  /\ exactly \in [Puts -> BOOLEAN]
  /\ \A w \in Puts : exactly[w] => stream[w].claim >= 0  \* PutPart
  /\ dirExists = FALSE /\ target = Absent /\ temps = [w \in Puts |-> Absent]
  /\ putAt = [w \in Puts |-> "mkdir"] /\ putResult = [w \in Puts |-> "none"]
  /\ deleteAt = [d \in Deletes |-> "file"] /\ stopped = "no"

\* The result is known; the deferred os.Remove is still to come.
Return(w, result) ==
  /\ putResult' = [putResult EXCEPT ![w] = result]
  /\ putAt' = [putAt EXCEPT ![w] = "defer"]

GoOn(w, to) == putAt' = [putAt EXCEPT ![w] = to] /\ UNCHANGED putResult

At(w, place) ==
  /\ putAt[w] = place /\ stopped = "no"
  /\ UNCHANGED <<stream, exactly, deleteAt, stopped>>

MkdirAll(w) ==
  /\ At(w, "mkdir")
  /\ \/ dirExists' = TRUE /\ GoOn(w, "open")
     \/ "mkdir" \in PutErrors /\ Return(w, "error") /\ UNCHANGED dirExists
  /\ UNCHANGED <<target, temps>>

\* The directory may have been removed since.
OpenFile(w) ==
  /\ At(w, "open")
  /\ \/ /\ dirExists /\ GoOn(w, "copy")
        /\ temps' = [temps EXCEPT ![w] = Bytes(w, 0, FALSE)]
     \/ /\ ~dirExists \/ "open" \in PutErrors
        /\ Return(w, "error") /\ UNCHANGED temps
  /\ UNCHANGED <<dirExists, target>>

\* io.Copy takes all there is, io.CopyN as much as was asked for, and reports
\* if there is less.  An error of the reader, of the write or of a Close of
\* either ends the put.
Limit(w) == IF exactly[w] /\ stream[w].claim < stream[w].length
            THEN stream[w].claim ELSE stream[w].length

CopyBytes(w) ==
  /\ At(w, "copy")
  /\ \/ /\ temps[w].length < Limit(w)
        /\ temps' = [temps EXCEPT ![w].length = @ + 1]
        /\ UNCHANGED <<putAt, putResult>>
     \/ /\ temps[w].length = Limit(w) /\ UNCHANGED temps
        /\ IF exactly[w] /\ Limit(w) < stream[w].claim
           THEN Return(w, "error") ELSE GoOn(w, "verify")
     \/ /\ "read" \in PutErrors
        /\ Return(w, "error") /\ UNCHANGED temps
  /\ UNCHANGED <<dirExists, target>>

\* Mutant: the check of putN, which looks for too much only.
VerifyExcess(w) ==
  /\ At(w, "verify")
  /\ temps' = [temps EXCEPT ![w].whole = TRUE]
  /\ IF stream[w].claim > 0 /\ temps[w].length > stream[w].claim
     THEN Return(w, "error") ELSE GoOn(w, "rename")
  /\ UNCHANGED <<dirExists, target>>

\* After the close the length is compared, if the claim is greater than 0.
Verify(w) ==
  /\ At(w, "verify")
  /\ temps' = [temps EXCEPT ![w].whole = TRUE]
  /\ IF stream[w].claim > 0 /\ temps[w].length # stream[w].claim
     THEN Return(w, "error") ELSE GoOn(w, "rename")
  /\ UNCHANGED <<dirExists, target>>

\* The temporary file takes the name of the target, which it may not be able to.
Rename(w) ==
  /\ At(w, "rename")
  /\ \/ /\ target' = temps[w] /\ temps' = [temps EXCEPT ![w] = Absent]
        /\ GoOn(w, "times")
     \/ "rename" \in PutErrors /\ Return(w, "error") /\ UNCHANGED <<target, temps>>
  /\ UNCHANGED dirExists

\* The times of the source are set on the target; a failure is returned.
Chtimes(w) ==
  /\ At(w, "times")
  /\ \/ Return(w, "ok")
     \/ "times" \in PutErrors /\ Return(w, "error")
  /\ UNCHANGED <<dirExists, target, temps>>

\* The deferred os.Remove, of which nobody hears that it has failed.
RemoveTemp(w) ==
  /\ At(w, "defer")
  /\ \/ temps' = [temps EXCEPT ![w] = Absent] /\ GoOn(w, "over")
     \/ "remove" \in PutErrors /\ UNCHANGED temps /\ GoOn(w, "left")
  /\ UNCHANGED <<dirExists, target>>

\* os.Remove of the file, then of its directory, which fails if it is not empty.
\* A file that is not there ends deleteFile, and so does one that stays.
deleteFile(d) ==
  /\ stopped = "no"
  /\ \/ /\ deleteAt[d] = "file"
        /\ deleteAt' = [deleteAt EXCEPT ![d] = IF target = Absent THEN "over" ELSE "parent"]
        /\ target' = Absent /\ UNCHANGED dirExists
     \/ /\ deleteAt[d] = "parent"
        /\ deleteAt' = [deleteAt EXCEPT ![d] = "over"]
        /\ dirExists' = (dirExists /\ (target # Absent \/ \E w \in Puts : temps[w] # Absent))
        /\ UNCHANGED target
     \/ /\ deleteAt[d] # "over" /\ "remove" \in PutErrors
        /\ deleteAt' = [deleteAt EXCEPT ![d] = "over"]
        /\ UNCHANGED <<dirExists, target>>
  /\ UNCHANGED <<stream, exactly, temps, putAt, putResult, stopped>>

\* mc is killed: the system keeps what has been written and renamed.
Crash ==
  /\ stopped = "no" /\ "kill" \in PutErrors /\ stopped' = "killed"
  /\ UNCHANGED <<stream, exactly, dirExists, target, temps, putAt, putResult, deleteAt>>

\* The machine stops.  Neither put nor putN has called Sync before the rename,
\* so that the target may be there with less than was written, or not be there.
PowerLoss ==
  /\ stopped = "no" /\ "power" \in PutErrors /\ stopped' = "power"
  /\ \/ target' \in {target, Absent}
     \/ \E n \in 0..(target.length - 1) : target' = Bytes(target.by, n, FALSE)
  /\ UNCHANGED <<stream, exactly, dirExists, temps, putAt, putResult, deleteAt>>

Put(w) == \/ MkdirAll(w) \/ OpenFile(w) \/ CopyBytes(w) \/ Verify(w)
          \/ Rename(w) \/ Chtimes(w) \/ RemoveTemp(w)

PutNext == \/ \E w \in Puts : Put(w)
           \/ \E d \in Deletes : deleteFile(d)
           \/ Crash \/ PowerLoss

PutSpec == PutInit /\ [][PutNext]_putVars

-----------------------------------------------------------------------------
PutTypeOK ==
  /\ dirExists \in BOOLEAN /\ stopped \in {"no", "killed", "power"}
  /\ target.by \in Puts \cup {"none"}
  /\ \A w \in Puts : temps[w].length \in 0..stream[w].length
  /\ putResult \in [Puts -> {"none", "ok", "error"}]
  /\ target # Absent \/ (\E w \in Puts : temps[w] # Absent) => dirExists

\* At every moment, after a kill and after a failed rename too, the target is
\* what one put has written to its end and as much as it claimed, although
\* several write at once, or it is absent; and a temporary file is left only by
\* a put that was stopped or could not remove it.  After a power failure there
\* is no such promise: nothing is synced before the rename.
PutAllOrNothing ==
  /\ stopped # "power" =>
       /\ target.whole
       /\ target # Absent /\ stream[target.by].claim > 0 =>
            target.length = stream[target.by].claim
  /\ \A w \in Puts : putAt[w] = "over" => temps[w] = Absent

===============================================================================
