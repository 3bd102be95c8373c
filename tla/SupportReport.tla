------------------------------ MODULE SupportReport ------------------------------
(***************************************************************************)
(* What the support commands do with what they have collected: mc support  *)
(* perf, inspect, profile and diag write it into a file, upload the file   *)
(* to SUBNET (cmd/subnet-file-uploader.go) and remove it, or move it into  *)
(* the working directory, out of the way of a file that is there.  Any of  *)
(* the steps may fail, and mc may be killed between any two.               *)
(***************************************************************************)
EXTENDS Naturals, Sequences

CONSTANTS
  SupportKinds,   \* of "perf", "inspect", "profile", "diag"
  SupportErrors   \* what may fail: "fetch", "create", "copy", "remove",
                  \* "upload", "reply", "kill", and "close", of which mc does
                  \* not hear

ASSUME SupportAssumption == SupportKinds \subseteq {"perf", "inspect", "profile", "diag"}

VARIABLES
  supportKind, airgapped,
  hadOld,        \* a file of the name of the report was there before
  file,          \* "temp", "dest" or "backup" -> what it has, "none" without it:
                 \* "new", "old", or "part" of something
  unheard,       \* of "new" and "old": what has lost bytes at a Close whose
                 \* error nobody looks at
  portal,        \* what SUBNET has: "none", "new" or "part"
  supportAt,     \* where mc is: "fetch", "fetched", "move" or "upload"
  moves, moveStep, \* the calls of moveFile to come; how far the first is
  reportTold       \* the end: "none", "uploaded", "saved", "failed" or "killed"

supportVars == <<supportKind, airgapped, hadOld, file, unheard, portal, supportAt,
                 moves, moveStep, reportTold>>

\* Perf and diag have the time in the names of their files.
Dated == {"perf", "diag"}

SupportInit ==
  /\ supportKind \in SupportKinds /\ airgapped \in BOOLEAN
  /\ hadOld \in IF supportKind \in Dated THEN {FALSE} ELSE BOOLEAN
  /\ file = [f \in {"temp", "dest", "backup"} |->
               IF f = "dest" /\ hadOld THEN "old" ELSE "none"]
  /\ unheard = {} /\ portal = "none" /\ supportAt = "fetch" /\ moves = <<>> /\ moveStep = "create"
  /\ reportTold = "none"

ReportAt(place) == supportAt = place /\ reportTold = "none"
SupportOver(end) == reportTold' = end /\ UNCHANGED <<supportAt, moves, moveStep>>

\* What the server sends, into the file; inspect reads it as it goes by and
\* fails when it is not whole.  Diag writes into its report, with an error if the
\* Close fails.  The last bytes of the others, with perf the directory of the
\* zip, are written by a Close that may fail unheard.
Fetched == IF supportKind = "diag" THEN "dest" ELSE "temp"
Fetch ==
  /\ ReportAt("fetch")
  /\ \/ /\ \/ file' = [file EXCEPT ![Fetched] = "new"] /\ UNCHANGED unheard
           \/ /\ "close" \in SupportErrors /\ supportKind # "diag"
              /\ file' = [file EXCEPT ![Fetched] = "part"] /\ unheard' = {"new"}
        /\ supportAt' = "fetched" /\ UNCHANGED <<moves, moveStep, reportTold>>
     \/ /\ "fetch" \in SupportErrors
        /\ file' = [file EXCEPT ![Fetched] = "part"] /\ UNCHANGED unheard
        /\ SupportOver("failed")
  /\ UNCHANGED <<supportKind, airgapped, hadOld, portal>>

\* Mutant: the report is moved over the one that is there.
SaveReportOver ==
  /\ moves' = <<[from |-> "temp", to |-> "dest"]>>
  /\ supportAt' = "move" /\ moveStep' = "create" /\ UNCHANGED reportTold

\* saveProfileFile, saveInspectDataFile: os.Stat, and the file that is there is
\* moved first.  savePerfResultFile, of a dated name, moves at once.
SaveReport ==
  /\ moves' = (IF file.dest = "none" THEN <<>> ELSE <<[from |-> "dest", to |-> "backup"]>>)
                \o <<[from |-> "temp", to |-> "dest"]>>
  /\ supportAt' = "move" /\ moveStep' = "create" /\ UNCHANGED reportTold

StartUpload == supportAt' = "upload" /\ UNCHANGED <<moves, moveStep, reportTold>>

\* A profile is saved and then uploaded; the others are uploaded or saved.
Decide ==
  /\ ReportAt("fetched")
  /\ CASE supportKind = "profile" -> SaveReport
       [] supportKind = "diag" -> IF airgapped THEN SupportOver("saved") ELSE StartUpload
       [] OTHER -> IF airgapped THEN SaveReport ELSE StartUpload
  /\ UNCHANGED <<supportKind, airgapped, hadOld, file, unheard, portal>>

\* Mutant: what could not be copied is removed.
MoveUnchecked ==
  /\ ReportAt("move") /\ moveStep = "copy"
  /\ file' = [file EXCEPT ![Head(moves).to] = IF "copy" \in SupportErrors THEN "part" ELSE "new"]
  /\ moveStep' = "remove" /\ UNCHANGED <<supportAt, moves, reportTold>>
  /\ UNCHANGED <<supportKind, airgapped, hadOld, unheard, portal>>

\* moveFile: os.Create, io.Copy and os.Remove; its errors are fatal.
MoveCreates ==
  /\ ReportAt("move") /\ moveStep = "create"
  /\ \/ /\ file' = [file EXCEPT ![Head(moves).to] = "part"]
        /\ moveStep' = "copy" /\ UNCHANGED <<supportAt, moves, reportTold>>
     \/ /\ "create" \in SupportErrors /\ UNCHANGED file /\ SupportOver("failed")
  /\ UNCHANGED <<supportKind, airgapped, hadOld, unheard, portal>>
MoveCopies ==
  /\ ReportAt("move") /\ moveStep = "copy"
  /\ \/ /\ file' = [file EXCEPT ![Head(moves).to] = file[Head(moves).from]]
        /\ moveStep' = "remove" /\ UNCHANGED <<supportAt, moves, reportTold>>
     \/ /\ "copy" \in SupportErrors /\ UNCHANGED file /\ SupportOver("failed")
  /\ UNCHANGED <<supportKind, airgapped, hadOld, unheard, portal>>
\* The copy is closed after the source has been removed or has stayed, by a
\* deferred call: the bytes that are lost then are in neither file, unheard.
MoveRemoves ==
  /\ ReportAt("move") /\ moveStep = "remove"
  /\ LET source == Head(moves).from
         copy == Head(moves).to
         content == IF copy = "backup" THEN "old" ELSE "new" IN
     \/ /\ \/ file' = [file EXCEPT ![source] = "none"] /\ UNCHANGED unheard
           \/ /\ "close" \in SupportErrors
              /\ file' = [file EXCEPT ![source] = "none", ![copy] = "part"]
              /\ unheard' = unheard \cup {content}
        /\ IF Len(moves) > 1
           THEN moves' = Tail(moves) /\ moveStep' = "create" /\ UNCHANGED <<supportAt, reportTold>>
           ELSE IF supportKind = "profile" /\ ~airgapped THEN StartUpload
                ELSE SupportOver("saved")
     \/ /\ "remove" \in SupportErrors
        /\ \/ UNCHANGED file
           \/ "close" \in SupportErrors /\ file' = [file EXCEPT ![copy] = "part"]
        /\ UNCHANGED unheard /\ SupportOver("failed")
  /\ UNCHANGED <<supportKind, airgapped, hadOld, portal>>

\* UploadFileToSubnet: a goroutine feeds the file into the request.  When it
\* cannot, the pipe is closed with its error and the request fails; an answer
\* other than 200, and one that is lost, fail too.  The file is removed after
\* the answer, and whether that works is not looked at.
Uploaded == IF supportKind \in {"profile", "diag"} THEN "dest" ELSE "temp"
Upload ==
  /\ ReportAt("upload") /\ portal = "none"
  /\ \/ /\ portal' = file[Uploaded]
        /\ UNCHANGED <<supportAt, moves, moveStep, reportTold>>
     \/ /\ \/ "upload" \in SupportErrors /\ UNCHANGED portal
           \/ "reply" \in SupportErrors /\ portal' = file[Uploaded]
        /\ IF supportKind \in {"profile", "diag"} THEN SupportOver("failed") ELSE SaveReport
  /\ UNCHANGED <<supportKind, airgapped, hadOld, file, unheard>>

RemoveUploaded ==
  /\ ReportAt("upload") /\ portal # "none"
  /\ \/ file' = [file EXCEPT ![Uploaded] = "none"]
     \/ "remove" \in SupportErrors /\ UNCHANGED file
  /\ SupportOver("uploaded")
  /\ UNCHANGED <<supportKind, airgapped, hadOld, unheard, portal>>

KillReport ==
  /\ "kill" \in SupportErrors /\ reportTold = "none"
  /\ SupportOver("killed")
  /\ UNCHANGED <<supportKind, airgapped, hadOld, file, unheard, portal>>

SupportNext ==
  Fetch \/ Decide \/ MoveCreates \/ MoveCopies \/ MoveRemoves \/ Upload
    \/ RemoveUploaded \/ KillReport

SupportSpec == SupportInit /\ [][SupportNext]_supportVars

-----------------------------------------------------------------------------
SupportTypeOK ==
  /\ file \in [{"temp", "dest", "backup"} -> {"none", "new", "old", "part"}]
  /\ unheard \subseteq {"new", "old"} /\ portal \in {"none", "new", "part"}
  /\ supportAt \in {"fetch", "fetched", "move", "upload"}
  /\ Len(moves) \in 0..2 /\ moveStep \in {"create", "copy", "remove"}
  /\ reportTold \in {"none", "uploaded", "saved", "failed", "killed"}

Held(content) == \E f \in DOMAIN file : file[f] = content

\* Wherever a step fails or mc is killed, what was collected is whole in one of
\* the files or with SUBNET, and so is the file whose name it takes; and mc says
\* that it has uploaded or saved the report only when it has.  Only a Close that
\* fails, which mc does not look at, breaks this, for what was being written.
ReportKept ==
  LET Kept(content) == Held(content) \/ content \in unheard IN
  /\ portal = "new" \/ Kept("new") \/ supportAt = "fetch"
  /\ hadOld => Kept("old")
  /\ reportTold = "uploaded" => portal = "new" \/ "new" \in unheard
  /\ reportTold = "saved" => file.dest = "new" \/ "new" \in unheard

===============================================================================
