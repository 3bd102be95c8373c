------------------------------- MODULE SelfUpdate -------------------------------
(***************************************************************************)
(* mc update: PrepareAndCheckBinary and CommitBinary of                    *)
(* pkg/selfupdate/apply.go.  Three names in the directory of the binary:   *)
(* "target", "new" (.mc.new) and "old" (.mc.old); a rename may fail, mc    *)
(* may be killed between two calls, and an update may run while another    *)
(* one does.                                                               *)
(***************************************************************************)
EXTENDS Naturals

CONSTANTS
  Updates,      \* runs of mc update
  UpdateErrors  \* of "write", "rename", "kill"

ASSUME UpdatesAssumption == Updates \subseteq Nat \ {0}

VARIABLES
  updateAt,     \* run -> the next call, or "over"
  names,        \* name -> the file it is a name of, or 0
  whole,        \* the files that are written to their end
  writing,      \* run -> the file it has open
  overlapped    \* history: two updates have run at the same time

updateVars == <<updateAt, names, whole, writing, overlapped>>

Names3 == {"target", "new", "old"}
Places == {"idle", "write", "removeOld", "saveOld", "commit", "removeOldAgain",
           "rollback", "over"}
\* A file is a number: 0 is none, 1 the binary there is.  A run opens "new" or
\* makes it, then under its own number.
FileOf(u) == u + 1

UpdateInit ==
  /\ updateAt = [u \in Updates |-> "idle"]
  /\ names = [n \in Names3 |-> IF n = "target" THEN 1 ELSE 0]
  /\ whole = {1} /\ writing = [u \in Updates |-> 0]
  /\ overlapped = FALSE

To(u, place) == updateAt' = [updateAt EXCEPT ![u] = place]
UnderWay == {u \in Updates : updateAt[u] \notin {"idle", "over"}}

\* The checksum of what was read is right; "new" is made or truncated.
OpenNew(u) ==
  /\ updateAt[u] = "idle" /\ names["target"] # 0
  /\ LET file == IF names["new"] = 0 THEN FileOf(u) ELSE names["new"]
     IN /\ names' = [names EXCEPT !["new"] = file]
        /\ writing' = [writing EXCEPT ![u] = file]
        /\ whole' = whole \ {file}
  /\ overlapped' = (overlapped \/ UnderWay # {})
  /\ To(u, "write")

\* Mutant: the error of the write is not looked at.
WriteUnchecked(u) ==
  /\ updateAt[u] = "write"
  /\ \/ whole' = whole \cup {writing[u]}
     \/ "write" \in UpdateErrors /\ UNCHANGED whole
  /\ To(u, "removeOld")
  /\ writing' = [writing EXCEPT ![u] = 0]
  /\ UNCHANGED <<names, overlapped>>

WriteNew(u) ==
  /\ updateAt[u] = "write"
  /\ \/ whole' = whole \cup {writing[u]} /\ To(u, "removeOld")
     \/ "write" \in UpdateErrors /\ To(u, "over") /\ UNCHANGED whole
  /\ writing' = [writing EXCEPT ![u] = 0]
  /\ UNCHANGED <<names, overlapped>>

\* os.Rename replaces what has the new name; it fails if there is no file.
RenameStep(u, place, from, to, good, bad) ==
  /\ updateAt[u] = place
  /\ \/ /\ names[from] # 0 /\ To(u, good)
        /\ names' = [names EXCEPT ![to] = names[from], ![from] = 0]
     \/ /\ names[from] = 0 \/ "rename" \in UpdateErrors
        /\ To(u, bad) /\ UNCHANGED names
  /\ UNCHANGED <<whole, writing, overlapped>>

RemoveOld(u) ==
  /\ updateAt[u] \in {"removeOld", "removeOldAgain"}
  /\ names' = [names EXCEPT !["old"] = 0]
  /\ To(u, IF updateAt[u] = "removeOld" THEN "saveOld" ELSE "over")
  /\ UNCHANGED <<whole, writing, overlapped>>

SaveOld(u) == RenameStep(u, "saveOld", "target", "old", "commit", "over")
CommitNew(u) == RenameStep(u, "commit", "new", "target", "removeOldAgain", "rollback")
Rollback(u) == RenameStep(u, "rollback", "old", "target", "over", "over")

Kill(u) ==
  /\ u \in UnderWay /\ "kill" \in UpdateErrors
  /\ To(u, "over") /\ writing' = [writing EXCEPT ![u] = 0]
  /\ UNCHANGED <<names, whole, overlapped>>

UpdateNext ==
  \E u \in Updates : \/ OpenNew(u) \/ WriteNew(u) \/ RemoveOld(u) \/ SaveOld(u)
                     \/ CommitNew(u) \/ Rollback(u) \/ Kill(u)

UpdateSpec == UpdateInit /\ [][UpdateNext]_updateVars

-----------------------------------------------------------------------------
UpdateTypeOK ==
  /\ updateAt \in [Updates -> Places]
  /\ names \in [Names3 -> Nat] /\ whole \subseteq Nat \ {0}
  /\ writing \in [Updates -> Nat]
  /\ \A u \in Updates : updateAt[u] = "write" => writing[u] # 0
  /\ overlapped \in BOOLEAN

\* Updates that do not overlap, however many of them fail or are killed, leave
\* a whole binary under the name of mc or, if one was killed or could not roll
\* back between the two renames, under the name of the old one; what has the
\* name of mc is never a part of a binary.
BinaryKept ==
  ~overlapped =>
    /\ names["target"] # 0 => names["target"] \in whole
    /\ names["target"] # 0 \/ names["old"] \in whole

===============================================================================
