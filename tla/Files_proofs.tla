---------------------------- MODULE Files_proofs -----------------------------
(***************************************************************************)
(* The files that commands keep: what a put leaves under its name, the     *)
(* binaries of mc update, the database of shared URLs, the reports of mc   *)
(* support, what mc od copies, and the keys in the configuration, for any  *)
(* number of runs and failures.                                            *)
(***************************************************************************)
EXTENDS FsPut, SelfUpdate, ShareDB, SupportReport, Od, ConfigMigrate, FiniteSetTheorems,
        SequenceTheorems, TLAPS

-----------------------------------------------------------------------------
(***************************************************************************)
(* PutAllOrNothing for any number of writers and removals, any sizes and   *)
(* claims, and a kill or a power failure between any two steps.            *)
(***************************************************************************)

PutPlaces == {"mkdir", "open", "copy", "verify", "rename", "times", "defer", "over",
              "left"}
FileStates == [by : Puts \cup {"none"}, length : Nat, whole : BOOLEAN]

\* As long as the writer claimed.
Fits(data) == stream[data.by].claim > 0 => data.length = stream[data.by].claim

PutTypes ==
  /\ stream \in [Puts -> Streams]
  /\ target \in FileStates
  /\ temps \in [Puts -> FileStates]
  /\ putAt \in [Puts -> PutPlaces]

\* A writer's temporary file is its own, and verified before it is renamed.
TempsInv ==
  \A w \in Puts :
    /\ putAt[w] \in {"copy", "verify", "rename"} => temps[w].by = w
    /\ putAt[w] = "rename" => temps[w].whole = TRUE /\ Fits(temps[w])
    /\ putAt[w] = "over" => temps[w] = Absent

\* Until the power fails.
TargetInv ==
  stopped # "power" =>
    target = Absent \/ (target.by \in Puts /\ target.whole = TRUE /\ Fits(target))

PutIInv == PutTypes /\ TempsInv /\ TargetInv

-----------------------------------------------------------------------------
LEMMA AbsentType == Absent \in FileStates
  BY DEF Absent, Bytes, FileStates

LEMMA StreamType ==
  ASSUME PutTypes, NEW w \in Puts
  PROVE  stream[w].length \in Nat /\ stream[w].claim \in Int
  BY StreamsAssumption DEF StreamsAssumption, PutTypes

\* A step of w that leaves the target alone keeps PutIInv if it keeps what
\* concerns w.
LEMMA WriterStep ==
  ASSUME PutIInv, NEW w \in Puts, NEW data \in FileStates, NEW place \in PutPlaces,
         UNCHANGED <<stream, target, stopped>>,
         putAt' = [putAt EXCEPT ![w] = place],
         temps' = [temps EXCEPT ![w] = data],
         place \in {"copy", "verify", "rename"} => data.by = w,
         place = "rename" => data.whole = TRUE /\ Fits(data),
         place = "over" => data = Absent
  PROVE  PutIInv'
  <1>1. PutTypes'
    BY DEF PutIInv, PutTypes
  <1>2. TempsInv'
    <2> SUFFICES ASSUME NEW v \in Puts
                 PROVE  /\ putAt'[v] \in {"copy", "verify", "rename"} => temps'[v].by = v
                        /\ putAt'[v] = "rename" =>
                             temps'[v].whole = TRUE /\ Fits(temps[v])'
                        /\ putAt'[v] = "over" => temps'[v] = Absent
      BY DEF TempsInv, Absent
    <2>1. CASE v = w
      <3>1. putAt'[v] = place /\ temps'[v] = data
        BY <2>1 DEF PutIInv, PutTypes
      <3>2. QED BY <2>1, <3>1 DEF Fits
    <2>2. CASE v # w
      <3>1. putAt'[v] = putAt[v] /\ temps'[v] = temps[v]
        BY <2>2 DEF PutIInv, PutTypes
      <3>2. QED BY <3>1 DEF PutIInv, TempsInv, Fits
    <2>3. QED BY <2>1, <2>2
  <1>3. TargetInv'
    BY DEF PutIInv, TargetInv, Fits, Absent
  <1>4. QED BY <1>1, <1>2, <1>3 DEF PutIInv

\* Every step of a put, of a removal and of the machine keeps PutIInv.
LEMMA PutStep == PutIInv /\ [PutNext]_putVars => PutIInv'
  <1> SUFFICES ASSUME PutIInv, [PutNext]_putVars PROVE PutIInv'
    OBVIOUS
  <1>0. CASE UNCHANGED putVars
    BY <1>0 DEF putVars, PutIInv, PutTypes, TempsInv, TargetInv, Fits, Absent
  <1>a. ASSUME NEW w \in Puts
        PROVE  /\ temps[w] \in FileStates /\ putAt[w] \in PutPlaces
               /\ temps = [temps EXCEPT ![w] = temps[w]]
    BY DEF PutIInv, PutTypes
  <1>1. ASSUME NEW w \in Puts, MkdirAll(w) PROVE PutIInv'
    <2>1. PICK place \in {"open", "defer"} :
            /\ UNCHANGED <<stream, target, stopped>> /\ putAt' = [putAt EXCEPT ![w] = place]
            /\ temps' = [temps EXCEPT ![w] = temps[w]]
      BY <1>1, <1>a DEF MkdirAll, At, GoOn, Return
    <2>2. QED BY <2>1, <1>a, WriterStep DEF PutPlaces
  <1>2. ASSUME NEW w \in Puts, OpenFile(w) PROVE PutIInv'
    <2> DEFINE empty == Bytes(w, 0, FALSE)
    <2>1. PICK place \in {"copy", "defer"}, data \in {empty, temps[w]} :
            /\ UNCHANGED <<stream, target, stopped>> /\ putAt' = [putAt EXCEPT ![w] = place]
            /\ temps' = [temps EXCEPT ![w] = data]
            /\ place = "copy" => data = empty
      BY <1>2, <1>a DEF OpenFile, At, GoOn, Return
    <2>2. empty \in FileStates /\ empty.by = w
      BY DEF Bytes, FileStates
    <2> HIDE DEF empty
    <2>3. data \in FileStates /\ place \in PutPlaces
      BY <2>2, <1>a DEF PutPlaces
    <2>4. QED BY <2>1, <2>2, <2>3, WriterStep
  <1>3. ASSUME NEW w \in Puts, CopyBytes(w) PROVE PutIInv'
    <2> DEFINE longer == [temps[w] EXCEPT !.length = @ + 1]
    <2>1. temps[w].by = w /\ UNCHANGED <<stream, target, stopped>> /\ putAt[w] = "copy"
      BY <1>3 DEF CopyBytes, At, PutIInv, TempsInv
    <2>2. longer \in FileStates /\ longer.by = w
      BY <2>1, <1>a DEF FileStates
    <2>3. CASE /\ temps' = [temps EXCEPT ![w] = longer]
               /\ putAt' = putAt
      <3>1. putAt' = [putAt EXCEPT ![w] = "copy"]
        BY <2>1, <2>3 DEF PutIInv, PutTypes
      <3> HIDE DEF longer
      <3>2. QED BY <2>1, <2>2, <2>3, <3>1, WriterStep DEF PutPlaces
    <2>4. CASE \E place \in {"defer", "verify"} :
                 temps' = temps /\ putAt' = [putAt EXCEPT ![w] = place]
      <3>1. PICK place \in {"defer", "verify"} :
              temps' = temps /\ putAt' = [putAt EXCEPT ![w] = place]
        BY <2>4
      <3>2. QED BY <2>1, <3>1, <1>a, WriterStep DEF PutPlaces
    <2>5. QED BY <1>3, <2>3, <2>4 DEF CopyBytes, GoOn, Return
  <1>4. ASSUME NEW w \in Puts, Verify(w) PROVE PutIInv'
    <2> DEFINE closed == [temps[w] EXCEPT !.whole = TRUE]
    <2>1. /\ temps[w].by = w /\ UNCHANGED <<stream, target, stopped>>
          /\ temps' = [temps EXCEPT ![w] = closed]
      BY <1>4 DEF Verify, At, PutIInv, TempsInv
    <2>2. /\ closed \in FileStates /\ closed.by = w /\ closed.whole = TRUE
          /\ closed.length = temps[w].length
      BY <2>1, <1>a DEF FileStates
    <2> HIDE DEF closed
    <2>3. PICK place \in {"defer", "rename"} :
            /\ putAt' = [putAt EXCEPT ![w] = place]
            /\ place = "rename" =>
                 ~(stream[w].claim > 0 /\ temps[w].length # stream[w].claim)
      BY <1>4 DEF Verify, GoOn, Return
    <2>4. place = "rename" => Fits(closed)
      BY <2>2, <2>3 DEF Fits
    <2>5. QED BY <2>1, <2>2, <2>3, <2>4, WriterStep DEF PutPlaces
  <1>5. ASSUME NEW w \in Puts, Rename(w) PROVE PutIInv'
    <2>0. CASE Return(w, "error") /\ UNCHANGED <<target, temps>>
      <3>1. /\ UNCHANGED <<stream, target, stopped>>
            /\ putAt' = [putAt EXCEPT ![w] = "defer"]
            /\ temps' = [temps EXCEPT ![w] = temps[w]]
        BY <1>5, <1>a, <2>0 DEF Rename, At, Return
      <3>2. QED BY <3>1, <1>a, WriterStep DEF PutPlaces
    <2>1. CASE target' = temps[w] /\ temps' = [temps EXCEPT ![w] = Absent] /\ GoOn(w, "times")
      <3>1. /\ temps[w].by = w /\ temps[w].whole = TRUE /\ Fits(temps[w])
            /\ UNCHANGED stream /\ target' = temps[w]
            /\ temps' = [temps EXCEPT ![w] = Absent]
            /\ putAt' = [putAt EXCEPT ![w] = "times"]
        BY <1>5, <2>1 DEF Rename, At, GoOn, PutIInv, TempsInv
      <3>2. PutTypes'
        BY <3>1, <1>a, AbsentType DEF PutIInv, PutTypes, PutPlaces
      <3>3. TempsInv'
        BY <3>1, Zenon DEF PutIInv, PutTypes, TempsInv, Fits, Absent
      <3>4. TargetInv'
        BY <3>1 DEF TargetInv, Fits, Absent
      <3>5. QED BY <3>2, <3>3, <3>4 DEF PutIInv
    <2>2. QED BY <1>5, <2>0, <2>1 DEF Rename
  <1>6. ASSUME NEW w \in Puts, Chtimes(w) PROVE PutIInv'
    <2>1. /\ UNCHANGED <<stream, target, stopped>> /\ putAt' = [putAt EXCEPT ![w] = "defer"]
          /\ temps' = [temps EXCEPT ![w] = temps[w]]
      BY <1>6, <1>a DEF Chtimes, At, Return
    <2>2. QED BY <2>1, <1>a, WriterStep DEF PutPlaces
  <1>7. ASSUME NEW w \in Puts, RemoveTemp(w) PROVE PutIInv'
    <2>1. PICK place \in {"over", "left"}, data \in {Absent, temps[w]} :
            /\ UNCHANGED <<stream, target, stopped>>
            /\ putAt' = [putAt EXCEPT ![w] = place]
            /\ temps' = [temps EXCEPT ![w] = data]
            /\ place = "over" => data = Absent
      BY <1>7, <1>a DEF RemoveTemp, At, GoOn
    <2>2. data \in FileStates /\ place \in PutPlaces
      BY <1>a, AbsentType DEF PutPlaces
    <2>3. QED BY <2>1, <2>2, WriterStep
  <1>8. ASSUME NEW d \in Deletes, deleteFile(d) PROVE PutIInv'
    <2>1. target' \in {target, Absent} /\ UNCHANGED <<stream, temps, putAt, stopped>>
      BY <1>8 DEF deleteFile
    <2>2. QED
      BY <2>1, AbsentType DEF PutIInv, PutTypes, TempsInv, TargetInv, Fits, Absent
  <1>9. CASE Crash
    BY <1>9 DEF Crash, PutIInv, PutTypes, TempsInv, TargetInv, Fits, Absent
  <1>10. CASE PowerLoss
    <2>1. UNCHANGED <<stream, temps, putAt>> /\ stopped' = "power"
      BY <1>10 DEF PowerLoss
    <2>2. target' \in FileStates
      <3>1. /\ target \in FileStates
            /\ target.by \in Puts \cup {"none"} /\ target.length \in Nat
        BY DEF PutIInv, PutTypes, FileStates
      <3>2. \A n \in 0..(target.length - 1) : Bytes(target.by, n, FALSE) \in FileStates
        BY <3>1 DEF FileStates, Bytes
      <3>3. QED BY <1>10, <3>1, <3>2, AbsentType DEF PowerLoss
    <2>3. QED
      BY <2>1, <2>2 DEF PutIInv, PutTypes, TempsInv, TargetInv, Fits, Absent
  <1>11. QED
    BY <1>0, <1>1, <1>2, <1>3, <1>4, <1>5, <1>6, <1>7, <1>8, <1>9, <1>10 DEF PutNext, Put

\* The target is absent or what one put wrote to its end and as much as it
\* claimed, at every moment until the power fails, after a kill and after a
\* rename that fails too: PutAllOrNothing.
THEOREM PutsAreAtomic == PutSpec => []PutAllOrNothing
  <1>1. ASSUME PutInit PROVE PutIInv
    <2>1. PutTypes
      BY <1>1, AbsentType DEF PutInit, PutTypes, PutPlaces
    <2>2. QED BY <1>1, <2>1 DEF PutInit, PutIInv, TempsInv, TargetInv
  <1>2. PutIInv => PutAllOrNothing
    <2>1. TargetInv /\ stopped # "power" => target.whole
      BY DEF TargetInv, Absent, Bytes
    <2>2. QED
      BY <2>1 DEF PutIInv, TempsInv, TargetInv, PutAllOrNothing, Fits
  <1>3. QED BY <1>1, <1>2, PutStep, PTL DEF PutSpec

\* A file that is not whole is not absent, and where a file is there is its
\* directory: deleteFile removes it only when it is empty.
PutFlags == dirExists \in BOOLEAN /\ stopped \in {"no", "killed", "power"}
PutLengths ==
  /\ putResult \in [Puts -> {"none", "ok", "error"}]
  /\ \A w \in Puts :
       /\ temps[w].length <= stream[w].length
       /\ putAt[w] \in {"copy", "verify"} => temps[w].whole = FALSE
InDirectory ==
  target # Absent \/ (\E w \in Puts : temps[w] # Absent) => dirExists = TRUE
PutFiles == PutFlags /\ PutLengths /\ InDirectory

\* What a call of a put does to its files and to its result.
PutMoves(w, data, place, returned) ==
  /\ temps' = [temps EXCEPT ![w] = data] /\ putAt' = [putAt EXCEPT ![w] = place]
  /\ putResult' = [putResult EXCEPT ![w] = returned]
  /\ data.length <= stream[w].length /\ returned \in {"none", "ok", "error"}
  /\ place \in {"copy", "verify"} => data.whole = FALSE
  /\ UNCHANGED <<stream, stopped>>

\* A call of a put keeps the lengths.
LEMMA PutMoved ==
  ASSUME PutTypes, PutFiles, NEW w \in Puts, NEW data, NEW place, NEW returned,
         PutMoves(w, data, place, returned)
  PROVE  PutLengths' /\ stopped' \in {"no", "killed", "power"}
PROOF
  BY DEF PutMoves, PutTypes, PutFiles, PutLengths, PutFlags

\* The files of the puts stay as they are.
LEMMA PutFilesStay ==
  ASSUME PutFiles, UNCHANGED <<stream, target, temps, putAt, putResult, dirExists>>,
         stopped' \in {"no", "killed", "power"}
  PROVE  PutFiles'
PROOF
  BY DEF PutFiles, PutLengths, PutFlags, InDirectory, Absent, Bytes

\* Each call of a put keeps the files in their directory.
LEMMA PutCallStep ==
  ASSUME PutIInv, PutFiles, NEW w \in Puts, Put(w)
  PROVE  PutFiles'
PROOF
<1>0. /\ PutTypes /\ temps[w] \in FileStates /\ temps = [temps EXCEPT ![w] = temps[w]]
      /\ putAt[w] \in PutPlaces /\ putResult[w] \in {"none", "ok", "error"}
      /\ putResult = [putResult EXCEPT ![w] = putResult[w]]
      /\ putAt = [putAt EXCEPT ![w] = putAt[w]]
      /\ temps[w].length <= stream[w].length /\ temps[w].length \in Nat
      /\ stream[w].length \in Nat /\ stream[w].claim \in Int
  BY StreamType DEF PutIInv, PutTypes, PutFiles, PutLengths, FileStates
<1>1. CASE MkdirAll(w)
  <2>1. CASE dirExists' = TRUE /\ GoOn(w, "open")
    <3>1. PutMoves(w, temps[w], "open", putResult[w]) /\ dirExists' = TRUE /\ UNCHANGED target
      BY <1>0, <1>1, <2>1 DEF MkdirAll, At, GoOn, PutMoves
    <3> QED
      BY <1>0, <3>1, PutMoved DEF PutFiles, PutFlags, InDirectory, Absent
  <2>2. CASE Return(w, "error") /\ UNCHANGED dirExists
    <3>1. PutMoves(w, temps[w], "defer", "error") /\ UNCHANGED <<dirExists, target, temps>>
      BY <1>0, <1>1, <2>2 DEF MkdirAll, At, Return, PutMoves
    <3> QED
      BY <1>0, <3>1, PutMoved DEF PutFiles, PutFlags, InDirectory, Absent
  <2> QED
    BY <1>1, <2>1, <2>2 DEF MkdirAll
<1>2. CASE OpenFile(w)
  <2>1. CASE dirExists = TRUE /\ GoOn(w, "copy") /\ temps' = [temps EXCEPT ![w] = Bytes(w, 0, FALSE)]
    <3>1. PutMoves(w, Bytes(w, 0, FALSE), "copy", putResult[w])
      BY <1>0, <1>2, <2>1 DEF OpenFile, At, GoOn, PutMoves, Bytes
    <3>2. dirExists' = TRUE
      BY <1>2, <2>1 DEF OpenFile
    <3> QED
      BY <1>0, <3>1, <3>2, PutMoved DEF PutFiles, PutFlags, InDirectory, Absent
  <2>2. CASE Return(w, "error") /\ UNCHANGED temps
    <3>1. PutMoves(w, temps[w], "defer", "error") /\ UNCHANGED <<dirExists, target>>
      BY <1>0, <1>2, <2>2 DEF OpenFile, At, Return, PutMoves
    <3> QED
      BY <1>0, <2>2, <3>1, PutMoved DEF PutFiles, PutFlags, InDirectory, Absent
  <2>3. dirExists => dirExists = TRUE
    BY DEF PutFiles, PutFlags
  <2> QED
    BY <1>2, <2>1, <2>2, <2>3 DEF OpenFile
<1>3. CASE CopyBytes(w)
  <2>0. Limit(w) <= stream[w].length /\ Limit(w) \in Int
    BY <1>0 DEF Limit
  <2>1. putAt[w] = "copy" /\ temps[w].whole = FALSE /\ temps[w] # Absent
    BY <1>3 DEF CopyBytes, At, PutFiles, PutLengths, Absent, Bytes
  <2>2. UNCHANGED <<dirExists, target>>
    BY <1>3 DEF CopyBytes
  <2>3. dirExists = TRUE
    BY <2>1 DEF PutFiles, InDirectory
  <2>4. \E data, place, returned : PutMoves(w, data, place, returned)
    <3>1. CASE temps[w].length < Limit(w) /\ temps' = [temps EXCEPT ![w].length = @ + 1]
               /\ UNCHANGED <<putAt, putResult>>
      <4>1. temps' = [temps EXCEPT ![w] = [temps[w] EXCEPT !.length = @ + 1]]
        BY <3>1
      <4>2. /\ [temps[w] EXCEPT !.length = @ + 1].length = temps[w].length + 1
            /\ [temps[w] EXCEPT !.length = @ + 1].whole = FALSE
        BY <1>0, <2>1 DEF FileStates
      <4>3. PutMoves(w, [temps[w] EXCEPT !.length = @ + 1], "copy", putResult[w])
        BY <1>0, <1>3, <2>0, <2>1, <3>1, <4>1, <4>2 DEF CopyBytes, At, PutMoves
      <4> QED
        BY <4>3
    <3>2. CASE UNCHANGED temps /\ Return(w, "error")
      <4>1. PutMoves(w, temps[w], "defer", "error")
        BY <1>0, <1>3, <3>2 DEF CopyBytes, At, Return, PutMoves
      <4> QED
        BY <4>1
    <3>3. CASE UNCHANGED temps /\ GoOn(w, "verify")
      <4>1. PutMoves(w, temps[w], "verify", putResult[w])
        BY <1>0, <1>3, <2>1, <3>3 DEF CopyBytes, At, GoOn, PutMoves
      <4> QED
        BY <4>1
    <3> QED
      BY <1>3, <3>1, <3>2, <3>3 DEF CopyBytes
  <2> QED
    BY <1>0, <2>2, <2>3, <2>4, PutMoved DEF PutFiles, PutFlags, InDirectory, Absent
<1>4. CASE Verify(w)
  <2>1. putAt[w] = "verify" /\ temps[w].whole = FALSE /\ temps[w] # Absent
    BY <1>4 DEF Verify, At, PutFiles, PutLengths, Absent, Bytes
  <2>2. UNCHANGED <<dirExists, target>>
    BY <1>4 DEF Verify
  <2>3. dirExists = TRUE
    BY <2>1 DEF PutFiles, InDirectory
  <2>4. /\ [temps[w] EXCEPT !.whole = TRUE].length = temps[w].length
        /\ temps' = [temps EXCEPT ![w] = [temps[w] EXCEPT !.whole = TRUE]]
    BY <1>0, <1>4 DEF Verify, FileStates
  <2>5. CASE Return(w, "error")
    <3>1. PutMoves(w, [temps[w] EXCEPT !.whole = TRUE], "defer", "error")
      BY <1>0, <1>4, <2>4, <2>5 DEF Verify, At, Return, PutMoves
    <3> QED
      BY <1>0, <2>2, <2>3, <3>1, PutMoved DEF PutFiles, PutFlags, InDirectory, Absent
  <2>6. CASE GoOn(w, "rename")
    <3>1. PutMoves(w, [temps[w] EXCEPT !.whole = TRUE], "rename", putResult[w])
      BY <1>0, <1>4, <2>4, <2>6 DEF Verify, At, GoOn, PutMoves
    <3> QED
      BY <1>0, <2>2, <2>3, <3>1, PutMoved DEF PutFiles, PutFlags, InDirectory, Absent
  <2> QED
    BY <1>4, <2>5, <2>6 DEF Verify
<1>5. CASE Rename(w)
  <2>0. CASE Return(w, "error") /\ UNCHANGED <<target, temps>>
    <3>1. PutMoves(w, temps[w], "defer", "error") /\ UNCHANGED <<dirExists, target, temps>>
      BY <1>0, <1>5, <2>0 DEF Rename, At, Return, PutMoves
    <3> QED
      BY <1>0, <3>1, PutMoved DEF PutFiles, PutFlags, InDirectory, Absent
  <2>1. CASE target' = temps[w] /\ temps' = [temps EXCEPT ![w] = Absent] /\ GoOn(w, "times")
    <3>1. PutMoves(w, Absent, "times", putResult[w]) /\ UNCHANGED dirExists
      BY <1>0, <1>5, <2>1 DEF Rename, At, GoOn, PutMoves, Absent, Bytes
    <3>2. \A v \in Puts : temps'[v] # Absent => temps[v] # Absent
      BY <1>0, <2>1 DEF PutTypes
    <3>3. InDirectory'
      BY <2>1, <3>1, <3>2 DEF PutFiles, InDirectory, Absent
    <3> QED
      BY <1>0, <3>1, <3>3, PutMoved DEF PutFiles, PutFlags
  <2> QED
    BY <1>5, <2>0, <2>1 DEF Rename
<1>6. CASE Chtimes(w)
  <2>1. /\ \E returned : PutMoves(w, temps[w], "defer", returned)
        /\ UNCHANGED <<dirExists, target, temps>>
    BY <1>0, <1>6 DEF Chtimes, At, Return, PutMoves
  <2> QED
    BY <1>0, <2>1, PutMoved DEF PutFiles, PutFlags, InDirectory, Absent
<1>7. CASE RemoveTemp(w)
  <2>1. /\ \/ PutMoves(w, Absent, "over", putResult[w])
           \/ PutMoves(w, temps[w], "left", putResult[w])
        /\ UNCHANGED <<dirExists, target>>
    BY <1>0, <1>7 DEF RemoveTemp, At, GoOn, PutMoves, Absent, Bytes
  <2>3. \A v \in Puts : temps'[v] # Absent => temps[v] # Absent
    BY <1>0, <2>1 DEF PutTypes, PutMoves
  <2>4. InDirectory'
    BY <2>1, <2>3 DEF PutFiles, InDirectory, Absent
  <2> QED
    BY <1>0, <2>1, <2>4, PutMoved DEF PutFiles, PutFlags
<1> QED
  BY <1>1, <1>2, <1>3, <1>4, <1>5, <1>6, <1>7 DEF Put

\* Removals, kills and power failures do too.
LEMMA PutFilesStep ==
  ASSUME PutIInv, PutFiles, [PutNext]_putVars
  PROVE  PutFiles'
PROOF
<1>1. CASE UNCHANGED putVars
  BY <1>1, PutFilesStay DEF putVars, PutFiles, PutFlags
<1>2. ASSUME NEW w \in Puts, Put(w) PROVE PutFiles'
  BY <1>2, PutCallStep
<1>3. ASSUME NEW d \in Deletes, deleteFile(d) PROVE PutFiles'
  <2>1. /\ UNCHANGED <<stream, temps, putAt, putResult, stopped>>
        /\ target' \in {target, Absent}
    BY <1>3 DEF deleteFile
  <2>2. PutLengths'
    BY <2>1 DEF PutFiles, PutLengths
  <2>3. CASE UNCHANGED dirExists
    BY <2>1, <2>2, <2>3 DEF PutFiles, PutFlags, InDirectory, Absent
  <2>4. CASE /\ dirExists' = (dirExists /\ (target # Absent \/ \E w \in Puts : temps[w] # Absent))
             /\ UNCHANGED target
    <3>1. dirExists' \in BOOLEAN
      BY <2>4, Zenon
    <3>2. target # Absent \/ (\E w \in Puts : temps[w] # Absent) => dirExists' = TRUE
      BY <2>4 DEF PutFiles, InDirectory
    <3> QED
      BY <2>1, <2>2, <2>4, <3>1, <3>2 DEF PutFiles, PutFlags, InDirectory, Absent
  <2> QED
    BY <1>3, <2>3, <2>4 DEF deleteFile
<1>4. CASE Crash
  BY <1>4, PutFilesStay DEF Crash
<1>5. CASE PowerLoss
  <2>1. UNCHANGED <<stream, temps, putAt, putResult, dirExists>> /\ stopped' = "power"
    BY <1>5 DEF PowerLoss
  <2>2. target' # Absent => target # Absent
    BY <1>5 DEF PowerLoss, Absent, Bytes
  <2> QED
    BY <2>1, <2>2 DEF PutFiles, PutFlags, PutLengths, InDirectory, Absent, Bytes
<1> QED
  BY <1>1, <1>2, <1>3, <1>4, <1>5 DEF PutNext

\* The temporary files of the puts are no longer than their streams, and a file
\* is nowhere without its directory: PutTypeOK.
THEOREM PutTypeCorrect == PutSpec => []PutTypeOK
PROOF
<1>1. ASSUME PutInit PROVE PutIInv /\ PutFiles
  <2>1. PutTypes
    BY <1>1, AbsentType DEF PutInit, PutTypes, PutPlaces
  <2>2. PutIInv
    BY <1>1, <2>1 DEF PutInit, PutIInv, TempsInv, TargetInv
  <2>3. \A w \in Puts : stream[w].length \in Nat
    BY <2>1, StreamType
  <2>4. PutLengths
    <3>1. \A w \in Puts : temps[w].length = 0 /\ putAt[w] = "mkdir" /\ temps[w] = Absent
      BY <1>1 DEF PutInit, Absent, Bytes
    <3> QED
      BY <1>1, <2>3, <3>1 DEF PutInit, PutLengths
  <2>5. PutFlags /\ InDirectory
    BY <1>1 DEF PutInit, PutFlags, InDirectory
  <2> QED
    BY <2>2, <2>4, <2>5 DEF PutFiles
<1>2. ASSUME PutIInv, PutFiles PROVE PutTypeOK
  <2>1. target.by \in Puts \cup {"none"}
    BY <1>2 DEF PutIInv, PutTypes, FileStates
  <2>2. ASSUME NEW w \in Puts PROVE temps[w].length \in 0..stream[w].length
    <3>1. temps[w].length \in Nat /\ stream[w].length \in Nat
      BY <1>2, StreamType DEF PutIInv, PutTypes, FileStates
    <3> QED
      BY <1>2, <3>1 DEF PutFiles, PutLengths
  <2> QED
    BY <1>2, <2>1, <2>2 DEF PutFiles, PutFlags, PutLengths, InDirectory, PutTypeOK
<1> QED
  BY <1>1, <1>2, PutStep, PutFilesStep, PTL DEF PutSpec

-----------------------------------------------------------------------------
(***************************************************************************)
(* BinaryKept for any number of updates: as long as none overlap, a whole  *)
(* binary has the name of mc or that of the old one.                       *)
(***************************************************************************)

\* What an update that is under way relies on, from one call to the next.
UpdatePhase(u) ==
  /\ updateAt[u] \in {"write", "removeOld", "saveOld", "removeOldAgain"} =>
       names["target"] # 0
  /\ updateAt[u] = "write" => writing[u] = names["new"] /\ names["new"] # 0
  /\ updateAt[u] \in {"removeOld", "saveOld", "commit"} => names["new"] \in whole
  /\ updateAt[u] \in {"commit", "rollback"} => names["old"] \in whole

\* No file has two names, and an update that has not begun has named none.
NamesApart ==
  /\ \A m, n \in Names3 : m # n /\ names[m] = names[n] => names[m] = 0
  /\ \A u \in Updates, n \in Names3 : updateAt[u] = "idle" => names[n] # FileOf(u)

OneUpdate == \A u, v \in UnderWay : u = v

\* The strengthening of BinaryKept that every call keeps.
UpdateInv ==
  ~overlapped => /\ names["target"] # 0 => names["target"] \in whole
                 /\ names["target"] # 0 \/ names["old"] \in whole
                 /\ \A u \in Updates : UpdatePhase(u)
                 /\ NamesApart
                 /\ OneUpdate

UpdateIInv == UpdateTypeOK /\ UpdateInv

-----------------------------------------------------------------------------
\* What each kind of call leaves of the files, names and places is in the types.
LEMMA UpdateTypeStep == UpdateTypeOK /\ [UpdateNext]_updateVars => UpdateTypeOK'
  <1> SUFFICES ASSUME UpdateTypeOK, [UpdateNext]_updateVars PROVE UpdateTypeOK'
    OBVIOUS
  <1> USE UpdatesAssumption DEF UpdateTypeOK, To, Names3, Places, UpdatesAssumption
  <1>1. CASE UNCHANGED updateVars
    BY <1>1 DEF updateVars
  <1>2. ASSUME NEW u \in Updates, OpenNew(u) PROVE UpdateTypeOK'
    <2> DEFINE data == IF names["new"] = 0 THEN FileOf(u) ELSE names["new"]
    <2>1. data \in Nat \ {0}
      BY DEF FileOf
    <2>2. /\ updateAt' = [updateAt EXCEPT ![u] = "write"]
          /\ names' = [names EXCEPT !["new"] = data]
          /\ writing' = [writing EXCEPT ![u] = data]
          /\ whole' = whole \ {data}
      BY <1>2 DEF OpenNew
    <2>3. overlapped' \in BOOLEAN
      BY <1>2, Zenon DEF OpenNew
    <2> HIDE DEF data
    <2>4. QED BY <2>1, <2>2, <2>3
  <1>3. ASSUME NEW u \in Updates, WriteNew(u) PROVE UpdateTypeOK'
    <2>1. writing[u] \in Nat \ {0}
      BY <1>3 DEF WriteNew
    <2>2. QED BY <1>3, <2>1 DEF WriteNew
  <1>4. ASSUME NEW u \in Updates, RemoveOld(u) PROVE UpdateTypeOK'
    BY <1>4 DEF RemoveOld
  <1>5. ASSUME NEW u \in Updates, SaveOld(u) PROVE UpdateTypeOK'
    BY <1>5 DEF SaveOld, RenameStep
  <1>6. ASSUME NEW u \in Updates, CommitNew(u) PROVE UpdateTypeOK'
    BY <1>6 DEF CommitNew, RenameStep
  <1>7. ASSUME NEW u \in Updates, Rollback(u) PROVE UpdateTypeOK'
    BY <1>7 DEF Rollback, RenameStep
  <1>8. ASSUME NEW u \in Updates, Kill(u) PROVE UpdateTypeOK'
    BY <1>8 DEF Kill
  <1>9. QED
    BY <1>1, <1>2, <1>3, <1>4, <1>5, <1>6, <1>7, <1>8 DEF UpdateNext

\* The types of the variables of SelfUpdate.
THEOREM UpdateTypeCorrect == UpdateSpec => []UpdateTypeOK
  <1>1. ASSUME UpdateInit PROVE UpdateTypeOK
    <2> USE <1>1 DEF UpdateInit, Names3
    <2>1. updateAt \in [Updates -> Places] /\ writing \in [Updates -> Nat]
      BY DEF Places
    <2>2. names \in [Names3 -> Nat] /\ whole \subseteq Nat \ {0}
      OBVIOUS
    <2>3. \A u \in Updates : updateAt[u] # "write"
      OBVIOUS
    <2>4. overlapped \in BOOLEAN
      OBVIOUS
    <2>5. QED BY <2>1, <2>2, <2>3, <2>4 DEF UpdateTypeOK
  <1>2. QED BY <1>1, UpdateTypeStep, PTL DEF UpdateSpec

-----------------------------------------------------------------------------
\* When no two updates are under way, a call of u finds all others at rest.
LEMMA UpdatesRest ==
  ASSUME UpdateTypeOK, OneUpdate, NEW u \in UnderWay,
         NEW v \in Updates, v # u
  PROVE  updateAt[v] \in {"idle", "over"}
  BY DEF OneUpdate, UnderWay

\* What the calls other than OpenNew have in common: only u moves.
LEMMA OneUpdateMoves ==
  ASSUME UpdateTypeOK, OneUpdate, NEW u \in UnderWay,
         NEW place \in Places \ {"idle"}, To(u, place)
  PROVE  /\ OneUpdate'
         /\ updateAt'[u] = place
         /\ \A v \in Updates : v # u => updateAt'[v] = updateAt[v]
         /\ \A v \in Updates : updateAt'[v] = "idle" => updateAt[v] = "idle"
  BY DEF OneUpdate, UnderWay, To, UpdateTypeOK, Places

\* The calls on the three names keep UpdateInv.
LEMMA UpdateInvStep == UpdateIInv /\ [UpdateNext]_updateVars => UpdateInv'
  <1> SUFFICES ASSUME UpdateIInv, [UpdateNext]_updateVars, ~overlapped'
               PROVE  UpdateInv'
    BY DEF UpdateInv
  <1> USE DEF UpdateIInv
  <1>0. UpdateTypeOK'
    BY UpdateTypeStep
  <1>1. CASE UNCHANGED updateVars
    BY <1>1 DEF updateVars, UpdateInv, UpdatePhase, NamesApart, OneUpdate, UnderWay
  <1>2. ASSUME NEW u \in Updates, OpenNew(u) PROVE UpdateInv'
    <2> DEFINE data == IF names["new"] = 0 THEN FileOf(u) ELSE names["new"]
    <2>1. ~overlapped /\ UnderWay = {}
      BY <1>2 DEF OpenNew
    <2>2. /\ updateAt[u] = "idle" /\ names["target"] # 0
          /\ updateAt' = [updateAt EXCEPT ![u] = "write"]
          /\ names' = [names EXCEPT !["new"] = data]
          /\ writing' = [writing EXCEPT ![u] = data]
          /\ whole' = whole \ {data}
      BY <1>2 DEF OpenNew, To
    <2>3. /\ data # 0 /\ data # names["target"] /\ data # names["old"]
          /\ \A v \in Updates : updateAt[v] = "idle" /\ v # u => data # FileOf(v)
      BY <2>1, <2>2, UpdatesAssumption
         DEF UpdatesAssumption, UpdateInv, NamesApart, FileOf, Names3, UpdateTypeOK
    <2> HIDE DEF data
    <2>4. names'["target"] \in whole' /\ names'["target"] # 0
      BY <2>1, <2>2, <2>3 DEF UpdateInv, UpdateTypeOK, Names3
    <2>5. \A v \in Updates : UpdatePhase(v)'
      <3> SUFFICES ASSUME NEW v \in Updates PROVE UpdatePhase(v)'
        OBVIOUS
      <3>1. CASE v = u
        BY <2>2, <2>3, <3>1 DEF UpdatePhase, UpdateTypeOK, Names3
      <3>2. CASE v # u
        BY <2>1, <2>2, <3>2 DEF UpdatePhase, UpdateTypeOK, UnderWay
      <3>3. QED BY <3>1, <3>2
    <2>6. NamesApart'
      BY <2>1, <2>2, <2>3 DEF UpdateInv, NamesApart, UpdateTypeOK, Names3
    <2>7. OneUpdate'
      BY <2>1, <2>2 DEF OneUpdate, UnderWay, UpdateTypeOK
    <2>8. QED BY <2>4, <2>5, <2>6, <2>7 DEF UpdateInv
  <1>3. ASSUME NEW u \in Updates, WriteNew(u) PROVE UpdateInv'
    <2>1. u \in UnderWay /\ ~overlapped /\ UNCHANGED names
      BY <1>3 DEF WriteNew, UnderWay
    <2>2. PICK place \in {"removeOld", "over"} :
            /\ To(u, place)
            /\ \/ place = "removeOld" /\ whole' = whole \cup {writing[u]}
               \/ place = "over" /\ whole' = whole
      BY <1>3 DEF WriteNew
    <2>3. /\ OneUpdate' /\ updateAt'[u] = place
          /\ \A v \in Updates : v # u => updateAt'[v] = updateAt[v]
          /\ \A v \in Updates : updateAt'[v] = "idle" => updateAt[v] = "idle"
      BY <2>1, <2>2, OneUpdateMoves DEF UpdateInv, Places
    <2>4. \A v \in Updates : UpdatePhase(v)'
      <3> SUFFICES ASSUME NEW v \in Updates PROVE UpdatePhase(v)'
        OBVIOUS
      <3>1. CASE v = u
        BY <1>3, <2>1, <2>2, <2>3, <3>1 DEF WriteNew, UpdateInv, UpdatePhase
      <3>2. CASE v # u
        BY <2>1, <2>3, <3>2, UpdatesRest DEF UpdateInv, UpdatePhase
      <3>3. QED BY <3>1, <3>2
    <2>5. QED BY <2>1, <2>2, <2>3, <2>4 DEF UpdateInv, NamesApart
  <1>4. ASSUME NEW u \in Updates, RemoveOld(u) PROVE UpdateInv'
    <2>1. /\ u \in UnderWay /\ ~overlapped
          /\ names' = [names EXCEPT !["old"] = 0] /\ UNCHANGED whole
      BY <1>4 DEF RemoveOld, UnderWay
    <2>2. PICK place \in {"saveOld", "over"} :
            /\ To(u, place)
            /\ place = IF updateAt[u] = "removeOld" THEN "saveOld" ELSE "over"
      BY <1>4 DEF RemoveOld
    <2>3. /\ OneUpdate' /\ updateAt'[u] = place
          /\ \A v \in Updates : v # u => updateAt'[v] = updateAt[v]
          /\ \A v \in Updates : updateAt'[v] = "idle" => updateAt[v] = "idle"
      BY <2>1, <2>2, OneUpdateMoves DEF UpdateInv, Places
    <2>4. names'["target"] = names["target"] /\ names["target"] # 0
      BY <1>4, <2>1 DEF RemoveOld, UpdateInv, UpdatePhase, UpdateTypeOK, Names3
    <2>5. \A v \in Updates : UpdatePhase(v)'
      <3> SUFFICES ASSUME NEW v \in Updates PROVE UpdatePhase(v)'
        OBVIOUS
      <3>1. CASE v = u
        BY <1>4, <2>1, <2>2, <2>3, <2>4, <3>1
           DEF RemoveOld, UpdateInv, UpdatePhase, UpdateTypeOK, Names3
      <3>2. CASE v # u
        BY <2>1, <2>3, <3>2, UpdatesRest DEF UpdateInv, UpdatePhase
      <3>3. QED BY <3>1, <3>2
    <2>6. NamesApart'
      <3>1. \A v \in Updates : FileOf(v) # 0
        BY UpdatesAssumption DEF UpdatesAssumption, FileOf
      <3>2. QED BY <2>1, <2>3, <3>1 DEF UpdateInv, NamesApart, UpdateTypeOK, Names3
    <2>7. QED BY <2>1, <2>3, <2>4, <2>5, <2>6 DEF UpdateInv
  <1>5. ASSUME NEW u \in Updates, SaveOld(u) PROVE UpdateInv'
    <2> DEFINE done == names' = [names EXCEPT !["old"] = names["target"],
                                              !["target"] = 0]
    <2>1. u \in UnderWay /\ ~overlapped /\ UNCHANGED whole
      BY <1>5 DEF SaveOld, RenameStep, UnderWay
    <2>2. PICK place \in {"commit", "over"} :
            /\ To(u, place)
            /\ \/ place = "commit" /\ done
               \/ place = "over" /\ names' = names
      BY <1>5 DEF SaveOld, RenameStep
    <2>3. /\ OneUpdate' /\ updateAt'[u] = place
          /\ \A v \in Updates : v # u => updateAt'[v] = updateAt[v]
          /\ \A v \in Updates : updateAt'[v] = "idle" => updateAt[v] = "idle"
      BY <2>1, <2>2, OneUpdateMoves DEF UpdateInv, Places
    <2>4. names["target"] \in whole /\ names["new"] \in whole
      BY <1>5, <2>1 DEF SaveOld, RenameStep, UpdateInv, UpdatePhase
    <2>5. /\ names'["target"] # 0 => names'["target"] \in whole'
          /\ names'["target"] # 0 \/ names'["old"] \in whole'
      BY <2>1, <2>2, <2>4 DEF UpdateInv, UpdateTypeOK, Names3
    <2>6. UpdatePhase(u)'
      BY <2>1, <2>2, <2>3, <2>4 DEF UpdateInv, UpdatePhase, UpdateTypeOK, Names3
    <2>7. \A v \in Updates : UpdatePhase(v)'
      BY <2>1, <2>3, <2>6, UpdatesRest DEF UpdateInv, UpdatePhase
    <2>8. NamesApart'
      <3>1. \A v \in Updates : FileOf(v) # 0
        BY UpdatesAssumption DEF UpdatesAssumption, FileOf
      <3>2. QED
        BY <2>1, <2>2, <2>3, <3>1 DEF UpdateInv, NamesApart, UpdateTypeOK, Names3
    <2>9. QED BY <2>1, <2>3, <2>5, <2>7, <2>8 DEF UpdateInv
  <1>6. ASSUME NEW u \in Updates, CommitNew(u) PROVE UpdateInv'
    <2> DEFINE done == names' = [names EXCEPT !["target"] = names["new"],
                                              !["new"] = 0]
    <2>1. u \in UnderWay /\ ~overlapped /\ UNCHANGED whole
      BY <1>6 DEF CommitNew, RenameStep, UnderWay
    <2>2. PICK place \in {"removeOldAgain", "rollback"} :
            /\ To(u, place)
            /\ \/ place = "removeOldAgain" /\ done
               \/ place = "rollback" /\ names' = names
      BY <1>6 DEF CommitNew, RenameStep
    <2>3. /\ OneUpdate' /\ updateAt'[u] = place
          /\ \A v \in Updates : v # u => updateAt'[v] = updateAt[v]
          /\ \A v \in Updates : updateAt'[v] = "idle" => updateAt[v] = "idle"
      BY <2>1, <2>2, OneUpdateMoves DEF UpdateInv, Places
    <2>4. names["new"] \in whole /\ names["old"] \in whole
      BY <1>6, <2>1 DEF CommitNew, RenameStep, UpdateInv, UpdatePhase
    <2>5. /\ names'["target"] # 0 => names'["target"] \in whole'
          /\ names'["target"] # 0 \/ names'["old"] \in whole'
      BY <2>1, <2>2, <2>4 DEF UpdateInv, UpdateTypeOK, Names3
    <2>6. UpdatePhase(u)'
      BY <2>1, <2>2, <2>3, <2>4 DEF UpdateInv, UpdatePhase, UpdateTypeOK, Names3
    <2>7. \A v \in Updates : UpdatePhase(v)'
      BY <2>1, <2>3, <2>6, UpdatesRest DEF UpdateInv, UpdatePhase
    <2>8. NamesApart'
      <3>1. \A v \in Updates : FileOf(v) # 0
        BY UpdatesAssumption DEF UpdatesAssumption, FileOf
      <3>2. QED
        BY <2>1, <2>2, <2>3, <3>1 DEF UpdateInv, NamesApart, UpdateTypeOK, Names3
    <2>9. QED BY <2>1, <2>3, <2>5, <2>7, <2>8 DEF UpdateInv
  <1>7. ASSUME NEW u \in Updates, Rollback(u) PROVE UpdateInv'
    <2> DEFINE done == names' = [names EXCEPT !["target"] = names["old"],
                                              !["old"] = 0]
    <2>1. u \in UnderWay /\ ~overlapped /\ UNCHANGED whole
      BY <1>7 DEF Rollback, RenameStep, UnderWay
    <2>2. PICK place \in {"over"} : To(u, place) /\ (done \/ names' = names)
      BY <1>7 DEF Rollback, RenameStep
    <2>3. /\ OneUpdate' /\ updateAt'[u] = place
          /\ \A v \in Updates : v # u => updateAt'[v] = updateAt[v]
          /\ \A v \in Updates : updateAt'[v] = "idle" => updateAt[v] = "idle"
      BY <2>1, <2>2, OneUpdateMoves DEF UpdateInv, Places
    <2>4. names["old"] \in whole
      BY <1>7, <2>1 DEF Rollback, RenameStep, UpdateInv, UpdatePhase
    <2>5. /\ names'["target"] # 0 => names'["target"] \in whole'
          /\ names'["target"] # 0 \/ names'["old"] \in whole'
      BY <2>1, <2>2, <2>4 DEF UpdateInv, UpdateTypeOK, Names3
    <2>6. UpdatePhase(u)'
      BY <2>1, <2>2, <2>3, <2>4 DEF UpdateInv, UpdatePhase, UpdateTypeOK, Names3
    <2>7. \A v \in Updates : UpdatePhase(v)'
      BY <2>1, <2>3, <2>6, UpdatesRest DEF UpdateInv, UpdatePhase
    <2>8. NamesApart'
      <3>1. \A v \in Updates : FileOf(v) # 0
        BY UpdatesAssumption DEF UpdatesAssumption, FileOf
      <3>2. QED
        BY <2>1, <2>2, <2>3, <3>1 DEF UpdateInv, NamesApart, UpdateTypeOK, Names3
    <2>9. QED BY <2>1, <2>3, <2>5, <2>7, <2>8 DEF UpdateInv
  <1>8. ASSUME NEW u \in Updates, Kill(u) PROVE UpdateInv'
    <2>1. u \in UnderWay /\ ~overlapped /\ To(u, "over") /\ UNCHANGED <<names, whole>>
      BY <1>8 DEF Kill
    <2> DEFINE place == "over"
    <2>3. /\ OneUpdate' /\ updateAt'[u] = place
          /\ \A v \in Updates : v # u => updateAt'[v] = updateAt[v]
          /\ \A v \in Updates : updateAt'[v] = "idle" => updateAt[v] = "idle"
      BY <2>1, OneUpdateMoves DEF UpdateInv, Places
    <2>5. \A v \in Updates : UpdatePhase(v)'
      <3> SUFFICES ASSUME NEW v \in Updates PROVE UpdatePhase(v)'
        OBVIOUS
      <3>1. CASE v = u
        BY <2>3, <3>1 DEF UpdatePhase
      <3>2. CASE v # u
        BY <2>1, <2>3, <3>2, UpdatesRest DEF UpdateInv, UpdatePhase
      <3>3. QED BY <3>1, <3>2
    <2>6. QED BY <2>1, <2>3, <2>5 DEF UpdateInv, NamesApart
  <1>9. QED
    BY <1>1, <1>2, <1>3, <1>4, <1>5, <1>6, <1>7, <1>8 DEF UpdateNext

\* Updates that do not overlap keep a whole binary: BinaryKept holds whatever
\* fails and whenever mc is killed.
THEOREM BinaryAlwaysKept == UpdateSpec => []BinaryKept
  <1>1. UpdateInit => UpdateInv
    BY UpdatesAssumption
       DEF UpdatesAssumption, UpdateInit, UpdateInv, UpdatePhase, NamesApart, OneUpdate,
           UnderWay, Names3, FileOf
  <1>2. UpdateInv => BinaryKept
    BY DEF UpdateInv, BinaryKept
  <1>3. UpdateInv /\ UpdateTypeOK /\ [UpdateNext]_updateVars => UpdateInv'
    BY UpdateInvStep DEF UpdateIInv
  <1>4. QED BY <1>1, <1>2, <1>3, UpdateTypeCorrect, PTL DEF UpdateSpec

-----------------------------------------------------------------------------
(***************************************************************************)
(* SharesKept for any number of commands and of URLs.                      *)
(***************************************************************************)

Kinds == {"download", "upload", "list"}
AllAlone == \A p \in Sharers : alone[p] = TRUE

\* A list shows nothing; a download, nothing before it has loaded.
ShownInv ==
  \A p \in Sharers :
    /\ shareAt[p] = "idle" \/ shareKind[p] = "list" => shown[p] = 0
    /\ shareAt[p] = "read" /\ shareKind[p] = "download" => shown[p] = 0
    /\ shareKind[p] = "list" => shareAt[p] # "loaded"

\* Neither the file nor a process has a URL that nobody has shown.
OnlyShown ==
  /\ \A u \in urlFile : u \in Shown(u[1])
  /\ \A p \in Sharers : \A u \in shares[p] : u \in Shown(u[1])

\* The one command that runs holds what it has shown and what the commands
\* before it have recorded, which the file does too.
Recorded ==
  AllAlone =>
    /\ \A p, q \in Active : p = q
    /\ \A p \in Sharers : shareAt[p] = "ended" =>
         /\ Shown(p) \ expired \subseteq urlFile
         /\ \A q \in Active : Shown(p) \ expired \subseteq shares[q]
    /\ \A q \in Sharers : shareAt[q] = "loaded" => Shown(q) \subseteq shares[q]

ShareKinds == shareKind \in [Sharers -> Kinds]

ShareIInv == ShareTypeOK /\ ShareKinds /\ ShownInv /\ OnlyShown /\ Recorded

-----------------------------------------------------------------------------
LEMMA ShareInitial == ShareInit => ShareIInv
  <1> SUFFICES ASSUME ShareInit PROVE ShareIInv
    OBVIOUS
  <1>1. ShareTypeOK /\ ShareKinds
    BY ShareAssumption
       DEF ShareAssumption, ShareInit, ShareTypeOK, ShareKinds, Kinds
  <1>2. ShownInv /\ OnlyShown
    BY DEF ShareInit, ShownInv, OnlyShown
  <1>3. Recorded
    BY DEF ShareInit, Recorded, Active
  <1>4. QED BY <1>1, <1>2, <1>3 DEF ShareIInv

\* Once two commands have overlapped, they have.
LEMMA AloneStep ==
  ASSUME ShareTypeOK, [ShareNext]_shareVars, AllAlone'
  PROVE  AllAlone
  <1>1. CASE UNCHANGED alone
    BY <1>1 DEF AllAlone
  <1>2. ASSUME NEW p \in Sharers, Load(p) PROVE AllAlone
    <2> SUFFICES ASSUME NEW q \in Sharers PROVE alone[q] = TRUE
      BY DEF AllAlone
    <2>1. alone'[q] = (alone[q] /\ (q \in Active \cup {p} => Active = {}))
      BY <1>2 DEF Load
    <2>2. alone'[q] = TRUE /\ alone[q] \in BOOLEAN
      BY DEF AllAlone, ShareTypeOK
    <2>3. QED BY <2>1, <2>2
  <1>3. QED
    BY <1>1, <1>2
       DEF ShareNext, shareVars, SaveLoaded, Share, Save, Fail, Expire

\* What was shown stays shown.
LEMMA ShownGrows ==
  ASSUME ShareTypeOK, ShareTypeOK', \A q \in Sharers : shown[q] <= shown'[q],
         NEW u \in Urls, u \in Shown(u[1])
  PROVE  u \in Shown(u[1])'
  <1>1. PICK p \in Sharers, i \in 1..MaxUrls : u = <<p, i>>
    BY DEF Urls
  <1>2. i \in 1..shown[p] /\ shown[p] \in Nat /\ shown'[p] \in Nat
    BY <1>1, ShareAssumption DEF Shown, ShareTypeOK, ShareAssumption
  <1>3. i \in 1..shown'[p]
    BY <1>2
  <1>4. QED BY <1>1, <1>3 DEF Shown

\* A step after which the file and the processes hold no URLs but those they
\* held and S, which was shown, keeps OnlyShown.
LEMMA OnlyShownStep ==
  ASSUME ShareTypeOK, ShareTypeOK', OnlyShown,
         \A q \in Sharers : shown[q] <= shown'[q],
         NEW S \in SUBSET Urls, \A u \in S : u \in Shown(u[1])',
         \A u \in urlFile' : u \in urlFile \/ \E q \in Sharers : u \in shares[q],
         \A q \in Sharers : \A u \in shares'[q] :
           u \in shares[q] \/ u \in urlFile \/ u \in S
  PROVE  OnlyShown'
  <1>1. \A u \in urlFile : u \in Urls /\ u \in Shown(u[1])
    BY DEF OnlyShown, ShareTypeOK
  <1>2. \A q \in Sharers : \A u \in shares[q] : u \in Urls /\ u \in Shown(u[1])
    BY DEF OnlyShown, ShareTypeOK
  <1>3. \A u \in Urls : u \in Shown(u[1]) => u \in Shown(u[1])'
    BY ShownGrows
  <1>4. QED BY <1>1, <1>2, <1>3 DEF OnlyShown

LEMMA ShareStep == ShareIInv /\ [ShareNext]_shareVars => ShareIInv'
  <1> SUFFICES ASSUME ShareIInv, [ShareNext]_shareVars PROVE ShareIInv'
    OBVIOUS
  <1>0. AllAlone' => AllAlone
    BY AloneStep DEF ShareIInv
  <1> USE DEF ShareIInv, ShareTypeOK, ShareKinds
  <1>1. CASE UNCHANGED shareVars
    BY <1>1 DEF shareVars, ShownInv, OnlyShown, Recorded, Shown, AllAlone, Active
  <1>2. ASSUME NEW p \in Sharers, Load(p) PROVE ShareIInv'
    <2>1. /\ shareAt[p] = "idle" /\ shareAt' = [shareAt EXCEPT ![p] = "read"]
          /\ shares' = [shares EXCEPT ![p] = urlFile \ expired]
          /\ shown[p] = 0
          /\ \/ shareKind[p] = "upload" /\ shown' = [shown EXCEPT ![p] = 1]
             \/ shareKind[p] # "upload" /\ shown' = shown
          /\ UNCHANGED <<urlFile, shareKind, expired>>
      BY <1>2, ShareAssumption DEF Load, Prints, ShownInv
    <2>2. alone' \in [Sharers -> BOOLEAN]
      BY <1>2, Zenon DEF Load
    <2>3. AllAlone' => Active = {}
      BY <1>2 DEF Load, AllAlone
    <2>4. ShareTypeOK' /\ ShareKinds'
      <3>1. shown' \in [Sharers -> 0..MaxUrls]
        BY <2>1, ShareAssumption DEF ShareAssumption
      <3>2. shares' \in [Sharers -> SUBSET Urls] /\ urlFile \ expired \subseteq Urls
        BY <2>1
      <3>3. QED BY <2>1, <2>2, <3>1, <3>2
    <2>5. ShownInv'
      BY <2>1 DEF ShownInv, Kinds
    <2>6. OnlyShown'
      <3>1. \A q \in Sharers : shown[q] <= shown'[q]
        BY <2>1, ShareAssumption DEF ShareAssumption
      <3>2. \A q \in Sharers : \A u \in shares'[q] : u \in shares[q] \/ u \in urlFile
        BY <2>1
      <3>3. ShareTypeOK /\ OnlyShown /\ {} \in SUBSET Urls
        OBVIOUS
      <3> HIDE DEF ShareTypeOK, ShareKinds, ShareIInv
      <3>4. QED BY <2>1, <2>4, <3>1, <3>2, <3>3, OnlyShownStep
    <2>7. Recorded'
      BY <1>0, <2>1, <2>3 DEF Recorded, Shown, Active
    <2>8. QED BY <2>4, <2>5, <2>6, <2>7
  <1>3. ASSUME NEW p \in Sharers, SaveLoaded(p) PROVE ShareIInv'
    <2>1. PICK place \in {"ended", "loaded"}, all \in {shares[p], shares[p] \cup Shown(p)} :
            /\ shareAt[p] = "read" /\ shareAt' = [shareAt EXCEPT ![p] = place]
            /\ urlFile' \in {shares[p], urlFile}
            /\ shares' = [shares EXCEPT ![p] = all]
            /\ shareKind[p] = "upload" => all = shares[p] \cup Shown(p)
            /\ shareKind[p] # "upload" => shown[p] = 0
            /\ (place = "ended") = (shareKind[p] = "list")
            /\ UNCHANGED <<shareKind, shown, expired, alone>>
      BY <1>3 DEF SaveLoaded, ShownInv, Kinds
    <2>2. Shown(p) \subseteq Urls
      BY ShareAssumption DEF ShareAssumption, Shown, Urls
    <2>3. ShareTypeOK' /\ ShareKinds'
      BY <2>1, <2>2
    <2>4. ShownInv'
      BY <2>1 DEF ShownInv
    <2>5. OnlyShown'
      <3>1. \A u \in Shown(p) : u \in Shown(u[1])'
        BY <2>1 DEF Shown
      <3>2. \A q \in Sharers : shown[q] <= shown'[q]
        BY <2>1, ShareAssumption DEF ShareAssumption
      <3>3. QED BY <2>1, <2>2, <2>3, <3>1, <3>2, OnlyShownStep
    <2>6. Recorded'
      BY <1>0, <2>1 DEF Recorded, Shown, Active, AllAlone
    <2>7. QED BY <2>3, <2>4, <2>5, <2>6
  <1>4. ASSUME NEW p \in Sharers, Share(p) PROVE ShareIInv'
    <2> DEFINE u == <<p, shown[p] + 1>>
    <2>1. /\ shareAt[p] = "loaded" /\ shareKind[p] = "download" /\ shown[p] < MaxUrls
          /\ shown' = [shown EXCEPT ![p] = shown[p] + 1]
          /\ shares' = [shares EXCEPT ![p] = shares[p] \cup {u}]
          /\ UNCHANGED <<urlFile, shareAt, shareKind, expired, alone>>
      BY <1>4 DEF Share, Prints
    <2>2. u \in Urls /\ shown[p] + 1 \in 0..MaxUrls
      BY <2>1, ShareAssumption DEF ShareAssumption, Urls
    <2>3. ShareTypeOK' /\ ShareKinds'
      BY <2>1, <2>2
    <2>4. ShownInv'
      BY <2>1 DEF ShownInv
    <2>5. OnlyShown'
      <3>1. \A v \in {u} : v \in Shown(v[1])'
        BY <2>1, <2>2, ShareAssumption DEF ShareAssumption, Shown
      <3>2. \A q \in Sharers : shown[q] <= shown'[q]
        BY <2>1, ShareAssumption DEF ShareAssumption
      <3>3. \A q \in Sharers : \A v \in shares'[q] : v \in shares[q] \/ v \in {u}
        BY <2>1
      <3>4. ShareTypeOK /\ OnlyShown /\ {u} \in SUBSET Urls
        BY <2>2
      <3> DEFINE S == {u}
      <3> HIDE DEF ShareTypeOK, ShareKinds, ShareIInv, S
      <3>5. /\ S \in SUBSET Urls /\ \A v \in S : v \in Shown(v[1])'
            /\ \A q \in Sharers : \A v \in shares'[q] : v \in shares[q] \/ v \in S
        BY <3>1, <3>3, <3>4 DEF S
      <3>6. QED BY <2>1, <2>3, <3>2, <3>4, <3>5, OnlyShownStep
    <2>6. Shown(p)' = Shown(p) \cup {u}
      BY <2>1, <2>2, ShareAssumption DEF ShareAssumption, Shown
    <2>7. \A q \in Sharers : q # p => Shown(q)' = Shown(q)
      BY <2>1 DEF Shown
    <2>8. Recorded'
      BY <1>0, <2>1, <2>6, <2>7 DEF Recorded, Active, AllAlone
    <2>9. QED BY <2>3, <2>4, <2>5, <2>8
  <1>5. ASSUME NEW p \in Sharers, Save(p) PROVE ShareIInv'
    <2>1. PICK place \in {"ended", "failed"} :
            /\ shareAt[p] = "loaded" /\ shareAt' = [shareAt EXCEPT ![p] = place]
            /\ place = "ended" => urlFile' = shares[p]
            /\ place = "failed" => urlFile' = urlFile
            /\ UNCHANGED <<shareKind, shares, shown, expired, alone>>
      BY <1>5 DEF Save
    <2>2. ShareTypeOK' /\ ShareKinds'
      BY <2>1
    <2>3. ShownInv'
      BY <2>1 DEF ShownInv
    <2>4. OnlyShown'
      BY <2>1 DEF OnlyShown, Shown
    <2>5. Recorded'
      BY <1>0, <2>1 DEF Recorded, Shown, Active, AllAlone
    <2>6. QED BY <2>2, <2>3, <2>4, <2>5
  <1>6. ASSUME NEW p \in Sharers, Fail(p) PROVE ShareIInv'
    <2>1. /\ p \in Active /\ shareAt' = [shareAt EXCEPT ![p] = "failed"]
          /\ UNCHANGED <<urlFile, shareKind, shares, shown, expired, alone>>
      BY <1>6 DEF Fail
    <2>2. ShareTypeOK' /\ ShareKinds'
      BY <2>1
    <2>3. ShownInv' /\ OnlyShown'
      BY <2>1 DEF ShownInv, OnlyShown, Shown
    <2>4. Recorded'
      BY <1>0, <2>1 DEF Recorded, Shown, Active, AllAlone
    <2>5. QED BY <2>2, <2>3, <2>4
  <1>7. ASSUME NEW p \in Sharers, NEW i \in 1..MaxUrls, Expire(<<p, i>>) PROVE ShareIInv'
    <2>1. /\ expired' = expired \cup {<<p, i>>}
          /\ UNCHANGED <<urlFile, shareAt, shareKind, shares, shown, alone>>
      BY <1>7 DEF Expire
    <2>2. ShareTypeOK' /\ ShareKinds'
      BY <2>1 DEF Urls
    <2>3. ShownInv' /\ OnlyShown'
      BY <2>1 DEF ShownInv, OnlyShown, Shown
    <2>4. Recorded'
      BY <1>0, <2>1 DEF Recorded, Shown, Active, AllAlone
    <2>5. QED BY <2>2, <2>3, <2>4
  <1>8. QED
    BY <1>1, <1>2, <1>3, <1>4, <1>5, <1>6, <1>7 DEF ShareNext

\* What a command has shown and recorded stays in the file, as long as no two
\* commands overlap, and the file holds only what was shown: SharesKept.
THEOREM SharesAreKept == ShareSpec => []SharesKept
  <1>1. ShareIInv => SharesKept
    <2> SUFFICES ASSUME ShareIInv PROVE SharesKept
      OBVIOUS
    <2>1. (\A p \in Sharers : alone[p]) => AllAlone
      BY DEF ShareIInv, ShareTypeOK, AllAlone
    <2>2. QED BY <2>1 DEF ShareIInv, OnlyShown, Recorded, SharesKept
  <1>2. QED BY <1>1, ShareInitial, ShareStep, PTL DEF ShareSpec

\* The processes of the database of shared URLs, and the URLs they hold.
THEOREM ShareTypeCorrect == ShareSpec => []ShareTypeOK
PROOF
<1>1. ShareIInv => ShareTypeOK
  BY DEF ShareIInv
<1> QED
  BY <1>1, ShareInitial, ShareStep, PTL DEF ShareSpec

-----------------------------------------------------------------------------
(***************************************************************************)
(* Support reports.                                                        *)
(***************************************************************************)
Away == [from |-> "dest", to |-> "backup"]
IntoPlace == [from |-> "temp", to |-> "dest"]

ReportTypes ==
  /\ supportKind \in {"perf", "inspect", "profile", "diag"}
  /\ supportKind = "diag" => ~hadOld
  /\ file \in [{"temp", "dest", "backup"} -> {"none", "new", "old", "part"}]
  /\ unheard \subseteq {"new", "old"} /\ portal \in {"none", "new", "part"}
  /\ supportAt \in {"fetch", "fetched", "move", "upload"}
  /\ moves = <<>> \/ moves = <<IntoPlace>> \/ moves = <<Away, IntoPlace>>
  /\ moveStep \in {"create", "copy", "remove"}
  /\ reportTold \in {"none", "uploaded", "saved", "failed", "killed"}

\* What a file is to have, short only where a Close has failed unheard.
Has(f, content) == file[f] = content \/ (file[f] = "part" /\ content \in unheard)

\* What is whole where mc is: the report, and the file it takes the place of.
WholeReport ==
  /\ supportAt = "fetch" => unheard = {}
  /\ supportAt = "fetched" => Has(Fetched, "new")
  /\ supportAt = "move" =>
       /\ supportKind # "diag" /\ moves # <<>>
       /\ IF moves = <<IntoPlace>> /\ moveStep = "remove"
          THEN /\ Has("dest", "new") \/ Has("temp", "new")
               /\ reportTold = "none" => Has("dest", "new") /\ Has("temp", "new")
          ELSE Has("temp", "new")
  /\ supportAt = "upload" /\ portal = "none" => Has(Uploaded, "new")
  /\ portal = "part" => "new" \in unheard
OldInPlace ==
  /\ supportAt \in {"fetch", "fetched"} => Has("dest", "old")
  /\ supportAt = "move" =>
       IF moves = <<IntoPlace>> THEN Has("backup", "old")
       ELSE /\ Has("dest", "old")
            /\ moveStep = "remove" /\ reportTold = "none" => Has("backup", "old")
  /\ supportAt = "upload" =>
       IF supportKind = "profile" THEN Has("backup", "old") ELSE Has("dest", "old")
ToldTrue ==
  /\ reportTold = "uploaded" => portal # "none" /\ supportAt = "upload"
  /\ reportTold = "saved" => Has("dest", "new")

ReportIInv == ReportTypes /\ WholeReport /\ (hadOld => OldInPlace) /\ ToldTrue

\* The sequences of moves are told apart by what they begin with.
LEMMA MovesDiffer ==
  /\ <<IntoPlace>> # <<Away, IntoPlace>> /\ <<IntoPlace>> # <<>> /\ <<Away, IntoPlace>> # <<>>
  /\ Head(<<IntoPlace>>) = IntoPlace /\ Len(<<IntoPlace>>) = 1
  /\ Head(<<Away, IntoPlace>>) = Away /\ Len(<<Away, IntoPlace>>) = 2
  /\ Tail(<<Away, IntoPlace>>) = <<IntoPlace>>
  /\ <<>> \o <<IntoPlace>> = <<IntoPlace>> /\ <<Away>> \o <<IntoPlace>> = <<Away, IntoPlace>>
  /\ Away.from = "dest" /\ Away.to = "backup" /\ IntoPlace.from = "temp" /\ IntoPlace.to = "dest"
PROOF
<1>1. Away # IntoPlace
  BY DEF Away, IntoPlace
<1>2. /\ Away.from = "dest" /\ Away.to = "backup"
      /\ IntoPlace.from = "temp" /\ IntoPlace.to = "dest"
  BY DEF Away, IntoPlace
<1>3. ASSUME NEW a, NEW b
      PROVE  /\ <<a>> # <<>> /\ <<b, a>> # <<>> /\ <<a>> # <<b, a>>
             /\ Head(<<a>>) = a /\ Len(<<a>>) = 1 /\ Head(<<b, a>>) = b /\ Len(<<b, a>>) = 2
  OBVIOUS
<1>4. ASSUME NEW a, NEW b PROVE Tail(<<b, a>>) = <<a>>
  OBVIOUS
<1>5. ASSUME NEW a, NEW b PROVE <<>> \o <<a>> = <<a>> /\ <<b>> \o <<a>> = <<b, a>>
  <2> DEFINE c == <<b>> \o <<a>>
             d == <<b, a>>
  <2>1. <<a>> \in Seq({a, b}) /\ <<b>> \in Seq({a, b}) /\ d \in Seq({a, b})
    OBVIOUS
  <2>2. <<>> \o <<a>> = <<a>>
    BY <2>1, ConcatEmptySeq
  <2>3. c \in Seq({a, b}) /\ Len(c) = 2 /\ c[1] = b /\ c[2] = a
    BY <2>1, ConcatProperties
  <2>4. Len(d) = 2 /\ d[1] = b /\ d[2] = a
    OBVIOUS
  <2>5. \A i \in 1..Len(c) : i = 1 \/ i = 2
    BY <2>3
  <2> HIDE DEF c, d
  <2>6. c = d
    BY <2>1, <2>3, <2>4, <2>5, SeqEqual
  <2> QED
    BY <2>2, <2>6 DEF c, d
<1> QED
  BY <1>1, <1>2, <1>3, <1>4, <1>5

\* Before the report is fetched.
LEMMA ReportInitOK ==
  ASSUME SupportInit PROVE ReportIInv
PROOF
<1>1. ReportTypes
  BY SupportAssumption DEF SupportInit, ReportTypes, Dated
<1>2. WholeReport /\ ToldTrue
  BY DEF SupportInit, WholeReport, ToldTrue
<1>3. hadOld => OldInPlace
  BY DEF SupportInit, OldInPlace, Has
<1> QED
  BY <1>1, <1>2, <1>3 DEF ReportIInv

\* A report that is saved: what has its name goes away first.
LEMMA SaveBegins ==
  ASSUME ReportIInv, SaveReport, UNCHANGED <<supportKind, hadOld, file, unheard>>,
         portal' \in {"none", "new", "part"}, portal' = "part" => "new" \in unheard,
         supportKind # "diag", Has("temp", "new"), reportTold = "none",
         hadOld => Has("dest", "old")
  PROVE  ReportIInv'
PROOF
<1>1. /\ moves' = (IF file.dest = "none" THEN <<>> ELSE <<Away>>) \o <<IntoPlace>>
      /\ supportAt' = "move" /\ moveStep' = "create" /\ reportTold' = "none"
  BY DEF SaveReport, Away, IntoPlace
<1>2. IF file["dest"] = "none" THEN moves' = <<IntoPlace>> ELSE moves' = <<Away, IntoPlace>>
  BY <1>1, MovesDiffer
<1>3. ReportTypes'
  BY <1>1, <1>2 DEF ReportIInv, ReportTypes
<1>4. WholeReport' /\ ToldTrue'
  BY <1>1, <1>2, MovesDiffer DEF ReportIInv, WholeReport, ToldTrue, Has
<1>5. hadOld' => OldInPlace'
  <2>1. hadOld => file["dest"] # "none"
    BY DEF Has
  <2> QED
    BY <1>1, <1>2, <2>1, MovesDiffer DEF OldInPlace, Has
<1> QED
  BY <1>3, <1>4, <1>5 DEF ReportIInv

\* Fetching, saving, uploading and a kill at any place keep the invariant.
LEMMA ReportStep ==
  ASSUME ReportIInv, [SupportNext]_supportVars PROVE ReportIInv'
PROOF
<1>0. /\ ReportTypes /\ WholeReport /\ (hadOld => OldInPlace) /\ ToldTrue
      /\ supportKind' = supportKind /\ hadOld' = hadOld
  BY DEF ReportIInv, SupportNext, supportVars, Fetch, Decide, MoveCreates, MoveCopies,
         MoveRemoves, Upload, RemoveUploaded, KillReport
<1>1. CASE Fetch
  <2>1. /\ supportAt = "fetch" /\ reportTold = "none" /\ portal' = portal
        /\ UNCHANGED <<moves, moveStep>>
        /\ \/ /\ file' = [file EXCEPT ![Fetched] = "new"] /\ UNCHANGED unheard
              /\ supportAt' = "fetched" /\ UNCHANGED reportTold
           \/ /\ file' = [file EXCEPT ![Fetched] = "part"] /\ unheard' = {"new"}
              /\ supportAt' = "fetched" /\ UNCHANGED reportTold
           \/ /\ file' = [file EXCEPT ![Fetched] = "part"] /\ UNCHANGED unheard
              /\ supportAt' = supportAt /\ reportTold' = "failed"
    BY <1>1 DEF Fetch, ReportAt, SupportOver
  <2>2. Fetched \in {"temp", "dest"} /\ Fetched' = Fetched /\ (hadOld => Fetched = "temp")
    BY <1>0 DEF Fetched, ReportTypes
  <2>3. ReportTypes'
    BY <1>0, <2>1, <2>2 DEF ReportTypes
  <2>4. WholeReport' /\ ToldTrue'
    BY <1>0, <2>1, <2>2 DEF ReportTypes, WholeReport, ToldTrue, Has
  <2>5. hadOld' => OldInPlace'
    <3>1. hadOld => file["dest"] = "old" \/ "old" \in unheard
      BY <1>0, <2>1 DEF OldInPlace, Has
    <3>2. unheard = {}
      BY <1>0, <2>1 DEF WholeReport
    <3> QED
      BY <1>0, <2>1, <2>2, <3>1, <3>2 DEF ReportTypes, OldInPlace, Has
  <2> QED
    BY <2>3, <2>4, <2>5 DEF ReportIInv
<1>2. CASE Decide
  <2>1. supportAt = "fetched" /\ reportTold = "none" /\ UNCHANGED <<file, unheard, portal>>
    BY <1>2 DEF Decide, ReportAt
  <2>2. Has(Fetched, "new") /\ (hadOld => Has("dest", "old"))
    BY <1>0, <2>1 DEF WholeReport, OldInPlace
  <2>3. CASE SaveReport /\ supportKind # "diag"
    <3>1. Has("temp", "new")
      BY <2>2, <2>3 DEF Fetched
    <3>2. portal' \in {"none", "new", "part"} /\ (portal' = "part" => "new" \in unheard)
      BY <1>0, <2>1 DEF ReportTypes, WholeReport
    <3> QED
      BY <1>0, <1>2, <2>1, <2>2, <2>3, <3>1, <3>2, SaveBegins DEF Decide
  <2>4. CASE SupportOver("saved") /\ supportKind = "diag"
    BY <1>0, <2>1, <2>2, <2>4
       DEF ReportIInv, ReportTypes, WholeReport, OldInPlace, ToldTrue, Has, SupportOver, Fetched
  <2>5. CASE StartUpload /\ supportKind # "profile"
    <3>1. Has(Uploaded, "new")
      BY <2>2, <2>5 DEF Fetched, Uploaded
    <3> QED
      BY <1>0, <2>1, <2>2, <2>5, <3>1
         DEF ReportIInv, ReportTypes, WholeReport, OldInPlace, ToldTrue, Has, StartUpload, Uploaded
  <2> QED
    BY <1>0, <1>2, <2>3, <2>4, <2>5 DEF Decide, ReportTypes
<1>3. CASE MoveCreates \/ MoveCopies \/ MoveRemoves
  <2>1. supportAt = "move" /\ reportTold = "none" /\ portal' = portal
    BY <1>3 DEF MoveCreates, MoveCopies, MoveRemoves, ReportAt
  <2>2. moves = <<IntoPlace>> \/ moves = <<Away, IntoPlace>>
    BY <1>0, <2>1 DEF ReportTypes, WholeReport
  <2>3. CASE UNCHANGED <<file, unheard>> /\ SupportOver("failed")
    BY <1>0, <2>1, <2>3
       DEF ReportIInv, ReportTypes, WholeReport, OldInPlace, ToldTrue, Has, SupportOver
  <2>4. CASE moves = <<IntoPlace>>
    <3>0. Head(moves) = IntoPlace /\ Len(moves) = 1
      BY <2>4, MovesDiffer
    <3>1. CASE MoveCreates
      BY <1>0, <2>1, <2>3, <2>4, <3>0, <3>1, MovesDiffer
         DEF ReportIInv, ReportTypes, WholeReport, OldInPlace, ToldTrue, Has, MoveCreates
    <3>2. CASE MoveCopies
      BY <1>0, <2>1, <2>3, <2>4, <3>0, <3>2, MovesDiffer
         DEF ReportIInv, ReportTypes, WholeReport, OldInPlace, ToldTrue, Has, MoveCopies
    <3>3. CASE MoveRemoves
      <4>1. /\ moveStep = "remove" /\ file["dest"] \in {"new", "part"}
            /\ UNCHANGED <<supportKind, hadOld>>
        BY <1>0, <1>3, <2>1, <2>4, <3>3 DEF WholeReport, Has, MoveRemoves
      <4>2. CASE file' = [file EXCEPT !["dest"] = "part"] /\ UNCHANGED unheard /\ SupportOver("failed")
        BY <1>0, <2>1, <2>4, <4>1, <4>2, MovesDiffer
           DEF ReportIInv, ReportTypes, WholeReport, OldInPlace, ToldTrue, Has, SupportOver
      <4>3. CASE /\ \/ file' = [file EXCEPT !["temp"] = "none"] /\ UNCHANGED unheard
                    \/ /\ file' = [file EXCEPT !["temp"] = "none", !["dest"] = "part"]
                       /\ unheard' = unheard \cup {"new"}
                 /\ \/ StartUpload /\ supportKind = "profile"
                    \/ SupportOver("saved")
        <5>6. /\ file' \in [{"temp", "dest", "backup"} -> {"none", "new", "old", "part"}]
              /\ unheard' \subseteq {"new", "old"}
          BY <1>0, <4>3 DEF ReportTypes
        <5>7. /\ UNCHANGED <<moves, moveStep>>
              /\ \/ supportAt' = "upload" /\ UNCHANGED reportTold
                 \/ reportTold' = "saved" /\ UNCHANGED supportAt
          BY <4>3 DEF StartUpload, SupportOver
        <5>1. ReportTypes'
          BY <1>0, <2>1, <4>1, <5>6, <5>7 DEF ReportTypes
        <5>0. Has("dest", "new") /\ file \in [{"temp", "dest", "backup"} -> {"none", "new", "old", "part"}]
          BY <1>0, <2>1, <2>4, <4>1 DEF ReportTypes, WholeReport
        <5>2. Has("dest", "new")'
          <6>1. CASE UNCHANGED unheard /\ file' = [file EXCEPT !["temp"] = "none"]
            <7>1. file'["dest"] = file["dest"]
              BY <5>0, <6>1
            <7> QED BY <5>0, <6>1, <7>1 DEF Has
          <6>2. CASE /\ file' = [file EXCEPT !["temp"] = "none", !["dest"] = "part"]
                     /\ unheard' = unheard \cup {"new"}
            <7>1. file'["dest"] = "part"
              BY <5>0, <6>2
            <7> QED BY <6>2, <7>1 DEF Has
          <6> QED BY <4>3, <6>1, <6>2
        <5>3. WholeReport' /\ ToldTrue'
          BY <1>0, <2>1, <2>4, <4>1, <4>3, <5>2, MovesDiffer
             DEF WholeReport, ToldTrue, StartUpload, SupportOver, Uploaded
        <5>4. hadOld' => OldInPlace'
          BY <1>0, <2>1, <2>4, <4>1, <4>3, MovesDiffer
             DEF ReportTypes, OldInPlace, Has, StartUpload, SupportOver
        <5> QED
          BY <5>1, <5>3, <5>4 DEF ReportIInv
      <4> QED
        BY <1>0, <2>1, <2>3, <3>0, <3>3, <4>2, <4>3, MovesDiffer DEF MoveRemoves
    <3> QED
      BY <1>3, <3>1, <3>2, <3>3
  <2>5. CASE moves = <<Away, IntoPlace>>
    <3>0. Head(moves) = Away /\ Len(moves) = 2 /\ Tail(moves) = <<IntoPlace>>
      BY <2>5, MovesDiffer
    <3>1. CASE MoveCreates
      BY <1>0, <2>1, <2>3, <2>5, <3>0, <3>1, MovesDiffer
         DEF ReportIInv, ReportTypes, WholeReport, OldInPlace, ToldTrue, Has, MoveCreates
    <3>2. CASE MoveCopies
      BY <1>0, <2>1, <2>3, <2>5, <3>0, <3>2, MovesDiffer
         DEF ReportIInv, ReportTypes, WholeReport, OldInPlace, ToldTrue, Has, MoveCopies
    <3>3. CASE MoveRemoves
      <4>1. moveStep = "remove"
        BY <3>3 DEF MoveRemoves
      <4>2. CASE file' = [file EXCEPT !["backup"] = "part"] /\ UNCHANGED unheard /\ SupportOver("failed")
        BY <1>0, <2>1, <2>5, <4>1, <4>2, MovesDiffer
           DEF ReportIInv, ReportTypes, WholeReport, OldInPlace, ToldTrue, Has, SupportOver
      <4>3. CASE /\ \/ file' = [file EXCEPT !["dest"] = "none"] /\ UNCHANGED unheard
                    \/ /\ file' = [file EXCEPT !["dest"] = "none", !["backup"] = "part"]
                       /\ unheard' = unheard \cup {"old"}
                 /\ moves' = <<IntoPlace>> /\ moveStep' = "create"
                 /\ UNCHANGED <<supportAt, reportTold>>
        <5>1. ReportTypes'
          BY <1>0, <2>1, <4>3 DEF ReportTypes
        <5>2. WholeReport' /\ ToldTrue'
          BY <1>0, <2>1, <2>5, <4>1, <4>3, MovesDiffer DEF ReportTypes, WholeReport, ToldTrue, Has
        <5>3. hadOld' => OldInPlace'
          BY <1>0, <2>1, <2>5, <4>1, <4>3, MovesDiffer DEF ReportTypes, OldInPlace, Has
        <5> QED
          BY <5>1, <5>2, <5>3 DEF ReportIInv
      <4>4. /\ Head(moves).from = "dest" /\ Head(moves).to = "backup"
            /\ Len(moves) > 1 /\ Tail(moves) = <<IntoPlace>>
        BY <3>0, MovesDiffer
      <4>5. \/ UNCHANGED <<file, unheard>> /\ SupportOver("failed")
            \/ file' = [file EXCEPT !["backup"] = "part"] /\ UNCHANGED unheard /\ SupportOver("failed")
            \/ /\ \/ file' = [file EXCEPT !["dest"] = "none"] /\ UNCHANGED unheard
                  \/ /\ file' = [file EXCEPT !["dest"] = "none", !["backup"] = "part"]
                     /\ unheard' = unheard \cup {"old"}
               /\ moves' = <<IntoPlace>> /\ moveStep' = "create"
               /\ UNCHANGED <<supportAt, reportTold>>
        BY <3>3, <4>4 DEF MoveRemoves
      <4> QED
        BY <2>3, <4>2, <4>3, <4>5
    <3> QED
      BY <1>3, <3>1, <3>2, <3>3
  <2> QED
    BY <2>2, <2>4, <2>5
<1>4. CASE Upload
  <2>1. /\ supportAt = "upload" /\ reportTold = "none" /\ portal = "none" /\ UNCHANGED <<file, unheard>>
    BY <1>4 DEF Upload, ReportAt
  <2>2. Has(Uploaded, "new")
    BY <1>0, <2>1 DEF WholeReport
  <2>9. /\ portal' \in {"none", "new", "part"} /\ (portal' = "part" => "new" \in unheard)
        /\ portal' \in {portal, file[Uploaded]}
    BY <1>0, <1>4, <2>1, <2>2 DEF Upload, Has
  <2>3. CASE SaveReport /\ supportKind \notin {"profile", "diag"}
    <3>1. Has("temp", "new") /\ (hadOld => Has("dest", "old"))
      BY <1>0, <2>1, <2>2, <2>3 DEF Uploaded, OldInPlace
    <3> QED
      BY <1>0, <2>1, <2>3, <2>9, <3>1, SaveBegins
  <2>4. CASE SupportOver("failed")
    BY <1>0, <2>1, <2>2, <2>4, <2>9
       DEF ReportIInv, ReportTypes, WholeReport, OldInPlace, ToldTrue, Has, SupportOver, Uploaded
  <2>5. CASE portal' = file[Uploaded] /\ UNCHANGED <<supportAt, moves, moveStep, reportTold>>
    BY <1>0, <2>1, <2>5 DEF ReportIInv, ReportTypes, WholeReport, OldInPlace, ToldTrue, Has,
           Uploaded
  <2> QED
    BY <1>4, <2>3, <2>4, <2>5 DEF Upload
<1>5. CASE RemoveUploaded
  <2>1. /\ supportAt = "upload" /\ portal # "none" /\ UNCHANGED <<portal, unheard>>
        /\ file' = [file EXCEPT ![Uploaded] = "none"] \/ file' = file
        /\ UNCHANGED <<supportAt, moves, moveStep>> /\ reportTold' = "uploaded"
    BY <1>5 DEF RemoveUploaded, ReportAt, SupportOver
  <2> QED
    BY <1>0, <2>1 DEF ReportIInv, ReportTypes, WholeReport, OldInPlace, ToldTrue, Has, Uploaded
<1>6. CASE KillReport
  BY <1>0, <1>6
     DEF ReportIInv, ReportTypes, WholeReport, OldInPlace, ToldTrue, Has, KillReport, SupportOver,
         Uploaded, Fetched
<1>7. CASE UNCHANGED supportVars
  BY <1>0, <1>7
     DEF ReportIInv, ReportTypes, WholeReport, OldInPlace, ToldTrue, Has, supportVars, Uploaded, Fetched
<1> QED
  BY <1>1, <1>2, <1>3, <1>4, <1>5, <1>6, <1>7 DEF SupportNext

\* The files of the report and the moves that are left to do have the values
\* that moveFile and its callers give them.
THEOREM SupportTypeCorrect == SupportSpec => []SupportTypeOK
PROOF
<1>1. ASSUME ReportIInv PROVE SupportTypeOK
  BY <1>1, MovesDiffer DEF ReportIInv, ReportTypes, SupportTypeOK
<1> QED
  BY <1>1, ReportInitOK, ReportStep, PTL DEF SupportSpec

\* Wherever mc is killed or fails, the report that it has fetched and the file
\* whose place it takes are each somewhere whole, here or on the portal, but for
\* what was being written when a Close failed to which mc does not listen.
THEOREM ReportIsKept == SupportSpec => []ReportKept
PROOF
<1>1. ASSUME ReportIInv PROVE ReportKept
  <2>1. /\ ReportTypes /\ WholeReport /\ (hadOld => OldInPlace) /\ ToldTrue
        /\ DOMAIN file = {"temp", "dest", "backup"}
        /\ Fetched \in {"temp", "dest"} /\ Uploaded \in {"temp", "dest"}
    BY <1>1 DEF ReportIInv, ReportTypes, Fetched, Uploaded
  <2>2. portal = "new" \/ Held("new") \/ "new" \in unheard \/ supportAt = "fetch"
    BY <2>1 DEF WholeReport, ReportTypes, Held, Has
  <2>3. hadOld => Held("old") \/ "old" \in unheard
    BY <2>1 DEF OldInPlace, ReportTypes, Held, Has
  <2>4. /\ reportTold = "uploaded" => portal = "new" \/ "new" \in unheard
        /\ reportTold = "saved" => file.dest = "new" \/ "new" \in unheard
    BY <2>1 DEF ToldTrue, WholeReport, ReportTypes, Has
  <2> QED
    BY <2>2, <2>3, <2>4 DEF ReportKept
<1> QED
  BY <1>1, ReportInitOK, ReportStep, PTL DEF SupportSpec

-----------------------------------------------------------------------------
(***************************************************************************)
(* Copies of a part.                                                       *)
(***************************************************************************)
OdTypes ==
  /\ od \in [download : BOOLEAN, toFile : BOOLEAN, n : Nat, parts : Nat, size : Nat,
             skip : Nat]
  /\ odAt \in {"sizes", "put", "multi", "over"}
  /\ odTold \in {"none", "ok", "error", "panic"}
  /\ odParts \in Seq(Nat) /\ Len(odParts) <= od.parts
OdPlanned ==
  /\ odAt # "over" => odTold = "none"
  /\ odAt = "put" => ~od.download /\ odPlan = OdSetSizes(od)
  /\ odAt = "multi" => od.download
OdIInv == OdTypes /\ OdPlanned /\ OdPutsItsRange

\* So many bytes of a source, from behind s on.
IsRun(got, s, want) ==
  /\ \A i \in DOMAIN got : got[i] = got[1] + i - 1
  /\ {got[i] : i \in DOMAIN got} = (s + 1)..(s + want)

\* What a copy puts is a run of the source.
LEMMA RunOfSource ==
  ASSUME NEW s \in Int, NEW want \in Int, NEW got,
         DOMAIN got = 1..want, \A i \in 1..want : got[i] = s + i
  PROVE  IsRun(got, s, want)
PROOF
<1>1. DOMAIN got = 1..want /\ \A i \in 1..want : got[i] = s + i
  OBVIOUS
<1>2. \A i \in DOMAIN got : got[i] = got[1] + i - 1
  <2> TAKE i \in DOMAIN got
  <2>1. i \in 1..want /\ 1 \in 1..want
    BY <1>1
  <2> QED
    BY <2>1, <1>1
<1>3. ASSUME NEW b \in (s + 1)..(s + want) PROVE b \in {got[i] : i \in DOMAIN got}
  <2>1. b - s \in 1..want /\ s + (b - s) = b
    OBVIOUS
  <2> QED
    BY <2>1, <1>1
<1>4. ASSUME NEW i \in DOMAIN got PROVE got[i] \in (s + 1)..(s + want)
  BY <1>1
<1> QED
  BY <1>2, <1>3, <1>4 DEF IsRun

\* The plan of odSetSizes, in its five cases.
LEMMA PlanOf ==
  ASSUME NEW o \in [download : BOOLEAN, toFile : BOOLEAN, n : Nat, parts : Nat, size : Nat,
                    skip : Nat],
         o.n > 0, NEW p, p = OdSetSizes(o)
  PROVE  \/ /\ o.size > o.n \/ (o.size = 0 /\ o.parts <= 1)
            /\ p.combined = o.n /\ p.skip = 0
         \/ /\ o.size = 0 /\ o.parts > 1
            /\ p.combined = -1 /\ p.skip = o.skip * Ceil(o.n, o.parts)
         \/ /\ o.size \in 1..o.n /\ o.parts = 0
            /\ p.combined = o.n /\ p.skip = o.skip * o.size
         \/ /\ o.size \in 1..o.n /\ o.parts > 0
            /\ p.skip = o.skip * o.size
            /\ p.combined = IF o.n - o.skip * o.size < o.size * o.parts
                            THEN o.n - o.skip * o.size ELSE o.size * o.parts
PROOF
<1>0. o.n \in Nat /\ o.parts \in Nat /\ o.size \in Nat /\ o.skip \in Nat
  OBVIOUS
<1>1. CASE o.size = 0 /\ o.parts <= 1
  <2>1. p = Plan(o.n, o.n, 1, 0)
    BY <1>0, <1>1 DEF OdSetSizes
  <2> QED
    BY <1>1, <2>1 DEF Plan
<1>2. CASE o.size = 0 /\ o.parts > 1
  <2>1. p = Plan(-1, Ceil(o.n, o.parts), o.parts - o.skip, o.skip * Ceil(o.n, o.parts))
    BY <1>0, <1>2 DEF OdSetSizes
  <2> QED
    BY <1>2, <2>1 DEF Plan
<1>3. CASE o.size > o.n
  <2>1. p = Plan(o.n, o.n, 1, 0)
    BY <1>0, <1>3 DEF OdSetSizes
  <2> QED
    BY <1>3, <2>1 DEF Plan
<1>4. CASE o.size \in 1..o.n /\ o.parts = 0
  <2>1. p = Plan(o.n, o.size, Ceil(o.n, o.size) - o.skip, o.skip * o.size)
    BY <1>0, <1>4 DEF OdSetSizes
  <2> QED
    BY <1>4, <2>1 DEF Plan
<1>5. CASE o.size \in 1..o.n /\ o.parts > 0
  <2>1. p = IF o.n - o.skip * o.size < o.size * o.parts
            THEN Plan(o.n - o.skip * o.size, o.size, Ceil(o.n, o.size) - o.skip, o.skip * o.size)
            ELSE Plan(o.size * o.parts, o.size, o.parts, o.skip * o.size)
    BY <1>0, <1>5 DEF OdSetSizes
  <2> QED
    BY <1>5, <2>1 DEF Plan
<1> QED
  BY <1>0, <1>1, <1>2, <1>3, <1>4, <1>5

\* A copy that does not run short: rest is left behind its beginning, and want asked for.
CopyOf(o, p, rest, want, got) ==
  /\ o.n > 0 /\ p = OdSetSizes(o)
  /\ rest = IF o.n > p.skip THEN o.n - p.skip ELSE 0
  /\ want = IF p.combined < 0 THEN rest ELSE p.combined
  /\ want <= rest
  /\ got = [i \in 1..want |-> p.skip + i]

\* It has put what was asked for.
LEMMA CopyPuts ==
  ASSUME NEW o \in [download : BOOLEAN, toFile : BOOLEAN, n : Nat, parts : Nat, size : Nat,
                    skip : Nat],
         NEW p, NEW rest, NEW want, NEW got, CopyOf(o, p, rest, want, got)
  PROVE  /\ \A i \in DOMAIN got : got[i] = got[1] + i - 1
         /\ {got[i] : i \in DOMAIN got} =
              IF o.size > o.n \/ (o.size = 0 /\ o.parts <= 1) THEN 1..o.n
              ELSE Wanted(o)
PROOF
<1>0. o.n \in Nat /\ o.parts \in Nat /\ o.size \in Nat /\ o.skip \in Nat /\ o.n > 0
  BY DEF CopyOf
<1>g. DOMAIN got = 1..want /\ \A i \in 1..want : got[i] = p.skip + i
  BY DEF CopyOf
<1>w. /\ rest = IF o.n > p.skip THEN o.n - p.skip ELSE 0
      /\ want = IF p.combined < 0 THEN rest ELSE p.combined
      /\ want <= rest
  BY DEF CopyOf
<1>m. \A a, b \in Nat : a * b \in Nat
  OBVIOUS
<1>1. CASE /\ o.size > o.n \/ (o.size = 0 /\ o.parts <= 1)
           /\ p.combined = o.n /\ p.skip = 0
  <2>1. p.skip \in Int /\ want = o.n /\ want \in Int
    BY <1>0, <1>1, <1>w
  <2>2. IsRun(got, p.skip, want)
    BY <2>1, <1>g, RunOfSource
  <2>3. (p.skip + 1)..(p.skip + want) = 1..o.n
    BY <2>1, <1>0, <1>1
  <2> QED
    BY <1>1, <2>2, <2>3 DEF IsRun
<1>2. CASE /\ o.size = 0 /\ o.parts > 1
           /\ p.combined = -1 /\ p.skip = o.skip * Ceil(o.n, o.parts)
  <2> DEFINE part == Ceil(o.n, o.parts)
  <2>1. part \in Nat
    <3>1. o.n + o.parts - 1 \in Nat /\ o.parts \in Nat \ {0}
      BY <1>0, <1>2
    <3>2. \A a \in Nat, b \in Nat \ {0} : a \div b \in Nat
      OBVIOUS
    <3> QED
      BY <3>1, <3>2 DEF Ceil
  <2> HIDE DEF part
  <2>2. p.skip \in Nat /\ p.skip = o.skip * part
    BY <2>1, <1>0, <1>m, <1>2 DEF part
  <2>3. want = (IF o.n > p.skip THEN o.n - p.skip ELSE 0) /\ want \in Int
    BY <2>2, <1>0, <1>2, <1>w
  <2>4. IsRun(got, p.skip, want)
    BY <2>2, <2>3, <1>g, RunOfSource
  <2>5. Wanted(o) = {b \in 1..o.n : b > p.skip}
    BY <2>2, <1>2 DEF Wanted, part
  <2>6. (p.skip + 1)..(p.skip + want) = {b \in 1..o.n : b > p.skip}
    BY <2>2, <2>3, <1>0
  <2>7. ~(o.size > o.n \/ (o.size = 0 /\ o.parts <= 1))
    BY <1>2, <1>0
  <2> QED
    BY <2>4, <2>5, <2>6, <2>7 DEF IsRun
<1>3. CASE /\ o.size \in 1..o.n /\ o.parts = 0
           /\ p.combined = o.n /\ p.skip = o.skip * o.size
  <2>1. p.skip \in Nat
    BY <1>0, <1>m, <1>3
  <2>2. want = o.n /\ want \in Int /\ p.skip = 0
    BY <2>1, <1>0, <1>3, <1>w
  <2>3. IsRun(got, p.skip, want)
    BY <2>1, <2>2, <1>g, RunOfSource
  <2>4. Wanted(o) = {b \in 1..o.n : b > p.skip}
    BY <1>0, <1>3 DEF Wanted
  <2>5. (p.skip + 1)..(p.skip + want) = {b \in 1..o.n : b > p.skip}
    BY <2>2, <1>0
  <2> QED
    BY <1>3, <1>0, <2>3, <2>4, <2>5 DEF IsRun
<1>4. CASE /\ o.size \in 1..o.n /\ o.parts > 0
           /\ p.skip = o.skip * o.size
           /\ p.combined = IF o.n - o.skip * o.size < o.size * o.parts
                           THEN o.n - o.skip * o.size ELSE o.size * o.parts
  <2> DEFINE all == o.size * o.parts
  <2>1. p.skip \in Nat /\ all \in Nat
    BY <1>0, <1>m, <1>4
  <2>2. (o.skip + o.parts) * o.size = p.skip + all
    BY <1>0, <1>4
  <2>3. Wanted(o) = {b \in 1..o.n : b > p.skip /\ b <= p.skip + all}
    BY <1>0, <1>4, <2>2 DEF Wanted
  <2> HIDE DEF all
  <2>4. p.combined = IF o.n - p.skip < all THEN o.n - p.skip ELSE all
    BY <1>4 DEF all
  <2>5. want \in Int
    BY <2>1, <2>4, <1>0, <1>w
  <2>6. IsRun(got, p.skip, want)
    BY <2>1, <2>5, <1>g, RunOfSource
  <2>7. (p.skip + 1)..(p.skip + want)
          = {b \in 1..o.n : b > p.skip /\ b <= p.skip + all}
    BY <2>1, <2>4, <1>0, <1>w
  <2>8. ~(o.size > o.n \/ (o.size = 0 /\ o.parts <= 1))
    BY <1>4, <1>0
  <2> QED
    BY <2>3, <2>6, <2>7, <2>8 DEF IsRun
<1> QED
  BY <1>1, <1>2, <1>3, <1>4, PlanOf DEF CopyOf

\* Every step of mc od keeps the invariant.
LEMMA OdStep ==
  ASSUME OdIInv, [OdNext]_odVars
  PROVE  OdIInv'
PROOF
<1>1. CASE OdSizes
  <2>1. OdTypes'
    BY <1>1 DEF OdIInv, OdTypes, OdPlanned, OdSizes, OdOver
  <2>2. (OdSetSizes(od))' = OdSetSizes(od)
    BY <1>1 DEF OdSizes, OdSetSizes, Plan, Ceil
  <2>3. OdPlanned'
    BY <1>1, <2>2 DEF OdIInv, OdPlanned, OdSizes, OdOver
  <2>4. OdPutsItsRange'
    <3>1. od' = od /\ (~od.download => odTold' = "none")
      BY <1>1 DEF OdIInv, OdPlanned, OdSizes
    <3> QED
      BY <3>1 DEF OdPutsItsRange
  <2> QED
    BY <2>1, <2>3, <2>4 DEF OdIInv
<1>2. CASE OdCopy
  <2>1. /\ odAt = "put" /\ odAt' = "over" /\ UNCHANGED <<od, odPlan, odParts>>
        /\ odTold' \in {"panic", "ok", "error"}
    BY <1>2 DEF OdCopy, OdOver
  <2>2. OdTypes' /\ OdPlanned'
    BY <2>1 DEF OdIInv, OdTypes, OdPlanned
  <2>3. OdPutsItsRange'
    <3> SUFFICES ASSUME odTold' = "ok", ~od.download, od.n > 0
                 PROVE  /\ \A i \in DOMAIN odGot' : odGot'[i] = odGot'[1] + i - 1
                        /\ {odGot'[i] : i \in DOMAIN odGot'} =
                             IF od.size > od.n \/ (od.size = 0 /\ od.parts <= 1) THEN 1..od.n
                             ELSE Wanted(od)
      BY <2>1 DEF OdPutsItsRange, Wanted, Ceil
    <3> DEFINE rest == IF od.n > odPlan.skip THEN od.n - odPlan.skip ELSE 0
               want == IF odPlan.combined < 0 THEN rest ELSE odPlan.combined
    <3>1. odPlan = OdSetSizes(od)
      BY <2>1 DEF OdIInv, OdPlanned
    <3>2. od.n \in Nat /\ od \in [download : BOOLEAN, toFile : BOOLEAN, n : Nat, parts : Nat, size : Nat, skip : Nat]
      BY DEF OdIInv, OdTypes
    <3>3. want <= rest /\ odGot' = [i \in 1..want |-> odPlan.skip + i]
      BY <1>2, <3>2 DEF OdCopy, OdOver
    <3>4. PICK r : r = rest
      OBVIOUS
    <3>5. PICK w : w = want
      OBVIOUS
    <3>6. /\ r = (IF od.n > odPlan.skip THEN od.n - odPlan.skip ELSE 0)
          /\ w = (IF odPlan.combined < 0 THEN r ELSE odPlan.combined)
          /\ w <= r /\ odGot' = [i \in 1..w |-> odPlan.skip + i]
      BY <3>3, <3>4, <3>5
    <3> HIDE DEF rest, want
    <3> HIDE <3>3, <3>4, <3>5
    <3>7. od.n > 0
      OBVIOUS
    <3> QED
      <4>1. CopyOf(od, odPlan, r, w, odGot')
        BY <3>1, <3>6, <3>7 DEF CopyOf
      <4> QED
        BY <4>1, <3>2, CopyPuts
  <2> QED
    BY <2>2, <2>3 DEF OdIInv
<1>3. CASE OdAsk \/ OdMulti
  <2>1. od.download /\ UNCHANGED <<od, odPlan>>
    BY <1>3 DEF OdIInv, OdPlanned, OdAsk, OdMulti
  <2>2. OdPutsItsRange'
    BY <2>1 DEF OdPutsItsRange
  <2>3. od.parts \in Nat /\ od.skip \in Nat /\ odParts \in Seq(Nat) /\ Len(odParts) \in Nat
    BY DEF OdIInv, OdTypes
  <2>4. odParts' \in Seq(Nat) /\ Len(odParts') <= od.parts
    <3>1. CASE OdAsk
      <4>1. odParts' = Append(odParts, od.parts) /\ Len(odParts) + od.skip < od.parts
        BY <3>1 DEF OdAsk
      <4> QED
        BY <4>1, <2>3
    <3>2. CASE OdMulti
      BY <3>2 DEF OdMulti, OdIInv, OdTypes
    <3> QED
      BY <3>1, <3>2, <1>3
  <2>5. OdTypes' /\ OdPlanned'
    BY <1>3, <2>1, <2>4 DEF OdIInv, OdTypes, OdPlanned, OdAsk, OdMulti, OdOver
  <2> QED
    BY <2>2, <2>5 DEF OdIInv
<1>4. CASE UNCHANGED odVars
  <2>1. OdTypes'
    BY <1>4 DEF OdIInv, OdTypes, odVars
  <2>2. OdPlanned'
    BY <1>4 DEF OdIInv, OdPlanned, odVars, OdSetSizes, Plan, Ceil
  <2>3. OdPutsItsRange'
    BY <1>4 DEF OdIInv, OdPutsItsRange, odVars, Wanted, Ceil
  <2> QED
    BY <2>1, <2>2, <2>3 DEF OdIInv
<1> QED
  BY <1>1, <1>2, <1>3, <1>4 DEF OdNext

\* The invariant of mc od.
LEMMA OdInvariant == OdSpec => []OdIInv
PROOF
<1>1. OdInit => OdIInv
  <2> SUFFICES ASSUME OdInit PROVE OdIInv
    OBVIOUS
  <2>1. OdTypes
    <3>1. od \in [download : BOOLEAN, toFile : BOOLEAN, n : Nat, parts : Nat, size : Nat,
                   skip : Nat]
      BY OdAssumption DEF OdInit
    <3>2. odParts \in Seq(Nat) /\ Len(odParts) = 0
      BY DEF OdInit
    <3>3. od.parts \in Nat /\ odAt = "sizes" /\ odTold = "none"
      BY <3>1 DEF OdInit
    <3> QED
      BY <3>1, <3>2, <3>3 DEF OdTypes
  <2>2. OdPlanned /\ OdPutsItsRange
    BY DEF OdInit, OdPlanned, OdPutsItsRange
  <2> QED
    BY <2>1, <2>2 DEF OdIInv
<1>2. OdIInv /\ [OdNext]_odVars => OdIInv'
  BY OdStep
<1> QED
  BY <1>1, <1>2, PTL DEF OdSpec

\* The operands and the state of mc od have the values cmd/od-main.go gives them:
\* multiGet makes no more readers than there are parts.
THEOREM OdTypeCorrect == OdSpec => []OdTypeOK
PROOF
<1>1. OdIInv => OdTypeOK
  BY DEF OdIInv, OdTypes, OdTypeOK
<1> QED
  BY <1>1, OdInvariant, PTL

\* A copy of mc od that succeeds has put the bytes that were asked for, in their
\* order, whatever the operands of odSetSizes and the size of the source.
THEOREM RangeIsPut == OdSpec => []OdPutsItsRange
PROOF
<1>1. OdIInv => OdPutsItsRange
  BY DEF OdIInv
<1> QED
  BY <1>1, OdInvariant, PTL

-----------------------------------------------------------------------------
(***************************************************************************)
(* The migration of the configuration makes up no keys: whatever a file    *)
(* holds after any number of interrupted starts, the user has put there.   *)
(***************************************************************************)
ConfigKeys(c) == KeysIn(c.hosts) \cup KeysIn(c.aliases)
HasKeysOf(f, K) == \A n \in DOMAIN f : f[n].keys \in UserKeys => f[n].keys \in K
IsConfig(c) ==
  c = [version |-> c.version, broken |-> c.broken, hosts |-> c.hosts, aliases |-> c.aliases]

\* A conversion keeps the version, for `migrated' to change, and finds its keys
\* in what it converts.
MadeOf(c, r) ==
  /\ IsConfig(r) /\ r.version = c.version
  /\ HasKeysOf(r.hosts, ConfigKeys(c)) /\ HasKeysOf(r.aliases, ConfigKeys(c))

ConfigNumbersOK ==
  /\ step \in 0..(5 + Len(Old)) /\ starts \in 0..MaxStarts /\ commands \in Nat
  /\ commands + (IF step > 0 THEN 1 ELSE 0) <= starts
ConfigFileOK ==
  /\ IsConfig(config) /\ config.version \in ConfigVersions
  /\ ConfigKeys(config) \subseteq ConfigKeys(first)
RefusedOK == refused \in BOOLEAN
ConfigOK == ConfigNumbersOK /\ ConfigFileOK /\ RefusedOK

LEMMA KeysAreIn ==
  ASSUME NEW f, NEW K PROVE HasKeysOf(f, K) <=> KeysIn(f) \subseteq K
PROOF
  BY DEF HasKeysOf, KeysIn

LEMMA OwnKeys ==
  ASSUME NEW c
  PROVE  HasKeysOf(c.hosts, ConfigKeys(c)) /\ HasKeysOf(c.aliases, ConfigKeys(c))
PROOF
  BY DEF HasKeysOf, ConfigKeys, KeysIn

LEMMA MadeKeys ==
  ASSUME NEW c, NEW r, MadeOf(c, r) PROVE ConfigKeys(r) \subseteq ConfigKeys(c)
PROOF
  BY DEF MadeOf, HasKeysOf, ConfigKeys, KeysIn

LEMMA StartsBounded == MaxStarts \in Nat
PROOF
  BY ConfigAssumption

\* "default" and "none" are no keys of the user.
LEMMA NoUserKeys == "default" \notin UserKeys /\ "none" \notin UserKeys
PROOF
  BY ConfigAssumption

LEMMA DefaultsHaveNone ==
  ASSUME NEW K
  PROVE  HasKeysOf(DefaultsV7, K) /\ HasKeysOf(DefaultsV8, K) /\ HasKeysOf(Empty, K)
PROOF
<1>1. \A a \in DOMAIN DefaultsV8 : DefaultsV8[a].keys \in {"default", "none"}
  BY DEF DefaultsV8, Entry
<1>2. \A a \in DOMAIN DefaultsV7 : DefaultsV7[a].keys \in {"default", "none"}
  BY <1>1 DEF DefaultsV7, WithDefaults, Entry
<1>3. DOMAIN Empty = {}
  BY DEF Empty, Hosts
<1> QED
  BY <1>1, <1>2, <1>3, NoUserKeys DEF HasKeysOf

LEMMA DefaultsAdded ==
  ASSUME NEW f, NEW g, NEW K, HasKeysOf(f, K), HasKeysOf(g, K)
  PROVE  HasKeysOf(WithDefaults(f, g), K)
PROOF
  BY DEF HasKeysOf, WithDefaults

LEMMA SomeDropped ==
  ASSUME NEW f, NEW S, NEW K, HasKeysOf(f, K) PROVE HasKeysOf(Drop(f, S), K)
PROOF
  BY DEF HasKeysOf, Drop

\* Of what is written for each name, one is found there.
LEMMA OneIsWritten ==
  ASSUME NEW W, NEW f \in Written(W), NEW K,
         \A w \in W : w[2].keys \in UserKeys => w[2].keys \in K
  PROVE  HasKeysOf(f, K)
PROOF
<1>1. \A n \in DOMAIN f : <<n, f[n]>> \in W
  BY DEF Written
<1>2. ASSUME NEW n \in DOMAIN f PROVE f[n].keys \in UserKeys => f[n].keys \in K
  <2>1. <<n, f[n]>> \in W /\ <<n, f[n]>>[2] = f[n]
    BY <1>1
  <2> QED
    BY <2>1
<1> QED
  BY <1>2 DEF HasKeysOf

LEMMA SameConfig == ASSUME NEW c, IsConfig(c) PROVE MadeOf(c, c)
PROOF
  BY OwnKeys DEF MadeOf

\* A field of a configuration that is changed.
LEMMA FieldChanged ==
  ASSUME NEW c, IsConfig(c), NEW x
  PROVE  /\ [c EXCEPT !.broken = x] = [version |-> c.version, broken |-> x,
                                       hosts |-> c.hosts, aliases |-> c.aliases]
         /\ [c EXCEPT !.hosts = x] = [version |-> c.version, broken |-> c.broken,
                                      hosts |-> x, aliases |-> c.aliases]
         /\ [c EXCEPT !.aliases = x] = [version |-> c.version, broken |-> c.broken,
                                        hosts |-> c.hosts, aliases |-> x]
         /\ [c EXCEPT !.version = x] = [version |-> x, broken |-> c.broken,
                                        hosts |-> c.hosts, aliases |-> c.aliases]
PROOF
<1>1. \E v, b, h, a : c = [version |-> v, broken |-> b, hosts |-> h, aliases |-> a]
  BY DEF IsConfig
<1>2. PICK v, b, h, a : c = [version |-> v, broken |-> b, hosts |-> h, aliases |-> a]
  BY <1>1
<1>3. [c EXCEPT !.broken = x] = [version |-> v, broken |-> x, hosts |-> h, aliases |-> a]
  BY <1>2
<1>4. [c EXCEPT !.hosts = x] = [version |-> v, broken |-> b, hosts |-> x, aliases |-> a]
  BY <1>2
<1>5. [c EXCEPT !.aliases = x] = [version |-> v, broken |-> b, hosts |-> h, aliases |-> x]
  BY <1>2
<1>6. [c EXCEPT !.version = x] = [version |-> x, broken |-> b, hosts |-> h, aliases |-> a]
  BY <1>2
<1> QED
  BY <1>2, <1>3, <1>4, <1>5, <1>6

LEMMA FixedV3 == ASSUME NEW c, IsConfig(c) PROVE MadeOf(c, fixedV3(c))
PROOF
<1>1. [c EXCEPT !.broken = FALSE] = [version |-> c.version, broken |-> FALSE,
                                     hosts |-> c.hosts, aliases |-> c.aliases]
  BY FieldChanged
<1>2. MadeOf(c, [c EXCEPT !.broken = FALSE])
  BY <1>1, OwnKeys DEF MadeOf, IsConfig
<1> QED
  BY <1>2, SameConfig DEF fixedV3

\* New hosts and aliases with the keys of the old ones.
LEMMA NewHosts ==
  ASSUME NEW c, IsConfig(c), NEW f, HasKeysOf(f, ConfigKeys(c))
  PROVE  MadeOf(c, [c EXCEPT !.hosts = f])
PROOF
<1>1. [c EXCEPT !.hosts = f] = [version |-> c.version, broken |-> c.broken,
                                hosts |-> f, aliases |-> c.aliases]
  BY FieldChanged
<1> QED
  BY <1>1, OwnKeys DEF MadeOf, IsConfig

LEMMA NewBoth ==
  ASSUME NEW c, IsConfig(c), NEW f, NEW g,
         HasKeysOf(f, ConfigKeys(c)), HasKeysOf(g, ConfigKeys(c))
  PROVE  /\ MadeOf(c, [c EXCEPT !.hosts = f, !.aliases = g])
         /\ MadeOf(c, [c EXCEPT !.aliases = g, !.hosts = f])
PROOF
<1> DEFINE d == [c EXCEPT !.hosts = f]
           e == [c EXCEPT !.aliases = g]
<1>1. /\ [c EXCEPT !.hosts = f, !.aliases = g] = [d EXCEPT !.aliases = g]
      /\ [c EXCEPT !.aliases = g, !.hosts = f] = [e EXCEPT !.hosts = f]
  OBVIOUS
<1>2. /\ d = [version |-> c.version, broken |-> c.broken, hosts |-> f, aliases |-> c.aliases]
      /\ e = [version |-> c.version, broken |-> c.broken, hosts |-> c.hosts, aliases |-> g]
  BY FieldChanged
<1> HIDE DEF d, e
<1>3. /\ IsConfig(d) /\ d.version = c.version /\ d.broken = c.broken /\ d.hosts = f
      /\ IsConfig(e) /\ e.version = c.version /\ e.broken = c.broken /\ e.aliases = g
  BY <1>2 DEF IsConfig
<1>4. /\ [d EXCEPT !.aliases = g] =
           [version |-> c.version, broken |-> c.broken, hosts |-> f, aliases |-> g]
      /\ [e EXCEPT !.hosts = f] =
           [version |-> c.version, broken |-> c.broken, hosts |-> f, aliases |-> g]
  <2>1. [d EXCEPT !.aliases = g] =
          [version |-> d.version, broken |-> d.broken, hosts |-> d.hosts, aliases |-> g]
    BY <1>3, FieldChanged
  <2>2. [e EXCEPT !.hosts = f] =
          [version |-> e.version, broken |-> e.broken, hosts |-> f, aliases |-> e.aliases]
    BY <1>3, FieldChanged
  <2> QED
    BY <1>3, <2>1, <2>2
<1> QED
  BY <1>1, <1>4 DEF MadeOf, IsConfig

LEMMA FixedV6 ==
  ASSUME NEW c, IsConfig(c), NEW r \in fixedV6Hosts(c) PROVE MadeOf(c, r)
PROOF
<1> DEFINE W == {<<n, c.hosts[n]>> : n \in DOMAIN c.hosts \cap WithScheme}
                  \cup {<<Schemed(n), Entry(Schemed(n), c.hosts[n].keys)>> :
                          n \in DOMAIN c.hosts \cap Known}
<1>1. ASSUME NEW w \in W PROVE w[2].keys \in UserKeys => w[2].keys \in ConfigKeys(c)
  <2>1. \E n \in DOMAIN c.hosts : w[2].keys = c.hosts[n].keys
    BY DEF Entry
  <2> QED
    BY <2>1, OwnKeys DEF HasKeysOf
<1>2. CASE DOMAIN c.hosts \cap Known = {}
  BY <1>2, SameConfig DEF fixedV6Hosts
<1>3. CASE DOMAIN c.hosts \cap Known # {}
  <2>1. PICK f \in Written(W) : r = [c EXCEPT !.hosts = f]
    BY <1>3 DEF fixedV6Hosts
  <2> HIDE DEF W
  <2>2. HasKeysOf(f, ConfigKeys(c))
    BY <1>1, OneIsWritten
  <2> QED
    BY <2>1, <2>2, NewHosts
<1> QED
  BY <1>2, <1>3

LEMMA MigratedV1 ==
  ASSUME NEW c, IsConfig(c), NEW r \in migratedV1(c) PROVE MadeOf(c, r)
PROOF
<1> DEFINE examples == [n \in {"localhost:*", "127.0.0.1:*", "*.s3*.amazonaws.com"} |->
                          Entry(n, IF n = "*.s3*.amazonaws.com" THEN "default" ELSE "none")]
<1>1. HasKeysOf(examples, ConfigKeys(c))
  BY NoUserKeys DEF HasKeysOf, Entry
<1>2. r = [c EXCEPT !.hosts = WithDefaults(c.hosts, examples)]
  BY DEF migratedV1, IsConfig
<1> HIDE DEF examples
<1> QED
  BY <1>1, <1>2, OwnKeys, DefaultsAdded, NewHosts

LEMMA MigratedV3 ==
  ASSUME NEW c, IsConfig(c) PROVE MadeOf(c, [c EXCEPT !.hosts = Read3(c)])
PROOF
<1>1. CASE c.broken
  <2> DEFINE f == [n \in DOMAIN c.hosts |-> [c.hosts[n] EXCEPT !.keys = "none"]]
  <2>1. \A n \in DOMAIN f : f[n].keys \in UserKeys => f[n].keys \in ConfigKeys(c)
    <3>1. ASSUME NEW n \in DOMAIN f, f[n].keys \in UserKeys PROVE f[n].keys \in ConfigKeys(c)
      BY <3>1, NoUserKeys
    <3> QED
      BY <3>1
  <2>2. Read3(c) = f
    BY <1>1 DEF Read3
  <2> QED
    BY <2>1, <2>2, NewHosts DEF HasKeysOf
<1>2. CASE ~c.broken
  BY <1>2, OwnKeys, NewHosts DEF Read3
<1> QED
  BY <1>1, <1>2

LEMMA MigratedV5 ==
  ASSUME NEW c, IsConfig(c), NEW r \in migratedV5(c) PROVE MadeOf(c, r)
PROOF
<1> DEFINE others == Drop(c.hosts, NamesS3)
           userS3 == {n \in DOMAIN c.hosts \cap NamesS3 : c.hosts[n].keys \in UserKeys}
           amazon == IF userS3 = {} THEN {"default"} ELSE {c.hosts[n].keys : n \in userS3}
           new(keys) == [n \in {"*s3*amazonaws.com", "*storage.googleapis.com"} |->
                           Entry(n, IF n = "*s3*amazonaws.com" THEN keys ELSE "default")]
           gcs == [a \in {"gcs"} |-> Entry("https://storage.googleapis.com", "none")]
<1>1. PICK keys \in amazon :
        r = [c EXCEPT !.aliases = WithDefaults(c.aliases, gcs),
                      !.hosts = WithDefaults(others, new(keys))]
  BY DEF migratedV5, IsConfig
<1>2. keys \in UserKeys => keys \in ConfigKeys(c)
  <2>1. CASE userS3 = {}
    BY <2>1, NoUserKeys
  <2>2. CASE userS3 # {}
    BY <2>2, OwnKeys DEF HasKeysOf
  <2> QED
    BY <2>1, <2>2
<1>3. HasKeysOf(new(keys), ConfigKeys(c)) /\ HasKeysOf(gcs, ConfigKeys(c))
  BY <1>2, NoUserKeys DEF HasKeysOf, Entry
<1>4. HasKeysOf(others, ConfigKeys(c))
  BY OwnKeys, SomeDropped
<1> DEFINE h == new(keys)
<1>5. r = [c EXCEPT !.aliases = WithDefaults(c.aliases, gcs), !.hosts = WithDefaults(others, h)]
      /\ HasKeysOf(h, ConfigKeys(c))
  BY <1>1, <1>3
<1> HIDE DEF others, amazon, new, gcs, h
<1> QED
  BY <1>3, <1>4, <1>5, OwnKeys, DefaultsAdded, NewBoth

LEMMA MigratedV6 ==
  ASSUME NEW c, IsConfig(c), NEW r \in migratedV6(c) PROVE MadeOf(c, r)
PROOF
<1>1. PICK W, f :
        /\ f \in Written(W)
        /\ r = [c EXCEPT !.aliases = Empty, !.hosts = WithDefaults(f, DefaultsV7)]
        /\ \A w \in W : \E n \in DOMAIN c.hosts : w[2] = c.hosts[n]
  <2> DEFINE found == DOMAIN c.hosts
             own == [n \in found |->
                       IF n = "https://s3.amazonaws.com" THEN "s3"
                       ELSE IF n = "https://storage.googleapis.com" THEN "gcs" ELSE "cloud"]
             clouds == {n \in found : own[n] = "cloud"}
             numbered == {g \in [clouds -> 1..Cardinality(clouds)] :
                            \A m, n \in clouds : m # n => g[m] # g[n]}
             byAlias == {<<a, c.hosts[c.aliases[a].url]>> :
                           a \in {b \in DOMAIN c.aliases : c.aliases[b].url \in found}}
             label(g, n) == IF n \in clouds THEN Clouds[g[n]] ELSE own[n]
             byOwn(g) == {<<label(g, n), c.hosts[n]>> : n \in found}
  <2>1. migratedV6(c) =
          {[c EXCEPT !.aliases = Empty, !.hosts = WithDefaults(f, DefaultsV7)] :
             f \in UNION {Written(byAlias \cup byOwn(g)) : g \in numbered}}
    BY DEF migratedV6
  <2> HIDE DEF label, numbered
  <2>2. ASSUME NEW g, NEW w \in byAlias \cup byOwn(g)
        PROVE  \E n \in DOMAIN c.hosts : w[2] = c.hosts[n]
    OBVIOUS
  <2> HIDE DEF byAlias, byOwn
  <2>3. PICK f \in UNION {Written(byAlias \cup byOwn(g)) : g \in numbered} :
          r = [c EXCEPT !.aliases = Empty, !.hosts = WithDefaults(f, DefaultsV7)]
    BY <2>1
  <2>4. PICK g \in numbered : f \in Written(byAlias \cup byOwn(g))
    OBVIOUS
  <2> QED
    BY <2>2, <2>3, <2>4
<1>2. HasKeysOf(f, ConfigKeys(c))
  <2>1. ASSUME NEW w \in W PROVE w[2].keys \in UserKeys => w[2].keys \in ConfigKeys(c)
    BY <1>1, OwnKeys DEF HasKeysOf
  <2> QED
    BY <1>1, <2>1, OneIsWritten
<1>3. HasKeysOf(WithDefaults(f, DefaultsV7), ConfigKeys(c)) /\ HasKeysOf(Empty, ConfigKeys(c))
  BY <1>2, DefaultsHaveNone, DefaultsAdded
<1> QED
  BY <1>1, <1>3, NewBoth

LEMMA MigratedLater ==
  ASSUME NEW c, IsConfig(c), NEW r,
         r \in migratedV7(c) \/ r \in migratedV8(c) \/ r \in migratedV9(c)
  PROVE  MadeOf(c, r)
PROOF
<1> DEFINE K == ConfigKeys(c)
<1>1. HasKeysOf(Drop(c.hosts, Reserved), K) /\ HasKeysOf(c.hosts, K)
  BY OwnKeys, SomeDropped
<1>2. HasKeysOf(WithDefaults(Drop(c.hosts, Reserved), DefaultsV8), K)
  BY <1>1, DefaultsHaveNone, DefaultsAdded
<1>3. CASE r \in migratedV7(c)
  BY <1>2, <1>3, NewHosts DEF migratedV7
<1>4. CASE r \in migratedV8(c)
  BY <1>1, <1>4, NewHosts DEF migratedV8
<1>5. CASE r \in migratedV9(c)
  <2> DEFINE g == IF c.hosts = Empty THEN DefaultsV10 ELSE c.hosts
  <2>1. HasKeysOf(g, K) /\ HasKeysOf(Empty, K)
    BY <1>1, DefaultsHaveNone DEF DefaultsV10
  <2>2. r = [c EXCEPT !.hosts = Empty, !.aliases = g]
    BY <1>5 DEF migratedV9
  <2> HIDE DEF g
  <2> QED
    BY <2>1, <2>2, NewBoth
<1> QED
  BY <1>3, <1>4, <1>5

\* The next version, or a later one.
LEMMA NewerVersion ==
  ASSUME NEW old \in {Old[i] : i \in DOMAIN Old}
  PROVE  newVersion(old) \in ConfigVersions
PROOF
<1>1. DOMAIN Old = 1..10 /\ Old[10] = "9"
  BY DEF Old
<1>2. CASE old \in {"7", "9"}
  BY <1>2 DEF newVersion, ConfigVersions
<1>3. CASE old \notin {"7", "9"}
  <2> DEFINE i == CHOOSE n \in DOMAIN Old : Old[n] = old
  <2>1. i \in DOMAIN Old /\ Old[i] = old
    OBVIOUS
  <2>2. newVersion(old) = Old[i + 1]
    BY <1>3 DEF newVersion
  <2> HIDE DEF i
  <2>3. i + 1 \in DOMAIN Old
    <3>1. i # 10
      BY <1>1, <1>3, <2>1
    <3> QED
      BY <1>1, <2>1, <3>1
  <2> QED
    BY <2>2, <2>3 DEF ConfigVersions
<1> QED
  BY <1>2, <1>3

\* What a migration makes of the file, but for the version.
Conversion(c, m) ==
  CASE c.version = "1.0.0" -> m \in migratedV1(c)
    [] c.version = "3" -> m = [c EXCEPT !.hosts = Read3(c)]
    [] c.version = "5" -> m \in migratedV5(c)
    [] c.version = "6" -> m \in migratedV6(c)
    [] c.version = "7" -> m \in migratedV7(c)
    [] c.version = "8" -> m \in migratedV8(c)
    [] c.version = "9" -> m \in migratedV9(c)
    [] OTHER -> m = c

LEMMA MigratedFrom ==
  ASSUME NEW c, IsConfig(c), NEW r \in migrated(c)
  PROVE  \E m : /\ Conversion(c, m) /\ MadeOf(c, m) /\ IsConfig(r)
                /\ r.version = newVersion(c.version) /\ r.broken = FALSE
                /\ r.hosts = m.hosts /\ r.aliases = m.aliases
PROOF
<1>1. \E m : Conversion(c, m) /\ r = [m EXCEPT !.version = newVersion(c.version), !.broken = FALSE]
  BY DEF migrated, Conversion
<1>2. PICK m : /\ Conversion(c, m)
               /\ r = [m EXCEPT !.version = newVersion(c.version), !.broken = FALSE]
  BY <1>1
<1>3. MadeOf(c, m)
  <2>1. \/ m \in migratedV1(c) \/ m = [c EXCEPT !.hosts = Read3(c)] \/ m \in migratedV5(c)
        \/ m \in migratedV6(c) \/ m \in migratedV7(c) \/ m \in migratedV8(c)
        \/ m \in migratedV9(c) \/ m = c
    BY <1>2 DEF Conversion
  <2> QED
    BY <2>1, MigratedV1, MigratedV3, MigratedV5, MigratedV6, MigratedLater, SameConfig
<1> DEFINE v == newVersion(c.version)
           d == [m EXCEPT !.version = v]
<1>4. r = [d EXCEPT !.broken = FALSE]
  BY <1>2
<1>5. d = [version |-> v, broken |-> m.broken, hosts |-> m.hosts, aliases |-> m.aliases]
  BY <1>3, FieldChanged DEF MadeOf
<1> HIDE DEF d, v
<1>6. IsConfig(d) /\ d.version = v /\ d.hosts = m.hosts /\ d.aliases = m.aliases
  BY <1>5 DEF IsConfig
<1>7. r = [version |-> d.version, broken |-> FALSE, hosts |-> d.hosts, aliases |-> d.aliases]
  BY <1>4, <1>6, FieldChanged
<1>8. IsConfig(r) /\ r.version = v /\ r.broken = FALSE /\ r.hosts = m.hosts /\ r.aliases = m.aliases
  BY <1>6, <1>7 DEF IsConfig
<1> QED
  BY <1>2, <1>3, <1>8 DEF v

LEMMA Migrated ==
  ASSUME NEW c, IsConfig(c), c.version \in {Old[i] : i \in DOMAIN Old}, NEW r \in migrated(c)
  PROVE  IsConfig(r) /\ r.version \in ConfigVersions /\ ConfigKeys(r) \subseteq ConfigKeys(c)
PROOF
<1>1. PICK m : /\ MadeOf(c, m) /\ IsConfig(r) /\ r.version = newVersion(c.version)
               /\ r.hosts = m.hosts /\ r.aliases = m.aliases
  BY MigratedFrom
<1>2. newVersion(c.version) \in ConfigVersions /\ ConfigKeys(m) \subseteq ConfigKeys(c)
  BY <1>1, NewerVersion, MadeKeys
<1> QED
  BY <1>1, <1>2 DEF ConfigKeys

LEMMA ConfigInitOK == ConfigInit => ConfigOK
PROOF
<1> SUFFICES ASSUME ConfigInit PROVE ConfigOK
  OBVIOUS
<1>1. ConfigFileOK /\ RefusedOK
  BY ConfigAssumption DEF ConfigInit, ConfigFileOK, RefusedOK, IsConfig
<1>2. ConfigNumbersOK
  BY StartsBounded DEF ConfigInit, ConfigNumbersOK, Old
<1> QED
  BY <1>1, <1>2 DEF ConfigOK

\* A configuration that is written anew with aliases.
LEMMA Remade ==
  ASSUME NEW v, NEW f
  PROVE  /\ IsConfig(File(v, f)) /\ File(v, f).version = v
         /\ \A K : HasKeysOf(f, K) => ConfigKeys(File(v, f)) \subseteq K
PROOF
<1>1. IsConfig(File(v, f)) /\ File(v, f).version = v
  BY DEF File, IsConfig
<1>2. File(v, f).hosts = Empty /\ File(v, f).aliases = f
  BY DEF File
<1>3. ASSUME NEW K, HasKeysOf(f, K) PROVE ConfigKeys(File(v, f)) \subseteq K
  BY <1>2, <1>3, DefaultsHaveNone, KeysAreIn DEF ConfigKeys
<1> QED
  BY <1>1, <1>3

\* What a function makes of the file.
LEMMA ConfigFileStep == ConfigOK /\ [ConfigNext]_configVars => ConfigFileOK'
PROOF
<1> SUFFICES ASSUME ConfigOK, [ConfigNext]_configVars PROVE ConfigFileOK'
  OBVIOUS
<1>1. IsConfig(config) /\ config.version \in ConfigVersions /\ ConfigKeys(config) \subseteq ConfigKeys(first)
  BY DEF ConfigOK, ConfigFileOK
<1>2. first' = first
  BY DEF ConfigNext, configVars, StartMc, fixConfigV3, fixConfigV6, fixConfigV6ForHosts,
         migrateConfig, initMC, EndMc, setAlias, removeAlias, SaveAliases
<1>3. ASSUME NEW d, config' = d, IsConfig(d), d.version \in ConfigVersions,
             ConfigKeys(d) \subseteq ConfigKeys(config)
      PROVE  ConfigFileOK'
  BY <1>1, <1>2, <1>3 DEF ConfigFileOK, IsConfig, ConfigKeys, KeysIn
<1>4. ASSUME NEW d, config' = d, MadeOf(config, d) PROVE ConfigFileOK'
  <2>1. ConfigKeys(d) \subseteq ConfigKeys(config)
    BY <1>4, MadeKeys
  <2> QED
    BY <1>1, <1>3, <1>4, <2>1 DEF MadeOf
<1>5. CASE config' = config
  BY <1>1, <1>2, <1>5 DEF ConfigFileOK, IsConfig, ConfigKeys, KeysIn
<1>6. CASE fixConfigV3
  <2>1. MadeOf(config, fixedV3(config))
    BY <1>1, FixedV3
  <2> DEFINE d == fixedV3(config)
  <2>2. config' = d \/ config' = config
    BY <1>6 DEF fixConfigV3
  <2> HIDE DEF d
  <2> QED
    BY <1>4, <1>5, <2>1, <2>2 DEF d
<1>7. CASE fixConfigV6ForHosts
  <2>1. PICK d : config' = d /\ (d \in fixedV6Hosts(config) \/ d = config)
    BY <1>7 DEF fixConfigV6ForHosts
  <2>2. d \in fixedV6Hosts(config) => MadeOf(config, d)
    BY <1>1, FixedV6
  <2> QED
    BY <1>4, <1>5, <2>1, <2>2
<1>8. CASE migrateConfig
  <2>1. CASE config.version = Old[step - 3]
    <3>1. step \in 4..(3 + Len(Old))
      BY <1>8 DEF migrateConfig
    <3>5. PICK d : config' = d /\ d \in migrated(config)
      BY <1>8, <2>1 DEF migrateConfig
    <3>2. DOMAIN Old = 1..10 /\ Len(Old) = 10
      BY DEF Old
    <3>3. config.version \in {Old[i] : i \in DOMAIN Old}
      <4>1. step - 3 \in DOMAIN Old
        BY <3>1, <3>2
      <4> QED
        BY <2>1, <4>1
    <3>4. IsConfig(d) /\ d.version \in ConfigVersions /\ ConfigKeys(d) \subseteq ConfigKeys(config)
      BY <1>1, <3>3, <3>5, Migrated
    <3> QED
      BY <1>3, <3>4, <3>5
  <2>2. CASE config.version # Old[step - 3]
    BY <1>5, <1>8, <2>2 DEF migrateConfig
  <2> QED
    BY <2>1, <2>2
<1>9. CASE initMC
  <2>1. CASE config = NoConfig
    <3>1. PICK d : config' = d /\ d = File(globalMCConfigVersion, DefaultsV10)
      BY <1>9, <2>1 DEF initMC
    <3>2. HasKeysOf(DefaultsV10, ConfigKeys(config))
      BY DefaultsHaveNone DEF DefaultsV10
    <3>3. IsConfig(d) /\ d.version = globalMCConfigVersion /\ ConfigKeys(d) \subseteq ConfigKeys(config)
      BY <3>1, <3>2, Remade
    <3> QED
      BY <1>3, <3>1, <3>3 DEF ConfigVersions
  <2>2. CASE config # NoConfig
    BY <1>5, <1>9, <2>2 DEF initMC
  <2> QED
    BY <2>1, <2>2
<1>10. ASSUME NEW aliases, SaveAliases(aliases), HasKeysOf(aliases, ConfigKeys(config))
       PROVE  ConfigFileOK'
  <2>1. PICK d : config' = d /\ d = File(config.version, aliases)
    BY <1>10 DEF SaveAliases
  <2>2. IsConfig(d) /\ d.version = config.version /\ ConfigKeys(d) \subseteq ConfigKeys(config)
    BY <1>10, <2>1, Remade
  <2> QED
    BY <1>1, <1>3, <2>1, <2>2
<1>11. CASE setAlias
  <2> DEFINE aliases == [a \in DOMAIN config.aliases \cup {"new"} |->
                           IF a = "new" THEN Entry("https://new.org", "none")
                           ELSE config.aliases[a]]
  <2>1. HasKeysOf(aliases, ConfigKeys(config))
    BY OwnKeys, NoUserKeys DEF HasKeysOf, Entry
  <2>2. SaveAliases(aliases)
    BY <1>11 DEF setAlias
  <2>3. PICK f : f = aliases
    OBVIOUS
  <2>4. SaveAliases(f) /\ HasKeysOf(f, ConfigKeys(config))
    BY <2>1, <2>2, <2>3
  <2> HIDE DEF aliases
  <2> QED
    BY <1>10, <2>4
<1>12. CASE removeAlias
  <2>1. PICK f : f = Drop(config.aliases, {"gcs"})
    OBVIOUS
  <2>2. SaveAliases(f) /\ HasKeysOf(f, ConfigKeys(config))
    BY <1>12, <2>1, OwnKeys, SomeDropped DEF removeAlias
  <2> QED
    BY <1>10, <2>2
<1> QED
  BY <1>2, <1>5, <1>6, <1>7, <1>8, <1>9, <1>11, <1>12
     DEF ConfigNext, configVars, StartMc, fixConfigV6, EndMc

LEMMA ConfigNumbersStep ==
  ConfigOK /\ [ConfigNext]_configVars => ConfigNumbersOK' /\ RefusedOK'
PROOF
<1> SUFFICES ASSUME ConfigOK, [ConfigNext]_configVars PROVE ConfigNumbersOK' /\ RefusedOK'
  OBVIOUS
<1>1. Len(Old) = 10 /\ MaxStarts \in Nat
  BY StartsBounded DEF Old
<1>2. /\ step \in 0..15 /\ starts \in 0..MaxStarts /\ commands \in Nat
      /\ commands + (IF step > 0 THEN 1 ELSE 0) <= starts
  BY <1>1 DEF ConfigOK, ConfigNumbersOK
<1>3. \/ step = 0 /\ starts < MaxStarts /\ step' = 1 /\ starts' = starts + 1 /\ commands' = commands
      \/ step > 0 /\ step' \in 0..15 /\ starts' = starts /\ commands' = commands
      \/ step > 0 /\ step' = 0 /\ starts' = starts /\ commands' = commands + 1
      \/ step' = step /\ starts' = starts /\ commands' = commands
  BY <1>1, <1>2 DEF ConfigNext, configVars, StartMc, fixConfigV3, fixConfigV6,
         fixConfigV6ForHosts, migrateConfig, initMC, EndMc, setAlias, removeAlias, SaveAliases,
         Ready
<1>4. ConfigNumbersOK'
  BY <1>1, <1>2, <1>3 DEF ConfigNumbersOK, Old
<1>5. RefusedOK'
  BY DEF ConfigOK, RefusedOK, ConfigNext, configVars, StartMc, fixConfigV3, fixConfigV6,
         fixConfigV6ForHosts, migrateConfig, initMC, EndMc, setAlias, removeAlias, SaveAliases
<1> QED
  BY <1>4, <1>5

\* The file has a version that mc knows, and all of its keys are the user's, who
\* had put them there before: ConfigTypeOK.
THEOREM ConfigTypeCorrect == ConfigSpec => []ConfigTypeOK
PROOF
<1>1. ConfigOK => ConfigTypeOK
  <2> SUFFICES ASSUME ConfigOK PROVE ConfigTypeOK
    OBVIOUS
  <2>1. commands \in 0..MaxStarts /\ step \in 0..(5 + Len(Old)) /\ starts \in 0..MaxStarts
    BY StartsBounded DEF ConfigOK, ConfigNumbersOK
  <2> QED
    BY <2>1 DEF ConfigTypeOK, ConfigOK, ConfigFileOK, RefusedOK, ConfigKeys
<1>2. ConfigOK /\ [ConfigNext]_configVars => ConfigOK'
  BY ConfigFileStep, ConfigNumbersStep DEF ConfigOK
<1> QED
  BY <1>1, <1>2, ConfigInitOK, PTL DEF ConfigSpec

-----------------------------------------------------------------------------
(***************************************************************************)
(* KeysKept: where the keys of the user are, version by version.  Below, f *)
(* is the first file and c the present one.                                *)
(***************************************************************************)
Before6 == {"1.0.0", "1.0.1", "2", "3", "4", "5"}
Added == Glob \cup {Schemed(n) : n \in Known}
CloudSet == {Clouds[i] : i \in DOMAIN Clouds}
KeysOwed(f) == ConfigKeys(f) \ MayLose(f)
Few(f, c) == DOMAIN c.hosts \subseteq DOMAIN f.hosts \cup Added

\* Up to version 5 the hosts are those of the first file, and examples without
\* keys of the user.
SameAs(f, c) ==
  /\ c.aliases = f.aliases
  /\ c.hosts = [n \in DOMAIN c.hosts |-> Entry(c.hosts[n].url, c.hosts[n].keys)]
  /\ \A n \in DOMAIN f.hosts : n \in DOMAIN c.hosts /\ c.hosts[n].keys = f.hosts[n].keys
  /\ \A n \in DOMAIN c.hosts \ DOMAIN f.hosts : c.hosts[n].keys \notin UserKeys

\* In version 6 a host has keys that no other host of its name takes the place of.
Labels(n) == IF n = "https://s3.amazonaws.com" THEN {"s3"}
             ELSE IF n = "https://storage.googleapis.com" THEN {"gcs"} ELSE CloudSet
HoldsSafely(c, n, key) ==
  /\ n \in DOMAIN c.hosts /\ c.hosts[n].keys = key
  /\ \A a \in DOMAIN c.aliases : c.aliases[a].url \in DOMAIN c.hosts \ {n} => a \notin Labels(n)
SafeSix(f, c) == \A key \in KeysOwed(f) : \E n \in DOMAIN c.hosts : HoldsSafely(c, n, key)
StageSix(f, c) ==
  \/ f.version \in Before6 /\ SafeSix(f, c) /\ DOMAIN c.hosts \cap Glob # {}
  \/ f.version = "6" /\ c.hosts = f.hosts /\ c.aliases = f.aliases
  \/ f.version = "6" /\ SafeSix(f, c) /\ DOMAIN c.hosts \cap (Known \cup Glob) = {}

\* In version 7 it has a name of its own that is not reserved, and until version
\* 10 it keeps it.
HasKey(f, S, key) == \E a \in DOMAIN f \ S : f[a].keys = key
HasSame(f, g, key) == \E a \in DOMAIN f \cap DOMAIN g : f[a].keys = key /\ g[a].keys = key
\* Where the alias of the first file is.
FirstAliases(f) == IF f.version = globalMCConfigVersion THEN f.aliases ELSE f.hosts
StageTen(f, c, n) ==
  \/ f.version \in Before6 \cup {"6", "7"} /\ (n > 0 \/ \A key \in KeysOwed(f) : HasKey(c.hosts, {}, key))
  \/ f.version \in {"8", "9", globalMCConfigVersion} /\ \A key \in KeysOwed(f) :
       (n > 0 /\ key \in KeysReplaced(f)) \/ HasSame(FirstAliases(f), c.aliases, key)
  \/ f = NoConfig

StageOf(f, c, n) ==
  /\ c.version \in Before6 => f.version \in Before6 /\ SameAs(f, c) /\ Few(f, c)
  /\ c.version = "6" => Few(f, c) /\ StageSix(f, c)
  /\ c.version = "7" => /\ f.version \in Before6 \cup {"6", "7"}
                        /\ \A key \in KeysOwed(f) : HasKey(c.hosts, Reserved, key)
  /\ c.version = "8" => f.version = "8" /\ c.hosts = f.hosts
  /\ c.version = "9" => /\ f.version \in {"8", "9"}
                        /\ \A key \in KeysOwed(f) : HasSame(f.hosts, c.hosts, key)
  /\ c.version = globalMCConfigVersion => StageTen(f, c, n)
  /\ c.version = "" => c = NoConfig /\ f = NoConfig

\* A start passes the function that migrates a version before that of the next;
\* a file that a killed mc has left in version 6 stops the next one.
PlaceInv ==
  /\ \A i \in DOMAIN Old : config.version = Old[i] => step <= i + 3
  /\ config.version = "" => step < 15
  /\ config.broken \in BOOLEAN
  /\ config.version = "3" /\ config.broken = TRUE /\ step > 1 =>
       \A n \in DOMAIN config.hosts : config.hosts[n].keys = "none"
  /\ config.version = "6" /\ first.version \in Before6 =>
       starts >= 1 /\ step \notin 3..9 /\ (step \in {1, 2} => starts > 1)
  /\ config.version = "6" /\ first.version = "6" /\ step > 3 => DOMAIN config.hosts \cap Known = {}
RefusedInv ==
  refused => \/ first.version = "6" /\ DOMAIN first.hosts \cap Glob # {}
             \/ starts > 1 /\ first.version \in Before6
KeysInv == first \in Configs /\ StageOf(first, config, commands) /\ PlaceInv /\ RefusedInv

LEMMA VersionsApart == /\ DOMAIN Old = 1..10 /\ Len(Old) = 10
                       /\ Old[1] = "1.0.0" /\ Old[2] = "1.0.1" /\ Old[3] = "2" /\ Old[4] = "3"
                       /\ Old[5] = "4" /\ Old[6] = "5" /\ Old[7] = "6" /\ Old[8] = "7"
                       /\ Old[9] = "8" /\ Old[10] = "9"
PROOF
  BY DEF Old

LEMMA NewVersions ==
  /\ newVersion("1.0.0") = "1.0.1" /\ newVersion("1.0.1") = "2" /\ newVersion("2") = "3"
  /\ newVersion("3") = "4" /\ newVersion("4") = "5" /\ newVersion("5") = "6"
  /\ newVersion("6") = "7" /\ newVersion("7") = "10" /\ newVersion("8") = "9"
  /\ newVersion("9") = "10"
PROOF
<1>1. ASSUME NEW old \in {"1.0.0", "1.0.1", "2", "3", "4", "5", "6", "8"},
             NEW n \in 1..9, Old[n] = old
      PROVE  newVersion(old) = Old[n + 1]
  <2>1. \A i \in DOMAIN Old : Old[i] = old => i = n
    BY <1>1, VersionsApart
  <2>2. (CHOOSE i \in DOMAIN Old : Old[i] = old) = n
    BY <1>1, <2>1, VersionsApart
  <2> QED
    BY <2>2 DEF newVersion
<1>2. newVersion("7") = "10" /\ newVersion("9") = "10"
  BY DEF newVersion, globalMCConfigVersion
<1> QED
  BY <1>1, <1>2, VersionsApart

\* What is known of a file that mc finds.
LEMMA FirstFile ==
  ASSUME NEW f \in Configs
  PROVE  /\ IsConfig(f) /\ f.version \in ConfigVersions /\ f.broken \in BOOLEAN
         /\ f.version = "" => f = NoConfig
         /\ f.version = globalMCConfigVersion => KeysIn(f.hosts) = {}
         /\ f.version # globalMCConfigVersion => KeysIn(f.aliases) = {}
         /\ f.hosts = [n \in DOMAIN f.hosts |-> Entry(f.hosts[n].url, f.hosts[n].keys)]
         /\ IsFiniteSet(DOMAIN f.hosts \cup Added)
         /\ Cardinality(DOMAIN f.hosts \cup Added) <= Len(Clouds)
PROOF
<1>1. DOMAIN f.hosts \cup Glob \cup {Schemed(n) : n \in Known} = DOMAIN f.hosts \cup Added
  BY DEF Added
<1>2. /\ f = [version |-> f.version, broken |-> f.broken, hosts |-> f.hosts, aliases |-> f.aliases]
      /\ f.version \in ConfigVersions /\ f.broken \in BOOLEAN
      /\ f.version = "" => f = NoConfig
      /\ IF f.version = globalMCConfigVersion THEN KeysIn(f.hosts) = {} ELSE KeysIn(f.aliases) = {}
      /\ f.hosts = [n \in DOMAIN f.hosts |-> Entry(f.hosts[n].url, f.hosts[n].keys)]
      /\ LET all == DOMAIN f.hosts \cup Glob \cup {Schemed(n) : n \in Known}
         IN IsFiniteSet(all) /\ Cardinality(all) <= Len(Clouds)
  BY ConfigAssumption
<1> QED
  BY <1>1, <1>2 DEF IsConfig

LEMMA CloudsApart ==
  /\ Clouds \in Seq(CloudSet) /\ Len(Clouds) \in Nat /\ DOMAIN Clouds = 1..Len(Clouds)
  /\ \A i, j \in DOMAIN Clouds : Clouds[i] = Clouds[j] => i = j
  /\ CloudSet \cap ({"s3", "gcs"} \cup Reserved) = {}
PROOF
<1>1. /\ Clouds \in Seq({Clouds[i] : i \in DOMAIN Clouds})
      /\ \A i, j \in DOMAIN Clouds : Clouds[i] = Clouds[j] => i = j
      /\ \A i \in DOMAIN Clouds : Clouds[i] \notin {"s3", "gcs", "player", "dl", "play"}
  BY ConfigAssumption
<1>2. Clouds \in Seq(CloudSet)
  BY <1>1 DEF CloudSet
<1>3. CloudSet \cap ({"s3", "gcs"} \cup Reserved) = {}
  BY <1>1 DEF CloudSet, Reserved
<1> QED
  BY <1>1, <1>2, <1>3

\* What the keys that are owed are keys of.
LEMMA OwedBefore6 ==
  ASSUME NEW f \in Configs, f.version \in Before6, NEW key \in KeysOwed(f)
  PROVE  /\ key \in UserKeys /\ \E n \in DOMAIN f.hosts : f.hosts[n].keys = key
         /\ \A n \in DOMAIN f.hosts : f.hosts[n].keys = key => n \notin SameName(f)
         /\ \A n \in DOMAIN f.hosts \cap NamesS3 : f.hosts[n].keys = key =>
              \A m \in DOMAIN f.hosts \cap NamesS3 :
                f.hosts[m].keys \in UserKeys => f.hosts[m].keys = key
PROOF
<1>1. KeysIn(f.aliases) = {} /\ f.version \notin {"", "6", "7", "8", "9", "10"}
  BY FirstFile DEF Before6, globalMCConfigVersion
<1> DEFINE userS3 == KeysAt(f, NamesS3)
<1>2. MayLose(f) = KeysAt(f, SameName(f)) \cup IF \E k, l \in userS3 : k # l THEN userS3 ELSE {}
  BY <1>1 DEF MayLose, globalMCConfigVersion
<1>3. key \in KeysIn(f.hosts) /\ key \notin KeysAt(f, SameName(f))
      /\ (key \in userS3 => \A k \in userS3 : k = key)
  <2> HIDE DEF userS3
  <2> QED
    BY <1>1, <1>2 DEF KeysOwed, ConfigKeys
<1> QED
  BY <1>3 DEF KeysIn, KeysAt

LEMMA Owed6 ==
  ASSUME NEW f \in Configs, f.version = "6", NEW key \in KeysOwed(f)
  PROVE  /\ key \in UserKeys
         /\ \E n \in DOMAIN f.hosts : f.hosts[n].keys = key
         /\ \A n \in DOMAIN f.hosts : f.hosts[n].keys = key =>
              /\ n \notin SameName(f) /\ n \in WithScheme \cup Known
              /\ n \in Known => Schemed(n) \notin DOMAIN f.hosts
              /\ \A m \in DOMAIN f.hosts \cap Known : Schemed(m) # n
PROOF
<1> DEFINE fixed == {n \in DOMAIN f.hosts \cap Known : Schemed(n) \in DOMAIN f.hosts}
           S == SameName(f) \cup fixed \cup {Schemed(n) : n \in fixed}
                  \cup (DOMAIN f.hosts \ (WithScheme \cup Known))
<1>1. KeysIn(f.aliases) = {} /\ f.version \notin {"", "7", "8", "9", "10"}
  BY FirstFile DEF globalMCConfigVersion
<1>2. MayLose(f) = KeysAt(f, S)
  BY <1>1 DEF MayLose, globalMCConfigVersion
<1>3. key \in KeysIn(f.hosts) /\ key \notin KeysAt(f, S)
  <2> HIDE DEF S
  <2> QED
    BY <1>1, <1>2 DEF KeysOwed, ConfigKeys
<1>4. ASSUME NEW n \in DOMAIN f.hosts, f.hosts[n].keys = key PROVE n \notin S
  <2> HIDE DEF S
  <2> QED
    BY <1>3, <1>4 DEF KeysIn, KeysAt
<1>5. key \in UserKeys /\ \E n \in DOMAIN f.hosts : f.hosts[n].keys = key
  BY <1>3 DEF KeysIn
<1> QED
  BY <1>4, <1>5

LEMMA OwedLater ==
  ASSUME NEW f \in Configs, f.version \in {"7", "8", "9", globalMCConfigVersion}, NEW key \in KeysOwed(f)
  PROVE  /\ \E a \in DOMAIN FirstAliases(f) : FirstAliases(f)[a].keys = key
         /\ f.version \in {"7", "8"} =>
              \A a \in DOMAIN f.hosts : f.hosts[a].keys = key => a \notin Reserved
         /\ \A a \in DOMAIN FirstAliases(f) \cap Replaced : FirstAliases(f)[a].keys = key =>
              key \in KeysReplaced(f)
PROOF
<1>1. key \in KeysIn(FirstAliases(f))
  <2>1. key \in ConfigKeys(f)
    BY DEF KeysOwed
  <2>2. CASE f.version = globalMCConfigVersion
    <3>1. KeysIn(f.hosts) = {}
      BY <2>2, FirstFile
    <3> QED
      BY <2>1, <2>2, <3>1 DEF ConfigKeys, FirstAliases
  <2>3. CASE f.version # globalMCConfigVersion
    <3>1. KeysIn(f.aliases) = {}
      BY <2>3, FirstFile
    <3> QED
      BY <2>1, <2>3, <3>1 DEF ConfigKeys, FirstAliases
  <2> QED
    BY <2>2, <2>3
<1>2. f.version \in {"7", "8"} => key \notin KeysAt(f, Reserved)
  <2> SUFFICES ASSUME f.version \in {"7", "8"} PROVE key \notin KeysAt(f, Reserved)
    OBVIOUS
  <2>1. f.version \notin {"", "6", "9", "10"}
    OBVIOUS
  <2>2. MayLose(f) = KeysAt(f, Reserved)
    BY <2>1 DEF MayLose, globalMCConfigVersion
  <2> QED
    BY <2>2 DEF KeysOwed
<1> QED
  BY <1>1, <1>2 DEF KeysIn, KeysAt, KeysReplaced, FirstAliases

\* A conversion up to version 5 leaves the keys of the hosts.
LEMMA ExamplesAdded ==
  ASSUME NEW f, NEW c, IsConfig(c), SameAs(f, c), Few(f, c), NEW r \in migratedV1(c)
  PROVE  SameAs(f, r) /\ Few(f, r)
PROOF
<1> DEFINE examples == [n \in {"localhost:*", "127.0.0.1:*", "*.s3*.amazonaws.com"} |->
                          Entry(n, IF n = "*.s3*.amazonaws.com" THEN "default" ELSE "none")]
           all == WithDefaults(c.hosts, examples)
<1>1. r = [c EXCEPT !.hosts = all]
  BY DEF migratedV1, IsConfig
<1>2. /\ DOMAIN examples \subseteq Glob
      /\ \A n \in DOMAIN examples : /\ examples[n] = Entry(examples[n].url, examples[n].keys)
                                    /\ examples[n].keys \notin UserKeys
  BY NoUserKeys DEF Glob, Entry
<1>3. r.hosts = all /\ r.aliases = c.aliases
  <2> HIDE DEF all
  <2>1. r = [version |-> c.version, broken |-> c.broken, hosts |-> all, aliases |-> c.aliases]
    BY <1>1, FieldChanged
  <2> QED
    BY <2>1
<1> HIDE DEF examples
<1>4. /\ DOMAIN all = DOMAIN c.hosts \cup DOMAIN examples
      /\ \A n \in DOMAIN c.hosts : all[n] = c.hosts[n]
      /\ \A n \in DOMAIN examples \ DOMAIN c.hosts : all[n] = examples[n]
      /\ all = [n \in DOMAIN all |-> all[n]]
  BY DEF WithDefaults
<1> HIDE DEF all
<1>5. \A n \in DOMAIN all : all[n] = Entry(all[n].url, all[n].keys)
  BY <1>2, <1>4 DEF SameAs
<1>6. all = [n \in DOMAIN all |-> Entry(all[n].url, all[n].keys)]
  BY <1>4, <1>5
<1>7. \A n \in DOMAIN f.hosts : n \in DOMAIN all /\ all[n].keys = f.hosts[n].keys
  BY <1>4 DEF SameAs
<1>8. \A n \in DOMAIN all \ DOMAIN f.hosts : all[n].keys \notin UserKeys
  BY <1>2, <1>4 DEF SameAs
<1>9. DOMAIN all \subseteq DOMAIN f.hosts \cup Added
  BY <1>2, <1>4 DEF Few, Added
<1> QED
  BY <1>3, <1>6, <1>7, <1>8, <1>9 DEF SameAs, Few

LEMMA HiddenRead ==
  ASSUME NEW f, NEW c, IsConfig(c), SameAs(f, c), Few(f, c),
         c.broken = TRUE => \A n \in DOMAIN c.hosts : c.hosts[n].keys = "none",
         c.broken \in BOOLEAN,
         NEW r, r = [c EXCEPT !.hosts = Read3(c)]
  PROVE  SameAs(f, r) /\ Few(f, r)
PROOF
<1> DEFINE hidden == [n \in DOMAIN c.hosts |-> [c.hosts[n] EXCEPT !.keys = "none"]]
<1>1. Read3(c) = c.hosts
  <2>1. CASE c.broken = TRUE
    <3>1. \A n \in DOMAIN c.hosts : [c.hosts[n] EXCEPT !.keys = "none"] = c.hosts[n]
      <4>1. ASSUME NEW n \in DOMAIN c.hosts PROVE [c.hosts[n] EXCEPT !.keys = "none"] = c.hosts[n]
        <5>1. c.hosts[n] = [url |-> c.hosts[n].url, keys |-> c.hosts[n].keys]
          BY DEF SameAs, Entry
        <5> QED
          BY <2>1, <5>1
      <4> QED
        BY <4>1
    <3>2. hidden = [n \in DOMAIN c.hosts |-> c.hosts[n]]
      BY <3>1
    <3> QED
      BY <2>1, <3>2 DEF SameAs, Read3
  <2>2. CASE c.broken = FALSE
    BY <2>2 DEF Read3
  <2> QED
    BY <2>1, <2>2
<1>2. r = c
  BY <1>1 DEF IsConfig
<1> QED
  BY <1>2

\* Version 5: the keys of one host with s3 in its name get a place of their own.
LEMMA CollapsedSafely ==
  ASSUME NEW f \in Configs, f.version \in Before6, NEW c, IsConfig(c), SameAs(f, c), Few(f, c),
         NEW r \in migratedV5(c)
  PROVE  SafeSix(f, r) /\ Few(f, r) /\ DOMAIN r.hosts \cap Glob # {}
PROOF
<1> DEFINE others == Drop(c.hosts, NamesS3)
           userS3 == {n \in DOMAIN c.hosts \cap NamesS3 : c.hosts[n].keys \in UserKeys}
           amazon == IF userS3 = {} THEN {"default"} ELSE {c.hosts[n].keys : n \in userS3}
           new(keys) == [n \in {"*s3*amazonaws.com", "*storage.googleapis.com"} |->
                           Entry(n, IF n = "*s3*amazonaws.com" THEN keys ELSE "default")]
           gcs == [a \in {"gcs"} |-> Entry("https://storage.googleapis.com", "none")]
<1>1. PICK keys \in amazon :
        r = [c EXCEPT !.aliases = WithDefaults(c.aliases, gcs),
                      !.hosts = WithDefaults(others, new(keys))]
  BY DEF migratedV5, IsConfig
<1>2. /\ r.hosts = WithDefaults(others, new(keys))
      /\ r.aliases = WithDefaults(c.aliases, gcs)
  BY <1>1 DEF IsConfig
<1>3. /\ DOMAIN r.hosts = (DOMAIN c.hosts \ NamesS3) \cup {"*s3*amazonaws.com", "*storage.googleapis.com"}
      /\ \A n \in DOMAIN c.hosts \ NamesS3 : r.hosts[n] = c.hosts[n]
      /\ r.hosts["*s3*amazonaws.com"].keys = keys
  BY <1>2 DEF WithDefaults, Drop, Entry, NamesS3
<1>4. /\ DOMAIN r.aliases = DOMAIN f.aliases \cup {"gcs"}
      /\ \A a \in DOMAIN f.aliases : r.aliases[a] = f.aliases[a]
      /\ "gcs" \notin DOMAIN f.aliases => r.aliases["gcs"].url = "https://storage.googleapis.com"
  BY <1>2 DEF WithDefaults, SameAs, Entry
<1>5. SafeSix(f, r)
  <2> SUFFICES ASSUME NEW key \in KeysOwed(f) PROVE \E n \in DOMAIN r.hosts : HoldsSafely(r, n, key)
    BY DEF SafeSix
  <2>1. PICK n \in DOMAIN f.hosts : f.hosts[n].keys = key
    BY OwedBefore6
  <2>2. /\ key \in UserKeys /\ n \notin SameName(f)
        /\ n \in NamesS3 => \A m \in DOMAIN f.hosts \cap NamesS3 :
                              f.hosts[m].keys \in UserKeys => f.hosts[m].keys = key
    BY <2>1, OwedBefore6
  <2>3. n \in DOMAIN c.hosts /\ c.hosts[n].keys = key
    BY <2>1 DEF SameAs
  <2>4. \A a \in DOMAIN f.aliases : a \in CloudSet => f.aliases[a].url = n
    BY <2>1, <2>2 DEF SameName, CloudSet
  <2>5. "gcs" \notin CloudSet
    BY CloudsApart
  <2>6. CASE n \notin NamesS3
    <3>1. n \in DOMAIN r.hosts /\ r.hosts[n].keys = key /\ n # "https://s3.amazonaws.com"
      BY <1>3, <2>3, <2>6 DEF NamesS3
    <3>2. CASE n = "https://storage.googleapis.com"
      <4>1. "gcs" \in DOMAIN f.aliases => f.aliases["gcs"].url = n
        BY <2>2, <3>2 DEF SameName
      <4>2. r.aliases["gcs"].url = n
        BY <1>4, <3>2, <4>1
      <4> QED
        BY <3>1, <3>2, <4>2 DEF HoldsSafely, Labels
    <3>3. CASE n # "https://storage.googleapis.com"
      BY <1>4, <2>4, <2>5, <3>1, <3>3 DEF HoldsSafely, Labels
    <3> QED
      BY <3>2, <3>3
  <2>7. CASE n \in NamesS3
    <3>1. keys = key
      <4>1. n \in userS3
        BY <2>2, <2>3, <2>7
      <4>2. PICK m \in userS3 : keys = c.hosts[m].keys
        BY <4>1
      <4>3. m \in DOMAIN f.hosts /\ f.hosts[m].keys = c.hosts[m].keys
        BY <4>2 DEF SameAs
      <4> QED
        BY <2>2, <2>7, <4>2, <4>3
    <3>2. \A a \in DOMAIN r.aliases : a \in CloudSet => r.aliases[a].url = n
      BY <1>4, <2>4, <2>5
    <3>3. n \notin DOMAIN r.hosts \ {"*s3*amazonaws.com"}
      BY <1>3, <2>7 DEF NamesS3
    <3>4. Labels("*s3*amazonaws.com") = CloudSet
      BY DEF Labels
    <3>5. "*s3*amazonaws.com" \in DOMAIN r.hosts /\ r.hosts["*s3*amazonaws.com"].keys = key
      BY <1>3, <3>1
    <3> QED
      BY <3>2, <3>3, <3>4, <3>5 DEF HoldsSafely
  <2> QED
    BY <2>6, <2>7
<1>6. Few(f, r) /\ DOMAIN r.hosts \cap Glob # {}
  BY <1>3 DEF Few, Added, Glob
<1> QED
  BY <1>5, <1>6

\* Version 6: a known host gets a scheme, unless the name is taken.
LEMMA SafeUnfixed ==
  ASSUME NEW f \in Configs, f.version = "6", DOMAIN f.hosts \cap Known = {}
  PROVE  SafeSix(f, f)
PROOF
<1> SUFFICES ASSUME NEW key \in KeysOwed(f) PROVE \E n \in DOMAIN f.hosts : HoldsSafely(f, n, key)
  BY DEF SafeSix
<1>1. PICK n \in DOMAIN f.hosts : f.hosts[n].keys = key
  BY Owed6
<1>2. n \notin SameName(f)
  BY <1>1, Owed6
<1> QED
  BY <1>1, <1>2 DEF HoldsSafely, Labels, SameName, CloudSet

LEMMA FixedSafely ==
  ASSUME NEW f \in Configs, f.version = "6", DOMAIN f.hosts \cap Known # {},
         NEW c, IsConfig(c), c.hosts = f.hosts, c.aliases = f.aliases, NEW r \in fixedV6Hosts(c)
  PROVE  SafeSix(f, r) /\ Few(f, r) /\ DOMAIN r.hosts \cap (Known \cup Glob) = {}
PROOF
<1> DEFINE W == {<<n, c.hosts[n]>> : n \in DOMAIN c.hosts \cap WithScheme}
                  \cup {<<Schemed(n), Entry(Schemed(n), c.hosts[n].keys)>> :
                          n \in DOMAIN c.hosts \cap Known}
           stay == DOMAIN f.hosts \cap WithScheme
           turned == {Schemed(n) : n \in DOMAIN f.hosts \cap Known}
<1>1. PICK g \in Written(W) : r = [c EXCEPT !.hosts = g]
  BY DEF fixedV6Hosts
<1>2. r.hosts = g /\ r.aliases = f.aliases
  <2>1. r = [version |-> c.version, broken |-> c.broken, hosts |-> g, aliases |-> c.aliases]
    BY <1>1, FieldChanged
  <2> QED
    BY <2>1
<1>3. DOMAIN g = stay \cup turned
  <2>1. DOMAIN g = {w[1] : w \in W}
    BY DEF Written
  <2>2. {w[1] : w \in W} \subseteq stay \cup turned
    OBVIOUS
  <2>3. ASSUME NEW n \in stay PROVE n \in {w[1] : w \in W}
    <3>1. <<n, c.hosts[n]>> \in W /\ <<n, c.hosts[n]>>[1] = n
      OBVIOUS
    <3> QED
      BY <3>1
  <2>4. ASSUME NEW n \in DOMAIN f.hosts \cap Known PROVE Schemed(n) \in {w[1] : w \in W}
    <3> DEFINE w == <<Schemed(n), Entry(Schemed(n), c.hosts[n].keys)>>
    <3>1. w \in W /\ w[1] = Schemed(n)
      OBVIOUS
    <3> HIDE DEF w, W
    <3> QED
      BY <3>1
  <2> HIDE DEF W
  <2> QED
    BY <2>1, <2>2, <2>3, <2>4
<1>4. \A n \in DOMAIN g : \/ n \in stay /\ g[n] = f.hosts[n]
                          \/ \E m \in DOMAIN f.hosts \cap Known :
                               n = Schemed(m) /\ g[n].keys = f.hosts[m].keys
  <2>1. \A n \in DOMAIN g : <<n, g[n]>> \in W
    BY DEF Written
  <2>2. ASSUME NEW n, NEW x, <<n, x>> \in W
        PROVE  \/ n \in stay /\ x = f.hosts[n]
               \/ \E m \in DOMAIN f.hosts \cap Known : n = Schemed(m) /\ x.keys = f.hosts[m].keys
    BY <2>2 DEF Entry
  <2> HIDE DEF W, stay
  <2> TAKE n \in DOMAIN g
  <2>3. <<n, g[n]>> \in W
    BY <2>1
  <2> QED
    BY <2>2, <2>3
<1> HIDE DEF W
<1>5. /\ \A m \in Known : Schemed(m) \notin Known \cup Glob
      /\ \A l, m \in Known : Schemed(l) = Schemed(m) => l = m
      /\ WithScheme \cap (Known \cup Glob) = {}
      /\ \A m \in Known : Schemed(m) # "https://storage.googleapis.com"
      /\ \A m \in Known : Schemed(m) = "https://s3.amazonaws.com" <=> m = "s3.amazonaws.com"
  BY DEF Known, Schemed, Glob, WithScheme
<1>6. SafeSix(f, r)
  <2> SUFFICES ASSUME NEW key \in KeysOwed(f) PROVE \E n \in DOMAIN r.hosts : HoldsSafely(r, n, key)
    BY DEF SafeSix
  <2>1. PICK n \in DOMAIN f.hosts : f.hosts[n].keys = key
    BY Owed6
  <2>2. /\ n \notin SameName(f) /\ n \in WithScheme \cup Known
        /\ n \in Known => Schemed(n) \notin DOMAIN f.hosts
        /\ \A m \in DOMAIN f.hosts \cap Known : Schemed(m) # n
    BY <2>1, Owed6
  <2>3. \A a \in DOMAIN f.aliases : a \in CloudSet => f.aliases[a].url = n
    BY <2>1, <2>2 DEF SameName, CloudSet
  <2>4. CASE n \in WithScheme
    <3>1. n \in DOMAIN g /\ g[n].keys = key
      BY <1>3, <1>4, <2>1, <2>2, <2>4
    <3>2. \A a \in DOMAIN f.aliases : a \in Labels(n) => f.aliases[a].url = n
      BY <2>2, <2>3 DEF Labels, SameName
    <3> QED
      BY <1>2, <3>1, <3>2 DEF HoldsSafely
  <2>5. CASE n \in Known
    <3>1. Schemed(n) \in DOMAIN g /\ g[Schemed(n)].keys = key
      BY <1>3, <1>4, <1>5, <2>1, <2>2, <2>5
    <3>2. n \notin DOMAIN g
      BY <1>3, <1>5, <2>5
    <3>3. CASE n = "s3.amazonaws.com"
      <4>1. \A a \in DOMAIN f.aliases : a = "s3" => f.aliases[a].url = Schemed(n)
        BY <1>5, <2>2, <2>5, <3>3 DEF SameName
      <4>2. Labels(Schemed(n)) = {"s3"}
        BY <1>5, <2>5, <3>3 DEF Labels
      <4> QED
        BY <1>2, <3>1, <4>1, <4>2 DEF HoldsSafely
    <3>4. CASE n # "s3.amazonaws.com"
      <4>1. Labels(Schemed(n)) = CloudSet
        BY <1>5, <2>5, <3>4 DEF Labels
      <4> QED
        BY <1>2, <2>3, <3>1, <3>2, <4>1 DEF HoldsSafely
    <3> QED
      BY <3>3, <3>4
  <2> QED
    BY <2>2, <2>4, <2>5
<1>7. Few(f, r)
  BY <1>2, <1>3 DEF Few, Added
<1>8. DOMAIN r.hosts \cap (Known \cup Glob) = {}
  BY <1>2, <1>3, <1>5
<1> QED
  BY <1>6, <1>7, <1>8

\* Version 6: every host gets a name of its own, which no other host gets.
LEMMA NamedSafely ==
  ASSUME NEW f \in Configs, NEW c, IsConfig(c), Few(f, c), NEW key, NEW n, HoldsSafely(c, n, key),
         NEW r \in migratedV6(c)
  PROVE  HasKey(r.hosts, Reserved, key)
PROOF
<1> DEFINE found == DOMAIN c.hosts
           own == [m \in found |->
                     IF m = "https://s3.amazonaws.com" THEN "s3"
                     ELSE IF m = "https://storage.googleapis.com" THEN "gcs" ELSE "cloud"]
           clouds == {m \in found : own[m] = "cloud"}
           numbered == {g \in [clouds -> 1..Cardinality(clouds)] :
                          \A l, m \in clouds : l # m => g[l] # g[m]}
           byAlias == {<<a, c.hosts[c.aliases[a].url]>> :
                         a \in {b \in DOMAIN c.aliases : c.aliases[b].url \in found}}
           label(g, m) == IF m \in clouds THEN Clouds[g[m]] ELSE own[m]
           byOwn(g) == {<<label(g, m), c.hosts[m]>> : m \in found}
<1>1. migratedV6(c) = {[c EXCEPT !.aliases = Empty, !.hosts = WithDefaults(h, DefaultsV7)] :
                         h \in UNION {Written(byAlias \cup byOwn(g)) : g \in numbered}}
  BY DEF migratedV6
<1>2. PICK h \in UNION {Written(byAlias \cup byOwn(g)) : g \in numbered} :
        r = [c EXCEPT !.aliases = Empty, !.hosts = WithDefaults(h, DefaultsV7)]
  <2> HIDE DEF byAlias, byOwn, numbered
  <2> QED
    BY <1>1
<1>3. PICK g \in numbered : h \in Written(byAlias \cup byOwn(g))
  <2> HIDE DEF byAlias, byOwn, numbered
  <2> QED
    OBVIOUS
<1>4. r.hosts = WithDefaults(h, DefaultsV7)
  BY <1>2 DEF IsConfig
<1>5. n \in found /\ c.hosts[n].keys = key
  BY DEF HoldsSafely
\* There are names enough for the hosts.
<1>6. \A m \in clouds : g[m] \in DOMAIN Clouds
  <2> DEFINE all == DOMAIN f.hosts \cup Added
  <2>1. IsFiniteSet(all) /\ Cardinality(all) <= Len(Clouds)
    BY FirstFile
  <2>2. clouds \subseteq all
    BY DEF Few
  <2> HIDE DEF clouds, all
  <2>3. IsFiniteSet(clouds) /\ Cardinality(clouds) <= Cardinality(all)
    BY <2>1, <2>2, FS_Subset
  <2>4. Cardinality(clouds) \in Nat /\ Cardinality(all) \in Nat
    BY <2>1, <2>3, FS_CardinalityType
  <2>5. Len(Clouds) \in Nat /\ DOMAIN Clouds = 1..Len(Clouds)
    BY CloudsApart
  <2>6. 1..Cardinality(clouds) \subseteq DOMAIN Clouds
    BY <2>1, <2>3, <2>4, <2>5
  <2>7. g \in [clouds -> 1..Cardinality(clouds)]
    BY <1>3
  <2> QED
    BY <2>6, <2>7
<1>7. \A m \in found : label(g, m) \in Labels(m)
  <2> TAKE m \in found
  <2>1. CASE m \in clouds
    <3>1. Clouds[g[m]] \in CloudSet
      <4>1. g[m] \in DOMAIN Clouds
        BY <1>6, <2>1
      <4> HIDE DEF clouds, numbered
      <4> QED
        BY <4>1 DEF CloudSet
    <3> QED
      BY <2>1, <3>1 DEF Labels
  <2>2. CASE m \notin clouds
    BY <2>2 DEF Labels
  <2> QED
    BY <2>1, <2>2
<1>8. \A m \in found : label(g, m) = label(g, n) => m = n
  <2> SUFFICES ASSUME NEW m \in found, label(g, m) = label(g, n) PROVE m = n
    OBVIOUS
  <2>1. label(g, m) \in Labels(m) /\ label(g, n) \in Labels(n)
    BY <1>5, <1>7
  <2>2. "s3" \notin CloudSet /\ "gcs" \notin CloudSet
    BY CloudsApart
  <2>3. CASE m \in clouds /\ n \in clouds
    <3>1. Clouds[g[m]] = Clouds[g[n]]
      BY <2>3
    <3>2. g[m] \in DOMAIN Clouds /\ g[n] \in DOMAIN Clouds
      BY <1>6, <2>3
    <3>3. g[m] = g[n]
      <4> HIDE DEF clouds, numbered
      <4> QED
        BY <3>1, <3>2, CloudsApart
    <3> QED
      BY <1>3, <2>3, <3>3
  <2>4. CASE ~(m \in clouds /\ n \in clouds)
    <3>1. /\ m \in clouds <=> m \notin {"https://s3.amazonaws.com", "https://storage.googleapis.com"}
          /\ n \in clouds <=> n \notin {"https://s3.amazonaws.com", "https://storage.googleapis.com"}
      BY <1>5
    <3> HIDE DEF label, clouds
    <3> QED
      BY <2>1, <2>2, <2>4, <3>1 DEF Labels
  <2> QED
    BY <2>3, <2>4
<1> DEFINE a == label(g, n)
           W == byAlias \cup byOwn(g)
<1>9. ASSUME NEW x, <<a, x>> \in W PROVE x = c.hosts[n]
  <2>1. CASE <<a, x>> \in byAlias
    <3>1. a \in DOMAIN c.aliases /\ c.aliases[a].url \in found /\ x = c.hosts[c.aliases[a].url]
      <4> HIDE DEF a
      <4> QED
        BY <2>1
    <3>2. a \in Labels(n)
      BY <1>5, <1>7
    <3> HIDE DEF a
    <3> QED
      BY <3>1, <3>2 DEF HoldsSafely
  <2>2. CASE <<a, x>> \in byOwn(g)
    <3>1. PICK m \in found : a = label(g, m) /\ x = c.hosts[m]
      <4> HIDE DEF label
      <4> QED
        BY <2>2
    <3> QED
      BY <1>8, <3>1
  <2> QED
    BY <1>9, <2>1, <2>2
<1>10. <<a, c.hosts[n]>> \in W
  BY <1>5
<1>11. a \notin Reserved
  <2>1. a \in Labels(n)
    BY <1>5, <1>7
  <2> HIDE DEF a
  <2> QED
    BY <2>1, CloudsApart DEF Labels, Reserved
<1>12. a \in DOMAIN h /\ h[a].keys = key
  <2> HIDE DEF W, a
  <2>1. h \in Written(W)
    BY <1>3 DEF W
  <2>2. /\ DOMAIN h = {w[1] : w \in W}
        /\ \A m \in DOMAIN h : <<m, h[m]>> \in W
    BY <2>1 DEF Written
  <2>3. a \in DOMAIN h
    <3> DEFINE w == <<a, c.hosts[n]>>
    <3>1. w \in W /\ w[1] = a
      BY <1>10
    <3> HIDE DEF w
    <3> QED
      BY <2>2, <3>1
  <2>4. h[a] = c.hosts[n]
    BY <1>9, <2>2, <2>3
  <2> QED
    BY <1>5, <2>3, <2>4
<1> HIDE DEF a
<1> QED
  BY <1>4, <1>11, <1>12 DEF HasKey, WithDefaults

\* The versions differ.
LEMMA Versions ==
  /\ Before6 \cap {"", "6", "7", "8", "9", globalMCConfigVersion} = {}
  /\ ConfigVersions = Before6 \cup {"", "6", "7", "8", "9", globalMCConfigVersion}
  /\ globalMCConfigVersion \notin {"", "6", "7", "8", "9"}
PROOF
<1>1. Before6 \cap {"", "6", "7", "8", "9", globalMCConfigVersion} = {}
  BY DEF Before6, globalMCConfigVersion
<1>2. {Old[i] : i \in DOMAIN Old} = Before6 \cup {"6", "7", "8", "9"}
  <2>1. \A i \in DOMAIN Old : Old[i] \in Before6 \cup {"6", "7", "8", "9"}
    BY VersionsApart DEF Before6
  <2>2. \A v \in Before6 \cup {"6", "7", "8", "9"} : \E i \in 1..10 : Old[i] = v
    BY VersionsApart DEF Before6
  <2> QED
    BY <2>1, <2>2, VersionsApart
<1>3. globalMCConfigVersion \notin {"", "6", "7", "8", "9"}
  BY DEF globalMCConfigVersion
<1> QED
  BY <1>1, <1>2, <1>3 DEF ConfigVersions

LEMMA OldVersionsApart ==
  /\ \A i, j \in 1..10 : Old[i] = Old[j] => i = j
  /\ \A i \in 1..10 : Old[i] \notin {"", globalMCConfigVersion}
PROOF
<1>1. ASSUME NEW i \in 1..10 PROVE i \in {1, 2, 3, 4, 5, 6, 7, 8, 9, 10}
  OBVIOUS
<1>2. \A i \in 1..10 : Old[i] \notin {"", globalMCConfigVersion}
  BY <1>1, VersionsApart DEF globalMCConfigVersion
<1> DEFINE place(v) == IF v = "1.0.0" THEN 1 ELSE
                       IF v = "1.0.1" THEN 2 ELSE
                       IF v = "2" THEN 3 ELSE
                       IF v = "3" THEN 4 ELSE
                       IF v = "4" THEN 5 ELSE
                       IF v = "5" THEN 6 ELSE
                       IF v = "6" THEN 7 ELSE
                       IF v = "7" THEN 8 ELSE
                       IF v = "8" THEN 9 ELSE
                       IF v = "9" THEN 10 ELSE 0
<1>3. \A i \in 1..10 : place(Old[i]) = i
  BY <1>1, VersionsApart
<1> HIDE DEF place
<1> QED
  BY <1>2, <1>3

\* Only the hosts and the aliases of a configuration count.
LEMMA SameStage ==
  ASSUME NEW f, NEW m, NEW r, r.hosts = m.hosts, r.aliases = m.aliases
  PROVE  /\ SameAs(f, m) <=> SameAs(f, r)
         /\ Few(f, m) <=> Few(f, r)
         /\ SafeSix(f, m) <=> SafeSix(f, r)
PROOF
<1>1. \A n, key : HoldsSafely(m, n, key) <=> HoldsSafely(r, n, key)
  BY DEF HoldsSafely
<1> QED
  BY <1>1 DEF SameAs, Few, SafeSix

LEMMA StageFirst == ASSUME NEW f \in Configs PROVE StageOf(f, f, 0)
PROOF
<1>1. f.version \in Before6 => SameAs(f, f)
  BY FirstFile, OwedBefore6 DEF SameAs
<1>2. Few(f, f)
  BY DEF Few
<1>3. f.version = "7" => \A key \in KeysOwed(f) : HasKey(f.hosts, Reserved, key)
  BY OwedLater DEF HasKey, FirstAliases, globalMCConfigVersion
<1>4. f.version \in {"8", "9", globalMCConfigVersion} =>
        \A key \in KeysOwed(f) : HasSame(FirstAliases(f), FirstAliases(f), key)
  BY OwedLater DEF HasSame
<1>5. f.version = "9" => FirstAliases(f) = f.hosts
  BY DEF FirstAliases, globalMCConfigVersion
<1>6. f.version = globalMCConfigVersion => FirstAliases(f) = f.aliases /\ StageTen(f, f, 0)
  BY <1>4 DEF FirstAliases, StageTen
<1> QED
  BY <1>1, <1>2, <1>3, <1>4, <1>5, <1>6, FirstFile, Versions DEF StageOf, StageSix

\* What a migration to the next version makes of the file.
LEMMA StageMigrated ==
  ASSUME NEW f \in Configs, NEW c, IsConfig(c), c.broken \in BOOLEAN, NEW k \in Nat,
         StageOf(f, c, k), c.version \in Before6 \cup {"6", "7", "8", "9"}, NEW r \in migrated(c),
         c.version = "3" /\ c.broken = TRUE => \A n \in DOMAIN c.hosts : c.hosts[n].keys = "none",
         c.version = "6" /\ f.version = "6" => DOMAIN c.hosts \cap Known = {}
  PROVE  StageOf(f, r, k)
PROOF
<1>1. PICK m : /\ Conversion(c, m) /\ MadeOf(c, m)
               /\ r.version = newVersion(c.version)
               /\ r.hosts = m.hosts /\ r.aliases = m.aliases
  BY MigratedFrom
<1>3. CASE c.version \in Before6 \ {"5"}
  <2>1. f.version \in Before6 /\ SameAs(f, c) /\ Few(f, c)
    BY <1>3 DEF StageOf
  <2>2. SameAs(f, m) /\ Few(f, m)
    <3>1. CASE c.version = "1.0.0"
      BY <1>1, <2>1, <3>1, ExamplesAdded DEF Conversion
    <3>2. CASE c.version = "3"
      BY <1>1, <2>1, <3>2, HiddenRead DEF Conversion
    <3>3. CASE c.version \notin {"1.0.0", "3"}
      <4>1. m = c
        BY <1>1, <1>3, <3>3 DEF Conversion, Before6
      <4> QED
        BY <2>1, <4>1
    <3> QED
      BY <3>1, <3>2, <3>3
  <2>3. r.version \in Before6
    BY <1>1, <1>3, NewVersions DEF Before6
  <2> QED
    BY <1>1, <2>1, <2>2, <2>3, SameStage, Versions DEF StageOf
<1>4. CASE c.version = "5"
  <2>1. f.version \in Before6 /\ SameAs(f, c) /\ Few(f, c)
    BY <1>4 DEF StageOf, Before6
  <2>2. m \in migratedV5(c)
    BY <1>1, <1>4 DEF Conversion
  <2>3. SafeSix(f, m) /\ Few(f, m) /\ DOMAIN m.hosts \cap Glob # {}
    BY <2>1, <2>2, CollapsedSafely
  <2>4. r.version = "6"
    BY <1>1, <1>4, NewVersions
  <2> QED
    BY <1>1, <2>1, <2>3, <2>4, SameStage, Versions DEF StageOf, StageSix
<1>5. CASE c.version = "6"
  <2>1. Few(f, c) /\ StageSix(f, c)
    BY <1>5 DEF StageOf
  <2>2. SafeSix(f, c) /\ f.version \in Before6 \cup {"6"}
    <3>1. CASE f.version = "6" /\ c.hosts = f.hosts /\ c.aliases = f.aliases
      BY <1>5, <3>1, SafeUnfixed, SameStage
    <3> QED
      BY <2>1, <3>1 DEF StageSix
  <2>3. m \in migratedV6(c)
    BY <1>1, <1>5 DEF Conversion
  <2>4. \A key \in KeysOwed(f) : HasKey(m.hosts, Reserved, key)
    BY <2>1, <2>2, <2>3, NamedSafely DEF SafeSix
  <2>5. r.version = "7"
    BY <1>1, <1>5, NewVersions
  <2> QED
    BY <1>1, <2>2, <2>4, <2>5, Versions DEF StageOf
<1>6. CASE c.version = "7"
  <2>1. f.version \in Before6 \cup {"6", "7"} /\ \A key \in KeysOwed(f) : HasKey(c.hosts, Reserved, key)
    BY <1>6 DEF StageOf
  <2>2. m = [c EXCEPT !.hosts = WithDefaults(Drop(c.hosts, Reserved), DefaultsV8)]
    BY <1>1, <1>6 DEF Conversion, migratedV7, IsConfig
  <2>3. m.hosts = WithDefaults(Drop(c.hosts, Reserved), DefaultsV8)
    BY <2>2 DEF IsConfig
  <2>4. \A key \in KeysOwed(f) : HasKey(m.hosts, {}, key)
    BY <2>1, <2>3 DEF HasKey, WithDefaults, Drop
  <2>5. r.version = globalMCConfigVersion
    BY <1>1, <1>6, NewVersions DEF globalMCConfigVersion
  <2>6. StageTen(f, r, k)
    BY <1>1, <2>1, <2>4 DEF StageTen
  <2> QED
    BY <2>5, <2>6, Versions DEF StageOf
<1>7. CASE c.version = "8"
  <2>1. f.version = "8" /\ c.hosts = f.hosts
    BY <1>7 DEF StageOf
  <2>2. m = [c EXCEPT !.hosts = Drop(c.hosts, Reserved)]
    BY <1>1, <1>7 DEF Conversion, migratedV8, IsConfig
  <2>3. m.hosts = Drop(f.hosts, Reserved)
    BY <2>1, <2>2 DEF IsConfig
  <2>4. \A key \in KeysOwed(f) : HasSame(f.hosts, m.hosts, key)
    BY <2>1, <2>3, OwedLater DEF HasSame, Drop, FirstAliases, globalMCConfigVersion
  <2>5. r.version = "9"
    BY <1>1, <1>7, NewVersions
  <2> QED
    BY <1>1, <2>1, <2>4, <2>5, Versions DEF StageOf
<1>8. CASE c.version = "9"
  <2>1. f.version \in {"8", "9"} /\ \A key \in KeysOwed(f) : HasSame(f.hosts, c.hosts, key)
    BY <1>8 DEF StageOf
  <2> DEFINE g == IF c.hosts = Empty THEN DefaultsV10 ELSE c.hosts
  <2>2. m = [c EXCEPT !.hosts = Empty, !.aliases = g]
    BY <1>1, <1>8 DEF Conversion, migratedV9, IsConfig
  <2>3. m.aliases = g
    <3> HIDE DEF g
    <3> QED
      BY <2>2 DEF IsConfig
  <2>4. \A key \in KeysOwed(f) : HasSame(f.hosts, m.aliases, key)
    BY <2>1, <2>3 DEF HasSame, Empty, Hosts
  <2>5. r.version = globalMCConfigVersion /\ FirstAliases(f) = f.hosts
    BY <1>1, <1>8, <2>1, NewVersions DEF globalMCConfigVersion, FirstAliases
  <2>6. StageTen(f, r, k)
    BY <1>1, <2>1, <2>4, <2>5 DEF StageTen
  <2> QED
    BY <2>5, <2>6, Versions DEF StageOf
<1> QED
  BY <1>3, <1>4, <1>5, <1>6, <1>7, <1>8

LEMMA FirstStays == [ConfigNext]_configVars => first' = first
PROOF
  BY DEF ConfigNext, configVars, StartMc, fixConfigV3, fixConfigV6, fixConfigV6ForHosts,
         migrateConfig, initMC, EndMc, setAlias, removeAlias, SaveAliases

LEMMA FileFields == \A v, f : File(v, f).version = v /\ File(v, f).broken = FALSE
PROOF
  BY DEF File

LEMMA KeysFirst == ConfigInit => KeysInv
PROOF
<1> SUFFICES ASSUME ConfigInit PROVE KeysInv
  OBVIOUS
<1>1. first \in Configs /\ config = first /\ step = 0 /\ refused = FALSE /\ commands = 0
  BY DEF ConfigInit
<1>2. StageOf(first, config, commands)
  BY <1>1, StageFirst
<1>3. DOMAIN Old = 1..10 /\ config.broken \in BOOLEAN
  BY <1>1, FirstFile, VersionsApart
<1>4. ~(config.version = "6" /\ first.version \in Before6)
  BY <1>1, Versions
<1> QED
  BY <1>1, <1>2, <1>3, <1>4 DEF KeysInv, PlaceInv, RefusedInv

\* What is known of the state before a step.
LEMMA PlaceKnown ==
  ASSUME ConfigOK, KeysInv
  PROVE  /\ step \in 0..15 /\ starts \in Nat /\ commands \in Nat /\ (step > 0 => starts > 0)
         /\ IsConfig(config) /\ config.version \in ConfigVersions /\ config.broken \in BOOLEAN
         /\ first \in Configs /\ StageOf(first, config, commands)
         /\ \A i \in 1..10 : config.version = Old[i] => step <= i + 3
         /\ config.version = "" => step < 15
         /\ config.version = "3" /\ config.broken = TRUE /\ step > 1 =>
              \A n \in DOMAIN config.hosts : config.hosts[n].keys = "none"
         /\ config.version = "6" /\ first.version \in Before6 =>
              starts >= 1 /\ step \notin 3..9 /\ (step \in {1, 2} => starts > 1)
         /\ config.version = "6" /\ first.version = "6" /\ step > 3 =>
              DOMAIN config.hosts \cap Known = {}
PROOF
<1>1. Len(Old) = 10 /\ DOMAIN Old = 1..10 /\ MaxStarts \in Nat
  BY VersionsApart, StartsBounded
<1>2. step \in 0..15 /\ starts \in Nat /\ commands \in Nat /\ (step > 0 => starts > 0)
  BY <1>1 DEF ConfigOK, ConfigNumbersOK
<1>3. IsConfig(config) /\ config.version \in ConfigVersions
  BY DEF ConfigOK, ConfigFileOK
<1> QED
  BY <1>1, <1>2, <1>3 DEF KeysInv, PlaceInv

\* A file of version 6 in which an older one was migrated stops mc.
LEMMA SixIsRefused ==
  ASSUME NEW f, NEW c, StageSix(f, c), c.version = "6"
  PROVE  /\ f.version \in Before6 => DOMAIN c.hosts \cap Glob # {}
         /\ DOMAIN c.hosts \cap Glob # {} =>
              f.version \in Before6 \/ (f.version = "6" /\ DOMAIN f.hosts \cap Glob # {})
PROOF
  BY Versions DEF StageSix

LEMMA RefusedStep == ConfigOK /\ KeysInv /\ [ConfigNext]_configVars => RefusedInv'
PROOF
<1> SUFFICES ASSUME ConfigOK, KeysInv, [ConfigNext]_configVars PROVE RefusedInv'
  OBVIOUS
<1>1. first' = first
  BY FirstStays
<1>2. CASE refused' = FALSE
  BY <1>2 DEF RefusedInv
<1>3. CASE refused' = refused /\ starts' = starts
  BY <1>1, <1>3 DEF KeysInv, RefusedInv
<1>4. CASE fixConfigV6
  <2> SUFFICES ASSUME config.version = "6", DOMAIN config.hosts \cap Glob # {}
               PROVE  \/ first.version = "6" /\ DOMAIN first.hosts \cap Glob # {}
                      \/ starts > 1 /\ first.version \in Before6
    BY <1>1, <1>4 DEF fixConfigV6, RefusedInv
  <2>1. StageSix(first, config)
    BY PlaceKnown DEF StageOf
  <2>2. \/ first.version \in Before6
        \/ first.version = "6" /\ DOMAIN first.hosts \cap Glob # {}
    BY <2>1, SixIsRefused
  <2>3. step = 2
    BY <1>4 DEF fixConfigV6
  <2> QED
    BY <2>2, <2>3, PlaceKnown
<1>5. CASE StartMc
  BY <1>2, <1>5 DEF StartMc
<1> QED
  BY <1>3, <1>4, <1>5
     DEF ConfigNext, configVars, fixConfigV3, fixConfigV6ForHosts, migrateConfig, initMC, EndMc,
         setAlias, removeAlias, SaveAliases

\* The file stays at its stage, and mc passes the functions in their order.
LEMMA ReadyIsTen == ConfigOK /\ KeysInv /\ Ready => config.version = globalMCConfigVersion
PROOF
<1> SUFFICES ASSUME ConfigOK, KeysInv, Ready PROVE config.version = globalMCConfigVersion
  OBVIOUS
<1>1. step = 15 /\ ~(step < 15) /\ \A i \in 1..10 : ~(step <= i + 3)
  <2>1. step = 15
    BY VersionsApart DEF Ready
  <2>2. \A n : n = 15 => ~(n < 15) /\ \A i \in 1..10 : ~(n <= i + 3)
    OBVIOUS
  <2> QED
    BY <2>1, <2>2
<1>2. /\ config.version \in ConfigVersions
      /\ \A i \in 1..10 : config.version = Old[i] => step <= i + 3
      /\ config.version = "" => step < 15
  BY PlaceKnown
<1>3. config.version # ""
  BY <1>1, <1>2
<1>4. ASSUME NEW i \in 1..10 PROVE config.version # Old[i]
  BY <1>1, <1>2
<1> QED
  BY <1>2, <1>3, <1>4, VersionsApart DEF ConfigVersions

LEMMA NoConfigVersion == NoConfig.version = ""
PROOF
  BY DEF NoConfig, File

LEMMA SavedStage ==
  ASSUME ConfigOK, KeysInv, Ready, NEW g, NEW d, d = File(config.version, g),
         \A a \in DOMAIN config.aliases \ Replaced : a \in DOMAIN g /\ g[a] = config.aliases[a]
  PROVE  StageOf(first, d, commands + 1) /\ d.version = globalMCConfigVersion /\ d.broken = FALSE
PROOF
<1>2. config.version = globalMCConfigVersion
  BY ReadyIsTen
<1>3. d.version = globalMCConfigVersion /\ d.broken = FALSE /\ d.aliases = g
  BY <1>2 DEF File
<1>4. StageTen(first, config, commands) /\ commands \in Nat /\ first \in Configs
  <2>1. StageOf(first, config, commands) /\ commands \in Nat /\ first \in Configs
    BY PlaceKnown
  <2> QED
    BY <1>2, <2>1 DEF StageOf
<1>5. first.version \in Before6 \cup {"6", "7"} => StageTen(first, d, commands + 1)
  BY <1>4 DEF StageTen
<1>6. ASSUME first.version \in {"8", "9", globalMCConfigVersion}
      PROVE  StageTen(first, d, commands + 1)
  <2> SUFFICES ASSUME NEW key \in KeysOwed(first)
               PROVE  key \in KeysReplaced(first) \/ HasSame(FirstAliases(first), d.aliases, key)
    BY <1>4, <1>6 DEF StageTen
  <2>1. first.version \notin Before6 \cup {"6", "7", ""}
    BY <1>6, Versions DEF Before6, globalMCConfigVersion
  <2>2. first # NoConfig
    BY <2>1, NoConfigVersion
  <2>3. key \in KeysReplaced(first) \/ HasSame(FirstAliases(first), config.aliases, key)
    BY <1>4, <2>1, <2>2 DEF StageTen
  <2>4. CASE HasSame(FirstAliases(first), config.aliases, key)
    <3>1. PICK a \in DOMAIN FirstAliases(first) \cap DOMAIN config.aliases :
            FirstAliases(first)[a].keys = key /\ config.aliases[a].keys = key
      BY <2>4 DEF HasSame
    <3>2. CASE a \in Replaced
      BY <1>4, <1>6, <3>1, <3>2, OwedLater
    <3>3. CASE a \notin Replaced
      BY <1>3, <3>1, <3>3 DEF HasSame
    <3> QED
      BY <3>2, <3>3
  <2> QED
    BY <2>3, <2>4
<1>7. first = NoConfig => StageTen(first, d, commands + 1)
  BY DEF StageTen
<1>8. StageTen(first, d, commands + 1)
  BY <1>4, <1>5, <1>6, <1>7 DEF StageTen
<1> QED
  BY <1>3, <1>8, Versions DEF StageOf

LEMMA CommandStage ==
  ASSUME ConfigOK, KeysInv, setAlias \/ removeAlias
  PROVE  /\ StageOf(first, config', commands') /\ config'.version = globalMCConfigVersion
         /\ config'.broken = FALSE /\ step' = 0
PROOF
<1>1. ASSUME NEW g, SaveAliases(g),
             \A a \in DOMAIN config.aliases \ Replaced : a \in DOMAIN g /\ g[a] = config.aliases[a]
      PROVE  /\ StageOf(first, config', commands') /\ config'.version = globalMCConfigVersion
             /\ config'.broken = FALSE /\ step' = 0
  <2>1. Ready /\ step' = 0 /\ commands' = commands + 1
    BY <1>1 DEF SaveAliases
  <2>2. PICK d : config' = d /\ d = File(config.version, g)
    BY <1>1 DEF SaveAliases
  <2> QED
    BY <1>1, <2>1, <2>2, SavedStage
<1>2. CASE setAlias
  <2>1. PICK g : g = [a \in DOMAIN config.aliases \cup {"new"} |->
                        IF a = "new" THEN Entry("https://new.org", "none") ELSE config.aliases[a]]
    OBVIOUS
  <2>2. SaveAliases(g)
    BY <1>2, <2>1 DEF setAlias
  <2> QED
    BY <1>1, <2>1, <2>2 DEF Replaced
<1>3. CASE removeAlias
  <2>1. PICK g : g = Drop(config.aliases, {"gcs"})
    OBVIOUS
  <2>2. SaveAliases(g)
    BY <1>3, <2>1 DEF removeAlias
  <2> QED
    BY <1>1, <2>1, <2>2 DEF Replaced, Drop
<1> QED
  BY <1>2, <1>3

LEMMA StageStep ==
  ConfigOK /\ KeysInv /\ [ConfigNext]_configVars =>
    StageOf(first, config, commands)' /\ first' \in Configs
PROOF
<1> SUFFICES ASSUME ConfigOK, KeysInv, [ConfigNext]_configVars
             PROVE  StageOf(first, config', commands') /\ first' = first /\ first' \in Configs
  BY DEF StageOf, StageSix, StageTen, SameAs, SafeSix, Few, KeysOwed, HoldsSafely
<1>1. first' = first
  BY FirstStays
<1>2. /\ IsConfig(config) /\ config.broken \in BOOLEAN
      /\ first \in Configs /\ StageOf(first, config, commands) /\ commands \in Nat
  BY PlaceKnown
<1>3. CASE config' = config /\ commands' = commands
  BY <1>1, <1>2, <1>3
<1>4. CASE fixConfigV3
  <2>1. commands' = commands
    BY <1>4 DEF fixConfigV3
  <2>2. CASE config.version = "3"
    <3>1. PICK d : config' = d /\ d = fixedV3(config)
      BY <1>4, <2>2 DEF fixConfigV3
    <3>2. d.hosts = config.hosts /\ d.aliases = config.aliases /\ d.version = "3"
      <4>1. [config EXCEPT !.broken = FALSE] =
              [version |-> config.version, broken |-> FALSE,
               hosts |-> config.hosts, aliases |-> config.aliases]
        BY <1>2, FieldChanged
      <4> QED
        BY <2>2, <3>1, <4>1 DEF fixedV3
    <3>3. first.version \in Before6 /\ SameAs(first, config) /\ Few(first, config)
      BY <1>2, <2>2 DEF StageOf, Before6
    <3>4. SameAs(first, d) /\ Few(first, d)
      BY <3>2, <3>3, SameStage
    <3>5. d.version \notin {"", "6", "7", "8", "9", globalMCConfigVersion}
      BY <3>2 DEF globalMCConfigVersion
    <3>6. StageOf(first, d, commands)
      BY <3>3, <3>4, <3>5 DEF StageOf
    <3> QED
      BY <1>1, <1>2, <2>1, <3>1, <3>6
  <2>3. CASE config.version # "3"
    BY <1>3, <1>4, <2>1, <2>3 DEF fixConfigV3
  <2> QED
    BY <2>2, <2>3
<1>5. CASE fixConfigV6ForHosts
  <2>1. commands' = commands
    BY <1>5 DEF fixConfigV6ForHosts
  <2>2. CASE config.version = "6" /\ DOMAIN config.hosts \cap Known # {}
    <3>1. PICK d \in fixedV6Hosts(config) : config' = d
      BY <1>5, <2>2 DEF fixConfigV6ForHosts
    <3>2. step = 3 /\ ~(first.version \in Before6)
      <4>1. step = 3
        BY <1>5 DEF fixConfigV6ForHosts
      <4>2. config.version = "6" /\ first.version \in Before6 => step \notin 3..9
        BY PlaceKnown
      <4> QED
        BY <2>2, <4>1, <4>2
    <3>3. first.version = "6" /\ config.hosts = first.hosts /\ config.aliases = first.aliases
      BY <1>2, <2>2, <3>2 DEF StageOf, StageSix
    <3>4. SafeSix(first, d) /\ Few(first, d) /\ DOMAIN d.hosts \cap (Known \cup Glob) = {}
      BY <1>2, <2>2, <3>1, <3>3, FixedSafely
    <3>5. d.version = "6"
      <4>1. MadeOf(config, d)
        BY <1>2, <3>1, FixedV6
      <4> QED
        BY <2>2, <4>1 DEF MadeOf
    <3>6. StageOf(first, d, commands)
      BY <3>3, <3>4, <3>5, Versions DEF StageOf, StageSix
    <3> QED
      BY <1>1, <1>2, <2>1, <3>1, <3>6
  <2>3. CASE ~(config.version = "6" /\ DOMAIN config.hosts \cap Known # {})
    BY <1>3, <1>5, <2>1, <2>3 DEF fixConfigV6ForHosts, fixedV6Hosts
  <2> QED
    BY <2>2, <2>3
<1>6. CASE migrateConfig
  <2>1. step \in 4..13 /\ step - 3 \in 1..10 /\ commands' = commands
    BY <1>6, VersionsApart DEF migrateConfig
  <2>2. CASE config.version = Old[step - 3]
    <3>1. PICK d \in migrated(config) : config' = d
      BY <1>6, <2>2 DEF migrateConfig
    <3>2. config.version \in Before6 \cup {"6", "7", "8", "9"}
      <4>1. \A i \in 1..10 : Old[i] \notin {"", globalMCConfigVersion}
        BY OldVersionsApart
      <4> QED
        BY <2>1, <2>2, <4>1, PlaceKnown, Versions
    <3>3. /\ config.version = "3" /\ config.broken = TRUE =>
               \A n \in DOMAIN config.hosts : config.hosts[n].keys = "none"
          /\ config.version = "6" /\ first.version = "6" => DOMAIN config.hosts \cap Known = {}
      <4>1. step > 1 /\ step > 3
        BY <2>1
      <4> QED
        BY <4>1, PlaceKnown
    <3>4. StageOf(first, d, commands)
      BY <1>2, <3>1, <3>2, <3>3, StageMigrated
    <3> QED
      BY <1>1, <1>2, <2>1, <3>1, <3>4
  <2>3. CASE config.version # Old[step - 3]
    BY <1>3, <1>6, <2>1, <2>3 DEF migrateConfig
  <2> QED
    BY <2>2, <2>3
<1>7. CASE initMC
  <2>1. commands' = commands
    BY <1>7 DEF initMC
  <2>2. CASE config = NoConfig
    <3>1. PICK d : config' = d /\ d = File(globalMCConfigVersion, DefaultsV10)
      BY <1>7, <2>2 DEF initMC
    <3>2. first = NoConfig
      BY <1>2, <2>2, NoConfigVersion DEF StageOf
    <3>3. d.version = globalMCConfigVersion
      BY <3>1 DEF File
    <3>4. StageOf(first, d, commands)
      BY <3>2, <3>3, Versions DEF StageOf, StageTen
    <3> QED
      BY <1>1, <1>2, <2>1, <3>1, <3>4
  <2>3. CASE config # NoConfig
    BY <1>3, <1>7, <2>1, <2>3 DEF initMC
  <2> QED
    BY <2>2, <2>3
<1>8. CASE setAlias \/ removeAlias
  BY <1>1, <1>2, <1>8, CommandStage
<1> QED
  BY <1>3, <1>4, <1>5, <1>6, <1>7, <1>8
     DEF ConfigNext, configVars, StartMc, fixConfigV6, EndMc

\* The version of the file tells which functions are still to come.
PlaceOf(f, c, st, starts_) ==
  /\ \A i \in 1..10 : c.version = Old[i] => st <= i + 3
  /\ c.version = "" => st < 15
  /\ c.broken \in BOOLEAN
  /\ c.version = "3" /\ c.broken = TRUE /\ st > 1 =>
       \A n \in DOMAIN c.hosts : c.hosts[n].keys = "none"
  /\ c.version = "6" /\ f.version \in Before6 =>
       starts_ >= 1 /\ st \notin 3..9 /\ (st \in {1, 2} => starts_ > 1)
  /\ c.version = "6" /\ f.version = "6" /\ st > 3 => DOMAIN c.hosts \cap Known = {}

LEMMA PlaceStep == ConfigOK /\ KeysInv /\ [ConfigNext]_configVars => PlaceInv'
PROOF
<1> SUFFICES ASSUME ConfigOK, KeysInv, [ConfigNext]_configVars PROVE PlaceInv'
  OBVIOUS
<1> SUFFICES PlaceOf(first, config', step', starts')
  BY FirstStays, VersionsApart DEF PlaceOf, PlaceInv
<1>1. PlaceOf(first, config, step, starts)
  BY PlaceKnown DEF PlaceOf
<1>2. /\ step \in 0..15 /\ starts \in Nat /\ (step > 0 => starts > 0)
      /\ IsConfig(config) /\ config.version \in ConfigVersions
      /\ first \in Configs /\ StageOf(first, config, commands)
  BY PlaceKnown
<1>3. CASE StartMc
  <2>1. step' = 1 /\ starts' = starts + 1 /\ config' = config
    BY <1>3 DEF StartMc
  <2>2. ASSUME NEW s \in Nat, PlaceOf(first, config, step, s)
        PROVE  PlaceOf(first, config, 1, s + 1)
    <3>1. /\ \A i \in 1..10 : 1 <= i + 3
          /\ 1 < 15 /\ ~(1 > 1) /\ ~(1 > 3) /\ 1 \notin 3..9
      OBVIOUS
    <3>2. config.version = "6" /\ first.version \in Before6 => s + 1 >= 1 /\ s + 1 > 1
      BY <2>2 DEF PlaceOf
    <3> QED
      BY <2>2, <3>1, <3>2 DEF PlaceOf
  <2> QED
    BY <1>1, <1>2, <2>1, <2>2
<1>4. CASE fixConfigV3
  <2>1. step = 1 /\ step' = 2 /\ starts' = starts
    BY <1>4 DEF fixConfigV3
  <2>2. CASE config.version = "3"
    <3>1. PICK d : config' = d /\ d = fixedV3(config)
      BY <1>4, <2>2 DEF fixConfigV3
    <3>2. /\ d.version = "3" /\ d.broken \in BOOLEAN
          /\ d.broken = TRUE => \A n \in DOMAIN d.hosts : d.hosts[n].keys = "none"
      <4>1. [config EXCEPT !.broken = FALSE] =
              [version |-> config.version, broken |-> FALSE,
               hosts |-> config.hosts, aliases |-> config.aliases]
        BY <1>2, FieldChanged
      <4>2. config.broken \in BOOLEAN
        BY <1>1 DEF PlaceOf
      <4>3. CASE config.broken /\ \E n \in DOMAIN config.hosts : config.hosts[n].keys # "none"
        BY <2>2, <3>1, <4>1, <4>3 DEF fixedV3
      <4>4. CASE ~(config.broken /\ \E n \in DOMAIN config.hosts : config.hosts[n].keys # "none")
        BY <2>2, <3>1, <4>2, <4>4 DEF fixedV3
      <4> QED
        BY <4>3, <4>4
    <3>3. \A i \in 1..10 : 2 <= i + 3
      OBVIOUS
    <3>4. PlaceOf(first, d, 2, starts)
      BY <3>2, <3>3 DEF PlaceOf
    <3> QED
      BY <2>1, <3>1, <3>4
  <2>3. CASE config.version # "3"
    <3>1. config' = config
      BY <1>4, <2>3 DEF fixConfigV3
    <3>2. PlaceOf(first, config, 1, starts) => PlaceOf(first, config, 2, starts)
      BY <2>3 DEF PlaceOf
    <3> QED
      BY <1>1, <2>1, <3>1, <3>2
  <2> QED
    BY <2>2, <2>3
<1>5. CASE fixConfigV6
  <2>1. step = 2 /\ (step' = 3 \/ step' = 0) /\ starts' = starts /\ config' = config
    BY <1>5 DEF fixConfigV6
  <2>2. config.version = "6" /\ first.version \in Before6 => step' = 0
    <3>1. config.version = "6" /\ first.version \in Before6 => DOMAIN config.hosts \cap Glob # {}
      BY <1>2, SixIsRefused DEF StageOf
    <3> QED
      BY <1>5, <3>1 DEF fixConfigV6
  <2>3. ASSUME PlaceOf(first, config, 2, starts),
               NEW s \in {0, 3}, config.version = "6" /\ first.version \in Before6 => s = 0
        PROVE  PlaceOf(first, config, s, starts)
    <3>1. /\ \A i \in 1..10 : s <= i + 3
          /\ s < 15 /\ ~(s > 3) /\ s \notin {1, 2} /\ (s = 0 => s \notin 3..9) /\ 2 > 1
      OBVIOUS
    <3> QED
      BY <2>3, <3>1 DEF PlaceOf
  <2> QED
    BY <1>1, <2>1, <2>2, <2>3
<1>6. CASE fixConfigV6ForHosts
  <2>1. step = 3 /\ step' = 4 /\ starts' = starts
    BY <1>6 DEF fixConfigV6ForHosts
  <2>2. ~(config.version = "6" /\ first.version \in Before6)
    BY <1>1, <2>1 DEF PlaceOf
  <2>3. PICK d : config' = d /\ (d \in fixedV6Hosts(config) \/ d = config)
                 /\ (config.version # "6" => d = config)
                 /\ (config.version = "6" => d \in fixedV6Hosts(config))
    BY <1>6 DEF fixConfigV6ForHosts
  <2>4. CASE config.version # "6"
    <3>1. PlaceOf(first, config, 3, starts) => PlaceOf(first, config, 4, starts)
      BY <2>4 DEF PlaceOf
    <3> QED
      BY <1>1, <2>1, <2>3, <2>4, <3>1
  <2>5. CASE config.version = "6"
    <3>1. d.version = "6" /\ d.broken = config.broken
      <4>1. CASE d = config
        BY <2>5, <4>1
      <4>2. CASE d # config
        <5>1. PICK g : d = [config EXCEPT !.hosts = g]
          BY <2>3, <4>2 DEF fixedV6Hosts
        <5>2. d = [version |-> config.version, broken |-> config.broken,
                   hosts |-> g, aliases |-> config.aliases]
          BY <1>2, <5>1, FieldChanged
        <5> QED
          BY <2>5, <5>2
      <4> QED
        BY <4>1, <4>2
    <3>2. first.version = "6" => DOMAIN d.hosts \cap Known = {}
      <4>1. CASE DOMAIN config.hosts \cap Known = {}
        BY <2>3, <2>5, <4>1 DEF fixedV6Hosts
      <4>2. CASE DOMAIN config.hosts \cap Known # {}
        <5>1. StageSix(first, config)
          BY <1>2, <2>5 DEF StageOf
        <5>2. first.version = "6" => config.hosts = first.hosts /\ config.aliases = first.aliases
          BY <4>2, <5>1, Versions DEF StageSix
        <5> QED
          BY <1>2, <2>3, <2>5, <4>2, <5>2, FixedSafely
      <4> QED
        BY <4>1, <4>2
    <3>3. \A i \in 1..10 : 4 <= i + 3
      OBVIOUS
    <3>4. config.broken \in BOOLEAN
      BY <1>1 DEF PlaceOf
    <3>5. PlaceOf(first, d, 4, starts)
      BY <2>2, <2>5, <3>1, <3>2, <3>3, <3>4 DEF PlaceOf
    <3> QED
      BY <2>1, <2>3, <3>5
  <2> QED
    BY <2>4, <2>5
<1>7. CASE migrateConfig
  <2>1. step \in 4..13 /\ step - 3 \in 1..10 /\ step' = step + 1 /\ starts' = starts
    BY <1>7, VersionsApart DEF migrateConfig
  <2>2. CASE config.version = Old[step - 3]
    <3>1. PICK d \in migrated(config) : config' = d
      BY <1>7, <2>2 DEF migrateConfig
    <3>2. d.version = newVersion(Old[step - 3]) /\ d.broken = FALSE
      BY <1>2, <2>2, <3>1, MigratedFrom
    <3>3. /\ \A j \in 1..10 : newVersion(Old[j]) # ""
          /\ \A j \in 1..10 : newVersion(Old[j]) # globalMCConfigVersion =>
               j # 10 /\ newVersion(Old[j]) = Old[j + 1]
      <4>1. ASSUME NEW j \in 1..10 PROVE j \in {1, 2, 3, 4, 5, 6, 7, 8, 9, 10}
        OBVIOUS
      <4>2. ASSUME NEW j \in 1..10 PROVE newVersion(Old[j]) # ""
        BY <4>1, VersionsApart, NewVersions
      <4>3. ASSUME NEW j \in 1..10, newVersion(Old[j]) # globalMCConfigVersion
            PROVE  j # 10 /\ newVersion(Old[j]) = Old[j + 1]
        BY <4>1, <4>3, VersionsApart, NewVersions DEF globalMCConfigVersion
      <4> QED
        BY <4>2, <4>3
    <3>4. \A j \in 1..10 : newVersion(Old[j]) = "6" => j = 6
      BY VersionsApart, NewVersions
    <3>5. d.version # ""
      BY <2>1, <3>2, <3>3
    <3>6. ASSUME NEW i \in 1..10, d.version = Old[i] PROVE step + 1 <= i + 3
      <4>1. d.version = Old[step - 3 + 1] /\ step - 3 # 10
        <5>1. d.version # globalMCConfigVersion
          BY <3>6, OldVersionsApart
        <5>2. PICK j \in 1..10 : j = step - 3
          BY <2>1
        <5> QED
          BY <3>2, <3>3, <5>1, <5>2
      <4>2. step - 3 + 1 \in 1..10
        BY <2>1, <4>1
      <4>3. i = step - 3 + 1
        BY <3>6, <4>1, <4>2, OldVersionsApart
      <4> QED
        BY <2>1, <4>3
    <3>7. d.version = "6" => step + 1 = 10 /\ first.version \in Before6
      <4> SUFFICES ASSUME d.version = "6" PROVE step + 1 = 10 /\ first.version \in Before6
        OBVIOUS
      <4>1. step - 3 = 6
        BY <2>1, <3>2, <3>4
      <4>2. config.version = "5"
        BY <2>2, <4>1, VersionsApart
      <4> QED
        BY <1>2, <2>1, <4>1, <4>2 DEF StageOf, Before6
    <3>8. starts > 0
      BY <1>2, <2>1
    <3>9. PlaceOf(first, d, step + 1, starts)
      <4>1. PICK t : t = step + 1
        OBVIOUS
      <4>2. d.version = "6" => t \notin 3..9 /\ t \notin {1, 2} /\ starts >= 1
        BY <1>2, <3>7, <3>8, <4>1
      <4>3. first.version \in Before6 => first.version # "6"
        BY Versions
      <4>4. PlaceOf(first, d, t, starts)
        BY <3>2, <3>5, <3>6, <3>7, <4>1, <4>2, <4>3 DEF PlaceOf
      <4> QED
        BY <4>1, <4>4
    <3> QED
      BY <2>1, <3>1, <3>9
  <2>3. CASE config.version # Old[step - 3]
    <3>1. config' = config
      BY <1>7, <2>3 DEF migrateConfig
    <3>2. ASSUME NEW i \in 1..10, config.version = Old[i] PROVE step + 1 <= i + 3
      <4>1. i # step - 3 /\ step <= i + 3
        BY <1>1, <2>3, <3>2 DEF PlaceOf
      <4> QED
        BY <2>1, <4>1
    <3>3. step + 1 < 15 /\ step > 1 /\ step > 3 /\ (step \notin 3..9 => step + 1 \notin 3..9 \cup {1, 2})
      BY <2>1
    <3>4. PlaceOf(first, config, step + 1, starts)
      BY <1>1, <3>2, <3>3 DEF PlaceOf
    <3> QED
      BY <2>1, <3>1, <3>4
  <2> QED
    BY <2>2, <2>3
<1>8. CASE initMC
  <2>1. step = 14 /\ step' = 15 /\ starts' = starts
    BY <1>8, VersionsApart DEF initMC
  <2>2. \A i \in 1..10 : config.version # Old[i]
    BY <1>1, <2>1 DEF PlaceOf
  <2>3. PICK d : config' = d /\ (d = config \/ d = File(globalMCConfigVersion, DefaultsV10))
                 /\ (config = NoConfig => d = File(globalMCConfigVersion, DefaultsV10))
    BY <1>8 DEF initMC
  <2>4. d.version = globalMCConfigVersion /\ d.broken \in BOOLEAN
    <3>1. CASE config = NoConfig
      <4>1. d = File(globalMCConfigVersion, DefaultsV10)
        BY <2>3, <3>1
      <4> QED
        BY <4>1, FileFields
    <3>2. CASE config # NoConfig
      <4>1. d = config \/ (d.version = globalMCConfigVersion /\ d.broken = FALSE)
        BY <2>3, FileFields
      <4>2. config.version # ""
        BY <1>2, <3>2 DEF StageOf
      <4>3. config.version = globalMCConfigVersion
        BY <1>2, <2>2, <4>2, VersionsApart DEF ConfigVersions
      <4> QED
        BY <1>1, <4>1, <4>3 DEF PlaceOf
    <3> QED
      BY <3>1, <3>2
  <2>5. \A i \in 1..10 : globalMCConfigVersion # Old[i]
    BY OldVersionsApart
  <2>6. PlaceOf(first, d, 15, starts)
    BY <2>4, <2>5 DEF PlaceOf, globalMCConfigVersion
  <2> QED
    BY <2>1, <2>3, <2>6
<1>9. CASE EndMc
  <2>1. step' = 0 /\ starts' = starts /\ config' = config
    BY <1>9 DEF EndMc
  <2>2. ASSUME NEW s, PlaceOf(first, config, s, starts) PROVE PlaceOf(first, config, 0, starts)
    <3>1. /\ \A i \in 1..10 : 0 <= i + 3
          /\ 0 < 15 /\ ~(0 > 1) /\ ~(0 > 3) /\ 0 \notin 3..9 /\ 0 \notin {1, 2}
      OBVIOUS
    <3> QED
      BY <2>2, <3>1 DEF PlaceOf
  <2> QED
    BY <1>1, <2>1, <2>2
<1>10. CASE setAlias \/ removeAlias
  <2>1. PICK d : config' = d
    OBVIOUS
  <2>2. d.version = globalMCConfigVersion /\ d.broken = FALSE /\ step' = 0
    BY <1>10, <2>1, CommandStage
  <2>3. \A i \in 1..10 : globalMCConfigVersion # Old[i]
    BY OldVersionsApart
  <2>4. PlaceOf(first, d, 0, starts')
    BY <2>2, <2>3 DEF PlaceOf, globalMCConfigVersion
  <2> QED
    BY <2>1, <2>2, <2>4
<1>11. CASE UNCHANGED configVars
  BY <1>1, <1>11 DEF configVars
<1> QED
  BY <1>3, <1>4, <1>5, <1>6, <1>7, <1>8, <1>9, <1>10, <1>11 DEF ConfigNext

\* Where the key is that is owed.
LEMMA KeyFound ==
  ASSUME NEW f \in Configs, NEW c, NEW k \in Nat, StageOf(f, c, k), c.version \in ConfigVersions,
         NEW key \in KeysOwed(f)
  PROVE  \/ key \in ConfigKeys(c)
         \/ k > 0 /\ key \in KeysReplaced(f)
         \/ k > 0 /\ f.version \in Before6 \cup {"6", "7"}
PROOF
<1>1. key \in UserKeys /\ key \in ConfigKeys(f)
  BY DEF KeysOwed, ConfigKeys, KeysIn
<1>2. \A h, n : n \in DOMAIN h /\ h[n].keys = key => key \in KeysIn(h)
  BY <1>1 DEF KeysIn
<1>3. /\ KeysIn(c.hosts) \subseteq ConfigKeys(c) /\ KeysIn(c.aliases) \subseteq ConfigKeys(c)
  BY DEF ConfigKeys
<1>4. f # NoConfig
  <2>1. NoConfig.hosts = Empty /\ NoConfig.aliases = Empty
    BY DEF NoConfig, File
  <2>2. HasKeysOf(Empty, {})
    BY DefaultsHaveNone
  <2>3. KeysIn(Empty) \subseteq {}
    BY <2>2, KeysAreIn
  <2> QED
    BY <1>1, <2>1, <2>3 DEF ConfigKeys
<1>5. CASE c.version \in Before6
  <2>1. f.version \in Before6 /\ SameAs(f, c)
    BY <1>5 DEF StageOf
  <2>2. \E n \in DOMAIN f.hosts : f.hosts[n].keys = key
    BY <2>1, OwedBefore6
  <2> QED
    BY <1>2, <1>3, <2>1, <2>2 DEF SameAs
<1>6. CASE c.version = "6"
  <2>1. CASE SafeSix(f, c)
    BY <1>2, <1>3, <2>1 DEF SafeSix, HoldsSafely
  <2>2. CASE f.version = "6" /\ c.hosts = f.hosts
    BY <1>2, <1>3, <2>2, Owed6
  <2> QED
    BY <1>6, <2>1, <2>2 DEF StageOf, StageSix
<1>7. CASE c.version = "7"
  BY <1>2, <1>3, <1>7 DEF StageOf, HasKey
<1>8. CASE c.version = "8"
  <2>1. f.version = "8" /\ c.hosts = f.hosts /\ FirstAliases(f) = f.hosts
    BY <1>8 DEF StageOf, FirstAliases, globalMCConfigVersion
  <2> QED
    BY <1>2, <1>3, <2>1, OwedLater
<1>9. CASE c.version = "9"
  BY <1>2, <1>3, <1>9 DEF StageOf, HasSame
<1>10. CASE c.version = globalMCConfigVersion
  <2>1. StageTen(f, c, k)
    BY <1>10 DEF StageOf
  <2> QED
    BY <1>2, <1>3, <1>4, <2>1 DEF StageTen, HasKey, HasSame
<1>11. CASE c.version = ""
  BY <1>4, <1>11 DEF StageOf
<1> QED
  BY <1>5, <1>6, <1>7, <1>8, <1>9, <1>10, <1>11, Versions

\* The keys of the user are not lost on the way, wherever mc ends and however often
\* it is started again, and mc refuses to start only where it says why: KeysKept.
THEOREM KeysAreKept == ConfigSpec => []KeysKept
PROOF
<1>1. ConfigOK /\ KeysInv => KeysKept
  <2> SUFFICES ASSUME ConfigOK, KeysInv PROVE KeysKept
    OBVIOUS
  <2> DEFINE given == IF commands > 0 THEN KeysReplaced(first) ELSE {}
  <2>1. /\ first \in Configs /\ StageOf(first, config, commands) /\ commands \in Nat
        /\ config.version \in ConfigVersions
    BY PlaceKnown
  <2>2. RefusedInv
    BY DEF KeysInv
  <2>3. CASE commands > 0 /\ first.version \in Before6 \cup {"6", "7"}
    <3>1. first.version \notin {"8", "9", globalMCConfigVersion}
      BY <2>3, Versions DEF globalMCConfigVersion
    <3> QED
      BY <2>2, <2>3, <3>1 DEF KeysKept, RefusedInv, Before6
  <2>4. CASE ~(commands > 0 /\ first.version \in Before6 \cup {"6", "7"})
    <3>1. \A key \in KeysOwed(first) : key \in ConfigKeys(config) \/ key \in given
      BY <2>1, <2>4, KeyFound
    <3>2. ConfigKeys(first) \ (MayLose(first) \cup given) \subseteq ConfigKeys(config)
      BY <3>1 DEF KeysOwed
    <3> HIDE DEF given
    <3> QED
      BY <2>2, <3>2 DEF KeysKept, RefusedInv, Before6, ConfigKeys, given
  <2> QED
    BY <2>3, <2>4
<1>2. ConfigOK /\ [ConfigNext]_configVars => ConfigOK'
  BY ConfigFileStep, ConfigNumbersStep DEF ConfigOK
<1>3. ConfigOK /\ KeysInv /\ [ConfigNext]_configVars => KeysInv'
  <2> SUFFICES ASSUME ConfigOK, KeysInv, [ConfigNext]_configVars PROVE KeysInv'
    OBVIOUS
  <2>1. StageOf(first, config, commands)' /\ first' \in Configs
    BY StageStep
  <2>2. PlaceInv' /\ RefusedInv'
    BY PlaceStep, RefusedStep
  <2> QED
    BY <2>1, <2>2 DEF KeysInv
<1> QED
  BY <1>1, <1>2, <1>3, ConfigInitOK, KeysFirst, PTL DEF ConfigSpec

===============================================================================
