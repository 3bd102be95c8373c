------------------------------------- MODULE Od -------------------------------------
(***************************************************************************)
(* mc od (cmd/od-main.go, cmd/od-stream.go): a file or an object goes to   *)
(* another in parts, some of which may be skipped.  For a copy,            *)
(* odSetSizes decides where it begins and how much is put; a download      *)
(* from a server asks for one part after the other.                        *)
(***************************************************************************)
EXTENDS Integers, Sequences

CONSTANTS
  OdSources,  \* the sizes of sources: in bytes, or, of a download, in parts
  OdNumbers   \* what the operands parts=, size= and skip= may be, 0 for none

ASSUME OdAssumption == OdSources \subseteq Nat /\ OdNumbers \subseteq Nat

VARIABLES
  od,       \* [download, toFile : BOOLEAN, n \in OdSources, parts, size, skip]
  odAt,     \* "sizes", "put", "multi" or "over"
  odPlan,   \* what odSetSizes returns
  odParts,  \* the parts that multiGet has asked for
  odGot,    \* the target: the places of its bytes, or parts, in the source
  odTold    \* "none", "ok" or "error"

odVars == <<od, odAt, odPlan, odParts, odGot, odTold>>

\* All that is left of the source is put when combined is negative.
Plan(combined, part, parts, skip) ==
  [combined |-> combined, part |-> part, parts |-> parts, skip |-> skip]

Ceil(a, b) == (a + b - 1) \div b

OdInit ==
  /\ od \in [download : BOOLEAN, toFile : BOOLEAN, n : OdSources, parts : OdNumbers,
             size : OdNumbers, skip : OdNumbers]
  /\ od.download => od.toFile
  /\ odAt = "sizes" /\ odPlan = Plan(0, 0, 0, 0) /\ odParts = <<>> /\ odGot = <<>>
  /\ odTold = "none"

\* Mutant: the number of the parts to skip is taken for the number of bytes.
OdSetSizesUnscaled(o) ==
  IF o.size = 0 \/ o.size > o.n THEN Plan(o.n, o.n, 1, 0)
  ELSE Plan(o.size * o.parts, o.size, o.parts, o.skip)

\* A source of size 0 is a device such as /dev/zero.
OdSetSizes(o) ==
  LET skip == o.skip * o.size
      combined == o.size * o.parts
      once == IF o.parts = 0 THEN 1 ELSE o.parts
      left == Ceil(o.n, o.size) - o.skip
  IN CASE o.size = 0 /\ o.parts <= 1 -> Plan(o.n, o.n, 1, 0)
       [] o.size = 0 /\ o.parts > 1 ->
            LET part == Ceil(o.n, o.parts) IN
            Plan(-1, part, o.parts - o.skip, o.skip * part)
       [] o.size > 0 /\ o.n = 0 -> Plan(o.size * once, o.size, once, skip)
       [] o.size > o.n /\ o.n > 0 -> Plan(o.n, o.n, 1, 0)
       [] o.size \in 1..o.n /\ o.parts = 0 -> Plan(o.n, o.size, left, skip)
       [] o.size \in 1..o.n /\ o.parts > 0 ->
            IF o.n - skip < combined THEN Plan(o.n - skip, o.size, left, skip)
                                     ELSE Plan(combined, o.size, o.parts, skip)

OdOver(end) == odAt' = "over" /\ odTold' = end

\* odDownload takes no size, and the whole object when no parts are given.
OdSizes ==
  /\ odAt = "sizes"
  /\ IF ~od.download
     THEN odPlan' = OdSetSizes(od) /\ odAt' = "put" /\ UNCHANGED <<odGot, odTold>>
     ELSE /\ UNCHANGED odPlan
          /\ IF od.size > 0 THEN OdOver("error") /\ UNCHANGED odGot
             ELSE IF od.parts = 0
             THEN odGot' = [i \in 1..od.n |-> i] /\ OdOver("ok")
             ELSE odAt' = "multi" /\ UNCHANGED <<odGot, odTold>>
  /\ UNCHANGED <<od, odParts>>

\* odCopy reads from where it begins; fewer bytes than promised are an error.  A
\* file takes no more than promised; of a longer body the server may not.  In
\* the end the skipped bytes are divided by the size of a part, which of an
\* empty source is 0: mc panics after it has copied.
OdCopy ==
  LET endless == od.n = 0 /\ od.size > 0
      rest == IF od.n > odPlan.skip THEN od.n - odPlan.skip ELSE 0
      want == IF odPlan.combined < 0 THEN rest ELSE odPlan.combined
  IN
  /\ odAt = "put"
  /\ \/ /\ want <= rest \/ endless
        /\ odGot' = [i \in 1..want |-> odPlan.skip + i]
        /\ OdOver(IF odPlan.part = 0 THEN "panic" ELSE "ok")
     \/ /\ want # rest \/ odPlan.skip >= od.n
        /\ want < rest => ~od.toFile
        /\ OdOver("error") /\ UNCHANGED odGot
  /\ UNCHANGED <<od, odPlan, odParts>>

\* multiGet makes a reader for every part from 1 + skip on; but the part that each
\* of them asks for is the last, parts.
OdAsk ==
  /\ odAt = "multi" /\ Len(odParts) + od.skip < od.parts
  /\ odParts' = Append(odParts, od.parts)
  /\ UNCHANGED <<od, odAt, odPlan, odGot, odTold>>

\* The readers are read one after the other; the object may not have the part.
OdMulti ==
  /\ odAt = "multi" /\ Len(odParts) + od.skip >= od.parts
  /\ IF \A i \in DOMAIN odParts : odParts[i] <= od.n
     THEN odGot' = odParts /\ OdOver("ok")
     ELSE OdOver("error") /\ UNCHANGED odGot
  /\ UNCHANGED <<od, odPlan, odParts>>

OdNext == OdSizes \/ OdCopy \/ OdAsk \/ OdMulti

OdSpec == OdInit /\ [][OdNext]_odVars

-----------------------------------------------------------------------------
OdTypeOK ==
  /\ odAt \in {"sizes", "put", "multi", "over"}
  /\ odTold \in {"none", "ok", "error", "panic"}
  /\ Len(odParts) <= od.parts

\* The part of the source that dd would take: so many parts behind those that
\* are skipped, or all behind them.
Wanted(o) ==
  LET part == IF o.size > 0 THEN o.size ELSE Ceil(o.n, o.parts)
      end == (o.skip + o.parts) * part
  IN {b \in 1..o.n : b > o.skip * part
                     /\ (o.size > 0 /\ o.parts > 0 => b <= end)}

\* A copy that succeeds has put what was asked for, in its order.  A source that
\* fits into one part goes as a whole, whatever is skipped.
OdPutsItsRange ==
  odTold = "ok" /\ ~od.download /\ od.n > 0 =>
    /\ \A i \in DOMAIN odGot : odGot[i] = odGot[1] + i - 1
    /\ {odGot[i] : i \in DOMAIN odGot} =
         IF od.size > od.n \/ (od.size = 0 /\ od.parts <= 1) THEN 1..od.n
         ELSE Wanted(od)

===============================================================================
