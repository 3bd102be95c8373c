------------------------------------ MODULE Cat ------------------------------------
(***************************************************************************)
(* mc cat and mc head of objects (cmd/cat-main.go, cmd/head-main.go): an   *)
(* argument is looked at first, for its size and the version that is       *)
(* meant, and then read by a second request, while others put new versions *)
(* of the object or, in a bucket without versions, replace it.             *)
(***************************************************************************)
EXTENDS Integers, Sequences

CONSTANTS
  CatArgs,      \* the objects to show: sequences of names
  CatOptions,   \* [head, rewind : BOOLEAN, tail, offset, lines : Nat], 0 without
  CatSizes,     \* the sizes of what is put
  MaxCatPuts    \* bound: what others put while the command runs

ASSUME CatAssumption ==
  /\ \A a \in CatArgs : a \in Seq({a[i] : i \in DOMAIN a}) /\ a # <<>>
  /\ CatOptions \subseteq [head : BOOLEAN, rewind : BOOLEAN, tail : Nat, offset : Nat,
                          lines : Nat]
  /\ CatSizes \subseteq Nat /\ MaxCatPuts \in Nat

VARIABLES
  catArgs, catOpts, versioned,
  stored,       \* name -> the sizes of its versions, the oldest first
  asOf,         \* name -> the version that --rewind means
  catAt,        \* "stat", "get" or "copy"
  arg,          \* the place in the arguments
  pinned,       \* the version that the request asks for, 0 when for any
  from, expected, \* where the reading begins; how much must come, -1 unknown
  body,         \* the version that the server sends
  output,       \* what was written: [name, version, first, last] for an argument
  stdoutClosed, \* the argument at which the reader of stdout closed it, or 0
  catExit       \* "none", "ok" or "error"

catVars == <<catArgs, catOpts, versioned, stored, asOf, catAt, arg, pinned, from,
             expected, body, output, stdoutClosed, catExit>>

CatInit ==
  /\ catArgs \in CatArgs /\ catOpts \in CatOptions /\ versioned \in BOOLEAN
  /\ catOpts.rewind => versioned
  /\ stored \in [{catArgs[i] : i \in DOMAIN catArgs} -> [1..2 -> CatSizes]]
  /\ asOf = [n \in DOMAIN stored |-> 1]
  /\ catAt = "stat" /\ arg = 1 /\ pinned = 0 /\ from = 0 /\ expected = -1 /\ body = 0
  /\ output = <<>> /\ stdoutClosed = 0 /\ catExit = "none"

Shows == catArgs[arg]
Latest == Len(stored[Shows])
CatRuns == catExit = "none"

\* Others put a version of an object.
OthersPut ==
  /\ CatRuns
  /\ \E n \in DOMAIN stored, s \in CatSizes :
       /\ Len(stored[n]) < 2 + MaxCatPuts
       /\ stored' = [stored EXCEPT ![n] = Append(@, s)]
  /\ UNCHANGED <<catArgs, catOpts, versioned, asOf, catAt, arg, pinned, from,
                 expected, body, output, stdoutClosed, catExit>>

\* catURL stats the object: its size, and its version when the bucket has any.
\* With --tail the reading begins before the end of what is there now.
MeantVersion == IF catOpts.rewind THEN asOf[Shows] ELSE Latest
StatAndPin(version) ==
  LET n == stored[Shows][MeantVersion] IN
  /\ CatRuns /\ catAt = "stat" /\ ~catOpts.head
  /\ pinned' = version
  /\ from' = IF catOpts.tail = 0 THEN catOpts.offset
             ELSE IF n > catOpts.tail THEN n - catOpts.tail ELSE 0
  /\ expected' = n - from'
  /\ IF expected' < 0 THEN catExit' = "error" /\ UNCHANGED catAt
                      ELSE catAt' = "get" /\ UNCHANGED catExit
  /\ UNCHANGED <<catArgs, catOpts, versioned, stored, asOf, arg, body, output,
                 stdoutClosed>>

\* Mutant: the version that was looked at is not the one that is asked for.
StatUnpinned == StatAndPin(0)

Stat == StatAndPin(IF versioned THEN MeantVersion ELSE 0)

\* headURL stats only with --rewind, for the version.
HeadStat ==
  /\ CatRuns /\ catAt = "stat" /\ catOpts.head
  /\ pinned' = IF catOpts.rewind THEN asOf[Shows] ELSE 0
  /\ catAt' = "get"
  /\ UNCHANGED <<catArgs, catOpts, versioned, stored, asOf, arg, from, expected,
                 body, output, stdoutClosed, catExit>>

\* S3Client.Get: one request, one answer.  A range that begins at the end of the
\* object or behind it is refused.
Get ==
  LET v == IF pinned = 0 THEN Latest ELSE pinned IN
  /\ CatRuns /\ catAt = "get"
  /\ IF from > 0 /\ from >= stored[Shows][v]
     THEN catExit' = "error" /\ UNCHANGED <<catAt, body>>
     ELSE catAt' = "copy" /\ body' = v /\ UNCHANGED catExit
  /\ UNCHANGED <<catArgs, catOpts, versioned, stored, asOf, arg, pinned, from,
                 expected, output, stdoutClosed>>

\* Where what is asked for ends: with all that comes, for head with its lines.
ShownEnd == IF catOpts.head /\ catOpts.lines < stored[Shows][body]
          THEN catOpts.lines ELSE stored[Shows][body]
WriteOut(last) == output' = Append(output, [name |-> Shows, version |-> body,
                                            first |-> from, last |-> last])

\* The options of the next argument are those of the command: catURL has them by
\* value.
NextArgument ==
  IF arg = Len(catArgs)
  THEN catExit' = "ok" /\ UNCHANGED <<catAt, arg, from, expected, pinned>>
  ELSE /\ arg' = arg + 1 /\ catAt' = "stat" /\ from' = 0 /\ expected' = -1
       /\ pinned' = 0 /\ UNCHANGED catExit

\* catOut copies all that comes and compares its size; headOut stops after the
\* lines it was asked for.
Out ==
  /\ CatRuns /\ catAt = "copy"
  /\ stdoutClosed = 0 \/ ShownEnd = from
  /\ WriteOut(ShownEnd)
  /\ IF ~catOpts.head /\ expected # -1 /\ ShownEnd - from # expected
     THEN catExit' = "error" /\ UNCHANGED <<catAt, arg, from, expected, pinned>>
     ELSE NextArgument
  /\ UNCHANGED <<catArgs, catOpts, versioned, stored, asOf, body, stdoutClosed>>

\* The reader of stdout closes it, or has: catOut and headOut take EPIPE for
\* success, with what was written until then, and the next argument is read as
\* if nothing had happened.
OutClosed ==
  /\ CatRuns /\ catAt = "copy"
  /\ \E last \in from..(ShownEnd - 1) :
       WriteOut(last) /\ (stdoutClosed # 0 => last = from)
  /\ stdoutClosed' = IF stdoutClosed = 0 THEN arg ELSE stdoutClosed
  /\ NextArgument
  /\ UNCHANGED <<catArgs, catOpts, versioned, stored, asOf, body>>

\* A request fails, the connection is lost, a write to stdout fails in another
\* way, or the signal that comes with EPIPE ends mc, which does not handle it.
CatFails ==
  /\ CatRuns /\ catExit' = "error"
  /\ UNCHANGED <<catArgs, catOpts, versioned, stored, asOf, catAt, arg, pinned,
                 from, expected, body, output, stdoutClosed>>

CatNext == OthersPut \/ Stat \/ HeadStat \/ Get \/ Out \/ OutClosed \/ CatFails

CatSpec == CatInit /\ [][CatNext]_catVars

-----------------------------------------------------------------------------
CatTypeOK ==
  /\ catAt \in {"stat", "get", "copy"} /\ arg \in DOMAIN catArgs
  /\ pinned \in 0..2 + MaxCatPuts /\ from \in Nat /\ expected \in Int
  /\ catExit \in {"none", "ok", "error"} /\ Len(output) <= Len(catArgs)
  /\ stdoutClosed \in 0..Len(catArgs)

\* What was asked for, or the beginning of it.
AllShown(o) ==
  LET n == stored[o.name][o.version] IN
  IF catOpts.head
  THEN o.first = 0 /\ (o.last = n \/ o.last = catOpts.lines)
  ELSE /\ o.last = n
       /\ IF catOpts.tail = 0 THEN o.first = catOpts.offset
          ELSE o.last - o.first = IF n < catOpts.tail THEN n ELSE catOpts.tail
BeginningShown(o) ==
  /\ o.last <= stored[o.name][o.version]
  /\ catOpts.head => o.first = 0
  /\ ~catOpts.head /\ catOpts.tail = 0 => o.first = catOpts.offset

\* Of each argument a successful command has shown the part that was asked for,
\* of one version: of the one that was there at the time of --rewind, and
\* otherwise of one that was the latest while the command ran.  That an object
\* is replaced between the two requests, so that the tail begins at the wrong
\* place, does not go unnoticed.  Where the reader has closed stdout the command
\* succeeds too, and what it has shown is the beginning of that part, from the
\* right place but for --tail, of which the size is not compared then.
CatShowsOneVersion ==
  catExit = "ok" =>
    /\ Len(output) = Len(catArgs)
    /\ \A i \in DOMAIN output :
         LET o == output[i] IN
         /\ o.name = catArgs[i]
         /\ IF catOpts.rewind THEN o.version = asOf[o.name] ELSE o.version >= 2
         /\ IF stdoutClosed \in 1..i THEN BeginningShown(o) ELSE AllShown(o)

===============================================================================
