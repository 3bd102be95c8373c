------------------------------ MODULE MCCommands ------------------------------
(* One instance of Commands for TLC: the instances of its modules.           *)
EXTENDS Commands, MCBucketSync, MCCopySession, MCRemoval, MCConfigMigrate

\* [length, claim]: as claimed, too short, too long, unknown and none claimed.
Stream(n, claim) == [length |-> n, claim |-> claim]
SomeStreams == {Stream(1, 2), Stream(2, 1), Stream(1, -1)}

\* A file in the root, and one in a directory that comes and goes.
ParentsOf == "g" :> "root" @@ "f" :> "d"

\* Versions of "a" and "b" by time; the listing has them in any order.
Version(o, t, l, m, g) ==
  [object |-> o, time |-> t, latest |-> l, marker |-> m, glacier |-> g]
VersionsOfA == {Version("a", 3, TRUE, m, FALSE) : m \in BOOLEAN}
SomeVersionListings ==
  {<<a3, Version("a", 2, FALSE, FALSE, FALSE), Version("a", 1, FALSE, FALSE, g),
     Version("b", 2, TRUE, m, FALSE), Version("b", 1, FALSE, TRUE, FALSE)>> :
     a3 \in VersionsOfA, g \in BOOLEAN, m \in BOOLEAN}
  \cup {<<Version("a", 1, FALSE, FALSE, FALSE), Version("a", 2, FALSE, TRUE, FALSE), a3,
          Version("b", 1, TRUE, FALSE, TRUE), Version("c", 1, TRUE, FALSE, FALSE)>> :
          a3 \in VersionsOfA}
  \cup {<<>>, <<Version("b", 1, TRUE, FALSE, FALSE), Version("a", 1, TRUE, FALSE, FALSE)>>,
        <<Version("a", 3, TRUE, FALSE, TRUE), Version("a", 2, FALSE, FALSE, FALSE)>>}
SomeUndoOptions ==
  [last : 1..3, action : {"", "PUT", "DELETE"}, isRecursive : BOOLEAN,
   isDryRun : BOOLEAN, target : {"a"}]

\* Two buckets, in the order of their listing.
VersionedKey(b, n) == [bucket |-> b, name |-> n]
ThreeVersionedKeys ==
  <<VersionedKey("b", "x"), VersionedKey("b", "y"), VersionedKey("c", "x")>>

\* What mc support perf is asked for.
SomePerfPlans == {<<"net", "drive", "object", "client">>, <<"site-replication">>}

\* mc cat and mc head, with --rewind, --tail, --offset and --lines.
CatOption(head, rewind, tail, offset, lines) ==
  [head |-> head, rewind |-> rewind, tail |-> tail, offset |-> offset, lines |-> lines]
SomeCatOptions ==
  {CatOption(FALSE, TRUE, t, 0, 0) : t \in {0, 2}}
    \cup {CatOption(FALSE, FALSE, 2, 0, 0), CatOption(FALSE, FALSE, 0, 2, 0)}
    \cup {CatOption(TRUE, r, 0, 0, 2) : r \in BOOLEAN}
TwoCatArgs == {<<"a", "b">>}

===============================================================================
