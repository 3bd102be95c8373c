------------------------------- MODULE MCRemoval -------------------------------
(* Instances of Removal for TLC.                                             *)
EXTENDS Removal

\* A version, by the time of which the listing of its object is sorted.
V(b, p, latest, marker, young) ==
  [bucket |-> b, path |-> p, isDir |-> FALSE, dirs |-> {}, latest |-> latest,
   marker |-> marker, isPrefix |-> FALSE, young |-> young, error |-> "none"]
Obj(b, p) == V(b, p, TRUE, FALSE, FALSE)
Err(e) == [Obj("a", "") EXCEPT !.error = e]

\* What remains of a listing without some of its entries.
Parts(s) == {SelectSeq(s, LAMBDA e : e \in S) : S \in SUBSET {s[i] : i \in DOMAIN s}}

\* Objects of two buckets, one of them young, a prefix and an error.
Objects(error) ==
  <<Obj("a", "x"), V("a", "y", TRUE, FALSE, TRUE), Err(error),
    [Obj("a", "z") EXCEPT !.isPrefix = TRUE], Obj("a", "z1"), Obj("b", "x")>>
\* An object with an old version, one whose latest version is a marker, and one
\* of another bucket.
Versions ==
  <<V("a", "x", TRUE, FALSE, TRUE), V("a", "x", FALSE, FALSE, FALSE),
    V("a", "y", TRUE, TRUE, FALSE), V("a", "y", FALSE, FALSE, TRUE),
    V("b", "x", FALSE, FALSE, FALSE)>>
\* Files of two directories, one in the other; after what is in them come the
\* directories.
FsFile(p, dirs, young) ==
  [Obj("a", p) EXCEPT !.dirs = dirs, !.young = young]
Directories ==
  <<FsFile("d/e/x", {"d/e", "d"}, FALSE), FsFile("d/e/y", {"d/e", "d"}, TRUE),
    [FsFile("d/e", {"d"}, FALSE) EXCEPT !.isDir = TRUE],
    [FsFile("d", {}, TRUE) EXCEPT !.isDir = TRUE]>>
SomeListings ==
  {Directories} \cup Parts(Objects("denied")) \cup Parts(Objects("failed"))
    \cup Parts(Versions)

\* The file system has no versions.
SomeRemoveOptions ==
  {[client |-> cm[1], mode |-> cm[2], isFake |-> flags[1], isForce |-> flags[2],
    olderThan |-> flags[3]] :
     cm \in {"s3", "fs"} \X {"single", "plain", "nonCurrent"} \ {<<"fs", "nonCurrent">>},
     flags \in {<<FALSE, FALSE, FALSE>>, <<FALSE, TRUE, TRUE>>, <<TRUE, TRUE, FALSE>>}}

===============================================================================
