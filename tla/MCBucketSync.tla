----------------------------- MODULE MCBucketSync -----------------------------
(* Instances of BucketSync for TLC.                                          *)
EXTENDS BucketSync, TLC

\* "a" < "a-b" < "a-b/" < "a/" < "b" < "b/"
ThreeNames == {"a", "a-b", "b"}
PlainOf == "a" :> 1 @@ "a-b" :> 2 @@ "b" :> 5
SlashOf == "a" :> 4 @@ "a-b" :> 3 @@ "b" :> 6
AllDirs == [n \in ThreeNames |-> "dir"]

NoNames == {}
LastName == {"b"}

Opt(fake, remove, active, create, preserve) ==
  [isFake |-> fake, isRemove |-> remove, activeActive |-> active,
   createDstBuckets |-> create, preserve |-> preserve]
\* Every combination of the flags; --fake, which changes nothing, with the two that
\* tell what there is to do.
BucketOptions ==
  {Opt(FALSE, r, a, c, p) : r, a, c, p \in BOOLEAN}
    \cup {Opt(TRUE, r, FALSE, c, FALSE) : r, c \in BOOLEAN}
RemoveOption == {Opt(FALSE, TRUE, FALSE, TRUE, FALSE)}

OnlyS3 == {"s3"}
OnlyFs == {"fs"}

===============================================================================
