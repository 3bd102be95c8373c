----------------------------- MODULE MCDifference -----------------------------
(* Instances of Difference for TLC.                                          *)
EXTENDS Difference, TLC

TwoKeys == {1, 2}
FourKeys == {1, 2, 3, 4}

\* Keys whose NFC forms are ordered like their bytes.
Composed(S) == [k \in S |-> k]
ComposedTwo == Composed(TwoKeys)
ComposedFour == Composed(FourKeys)

\* Key 1 is written with a combining character ("a" U+0308 ...), its NFC form
\* ("U+00E4 ...") sorts after key 2 ("b").
Decomposed == 1 :> 2 @@ 2 :> 1 @@ 3 :> 3 @@ 4 :> 4

NoKeys == {}
FirstKey == {1}
SecondKey == {2}
ThirdKey == {3}

\* Key 4 may differ in every way; how excluded and invalid ones differ matters
\* less.
FourVariants ==
  {1 :> a @@ 2 :> b @@ 3 :> {} @@ 4 :> c :
     a \in {{}, {"size"}}, b \in {{}, {"size"}},
     c \in {{}, {"size", "newer"}, {"newer"}, {"userMetadata"},
            {"userMetadata", "metadata"}}}
TwoVariants == [TwoKeys -> {{}, {"size"}}]

\* The options runMirror computes from the flags of the command line.
Opt(remove, overwrite, active, meta, fake) ==
  [sourceListingOnly |-> ~remove /\ ~active, isMetadata |-> meta,
   isOverwrite |-> overwrite, isFake |-> fake, activeActive |-> active,
   isRemove |-> remove]
SomeOptions ==
  {Opt(TRUE, FALSE, FALSE, FALSE, FALSE), Opt(TRUE, TRUE, FALSE, TRUE, FALSE),
   Opt(FALSE, FALSE, TRUE, TRUE, FALSE), Opt(FALSE, TRUE, FALSE, FALSE, TRUE),
   Opt(FALSE, FALSE, FALSE, TRUE, FALSE)}
RemoveOption == {Opt(TRUE, TRUE, FALSE, TRUE, FALSE)}

===============================================================================
