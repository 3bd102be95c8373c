-------------------------- MODULE Difference_proofs --------------------------
(***************************************************************************)
(* Theorems about Difference, for every set of keys, every content of both *)
(* sides, every options and every way a listing may fail.                  *)
(***************************************************************************)
EXTENDS Difference, WellFoundedInduction, TLAPS

(***************************************************************************)
(* The popped entry of a listing is its least key.                         *)
(***************************************************************************)
LEMMA FirstIsLeast ==
  ASSUME NEW S, S \subseteq Nat, S # {}
  PROVE  /\ First(S) \in S
         /\ \A j \in S : First(S) <= j
<1> DEFINE R == {ss \in Nat \X Nat : ss[1] < ss[2]}
<1>1. R = OpToRel(<, Nat)
  BY Zenon DEF OpToRel
<1>2. IsWellFoundedOn(R, Nat)
  BY <1>1, NatLessThanWellFounded, Zenon
<1>3. \E k \in S : \A j \in S : ~ (<<j, k>> \in R)
  <2> HIDE DEF R
  <2> QED  BY <1>2, WFMin
<1>4. PICK k \in S : \A j \in S : ~ (<<j, k>> \in R)
  BY <1>3
<1>5. \A j \in S : k <= j
  <2> TAKE j \in S
  <2>1. j \in Nat /\ k \in Nat
    OBVIOUS
  <2>2. <<j, k>> \notin R
    BY <1>4
  <2>3. ~ (j < k)
    BY <2>1, <2>2
  <2> QED  BY <2>1, <2>3
<1> QED
  BY <1>5 DEF First

(***************************************************************************)
(* Type correctness.                                                       *)
(***************************************************************************)

\* What the merge pops is an entry of the listing.
LEMMA Popped ==
  ASSUME TypeOK
  PROVE  /\ srcLeft # {} => First(srcLeft) \in srcLeft /\ First(srcLeft) \in Keys
         /\ tgtLeft # {} => First(tgtLeft) \in tgtLeft /\ First(tgtLeft) \in Keys
<1>1. srcLeft \subseteq Nat /\ tgtLeft \subseteq Nat
  BY DifferenceAssumption DEF TypeOK, DifferenceAssumption
<1> QED
  BY <1>1, FirstIsLeast DEF TypeOK

\* A message sent on diffCh leaves a channel of messages within its capacity.
LEMMA EmitType ==
  ASSUME diffCh \in Seq(Msg), NEW m \in Msg, Emit(m)
  PROVE  diffCh' \in Seq(Msg) /\ Len(diffCh') <= DiffCap
<1>1. DiffCap \in Nat
  BY DifferenceAssumption DEF DifferenceAssumption
<1> QED
  BY <1>1 DEF Emit

LEMMA DiffOfType ==
  ASSUME NEW k
  PROVE  DiffOf(k) \in Diffs \cup {"none"}
BY DEF DiffOf, Diffs

\* What deltaSourceTarget makes of a message is something the mirror knows.
LEMMA UrlsOfType ==
  ASSUME NEW m \in Msg
  PROVE  UrlsOf(m) \subseteq Url
<1>1. m.key \in Keys \cup {0}
  BY DEF Msg
<1> QED
  BY <1>1 DEF UrlsOf, Url

LEMMA InitType == Init => TypeOK
<1> SUFFICES ASSUME Init PROVE TypeOK
  OBVIOUS
<1>1. srcLeft \subseteq source /\ tgtLeft \subseteq target
  BY DEF Init, Delivered
<1>2. diffCh \in Seq(Msg) /\ Len(diffCh) <= DiffCap
  BY DifferenceAssumption DEF Init, DifferenceAssumption
<1> QED
  BY <1>1, <1>2 DEF Init, TypeOK

LEMMA NextType == TypeOK /\ [Next]_vars => TypeOK'
<1> SUFFICES ASSUME TypeOK, [Next]_vars PROVE TypeOK'
  OBVIOUS
<1> USE DEF TypeOK
<1> DEFINE SameInputs == UNCHANGED inputs
<1>err. [diff |-> "error", key |-> 0] \in Msg
  BY DEF Msg, Diffs
<1>msg. ASSUME NEW d \in Diffs, NEW k \in Keys
        PROVE  [diff |-> d, key |-> k] \in Msg
  BY DEF Msg
<1>1. CASE CompareEnds
  BY <1>1 DEF CompareEnds, inputs
<1>2. CASE ListingFails
  <2>1. diffCh' \in Seq(Msg) /\ Len(diffCh') <= DiffCap
    BY <1>2, <1>err, EmitType DEF ListingFails
  <2> QED
    BY <1>2, <2>1 DEF ListingFails, inputs
<1>3. CASE OnlyTarget
  <2>1. [diff |-> "differInSecond", key |-> First(tgtLeft)] \in Msg
    BY <1>3, <1>msg, Popped DEF OnlyTarget, Diffs
  <2>2. diffCh' \in Seq(Msg) /\ Len(diffCh') <= DiffCap
    BY <1>3, <2>1, EmitType DEF OnlyTarget
  <2> QED
    BY <1>3, <2>2 DEF OnlyTarget, PopTarget, inputs
<1>4. CASE OnlySource
  <2>1. [diff |-> "differInFirst", key |-> First(srcLeft)] \in Msg
    BY <1>4, <1>msg, Popped DEF OnlySource, Diffs
  <2>2. diffCh' \in Seq(Msg) /\ Len(diffCh') <= DiffCap
    BY <1>4, <2>1, EmitType DEF OnlySource
  <2> QED
    BY <1>4, <2>2 DEF OnlySource, PopSource, inputs
<1>5. CASE InvalidSource
  <2>1. diffCh' \in Seq(Msg) /\ Len(diffCh') <= DiffCap
    BY <1>5, <1>err, EmitType DEF InvalidSource
  <2> QED
    BY <1>5, <2>1 DEF InvalidSource, PopSource, inputs
<1>6. CASE InvalidTarget
  <2>1. diffCh' \in Seq(Msg) /\ Len(diffCh') <= DiffCap
    BY <1>6, <1>err, EmitType DEF InvalidTarget
  <2> QED
    BY <1>6, <2>1 DEF InvalidTarget, PopTarget, inputs
<1>7. CASE SourceIsFirst
  <2>1. [diff |-> "differInFirst", key |-> First(srcLeft)] \in Msg
    BY <1>7, <1>msg, Popped DEF SourceIsFirst, BothValid, Both, Diffs
  <2>2. diffCh' \in Seq(Msg) /\ Len(diffCh') <= DiffCap
    BY <1>7, <2>1, EmitType DEF SourceIsFirst
  <2> QED
    BY <1>7, <2>2 DEF SourceIsFirst, PopSource, inputs
<1>8. CASE SameKey
  <2> DEFINE d == DiffOf(First(srcLeft))
  <2>1. First(srcLeft) \in Keys
    BY <1>8, Popped DEF SameKey, BothValid, Both
  <2>2. d # "none" => [diff |-> d, key |-> First(srcLeft)] \in Msg
    BY <2>1, <1>msg, DiffOfType
  <2>3. IF d = "none" THEN UNCHANGED diffCh
        ELSE Emit([diff |-> d, key |-> First(srcLeft)])
    BY <1>8 DEF SameKey
  <2>4. diffCh' \in Seq(Msg) /\ Len(diffCh') <= DiffCap
    <3> HIDE DEF d
    <3> QED  BY <2>2, <2>3, EmitType
  <2> QED
    BY <1>8, <2>4 DEF SameKey, PopSource, PopTarget, inputs
<1>9. CASE TargetIsFirst
  <2>1. [diff |-> "differInSecond", key |-> First(tgtLeft)] \in Msg
    BY <1>9, <1>msg, Popped DEF TargetIsFirst, BothValid, Both, Diffs
  <2>2. diffCh' \in Seq(Msg) /\ Len(diffCh') <= DiffCap
    BY <1>9, <2>1, EmitType DEF TargetIsFirst
  <2> QED
    BY <1>9, <2>2 DEF TargetIsFirst, PopTarget, inputs
<1>10. CASE Translate
  <2>1. Head(diffCh) \in Msg /\ Tail(diffCh) \in Seq(Msg)
        /\ Len(Tail(diffCh)) <= DiffCap
    BY <1>10, DifferenceAssumption DEF Translate, DifferenceAssumption
  <2>2. UrlsOf(Head(diffCh)) \subseteq Url
    BY <2>1, UrlsOfType
  <2> QED
    BY <1>10, <2>1, <2>2 DEF Translate, inputs
<1>11. CASE CloseURLs
  BY <1>11 DEF CloseURLs, inputs
<1>12. CASE UNCHANGED vars
  BY <1>12 DEF vars, inputs
<1> QED
  BY <1>1, <1>2, <1>3, <1>4, <1>5, <1>6, <1>7, <1>8, <1>9, <1>10, <1>11,
     <1>12 DEF Next, Compare, Finished

\* Type correctness: diffCh stays within its capacity, and what is still to be
\* received of a listing is always part of what its side holds.
THEOREM TypeCorrect == Spec => []TypeOK
BY InitType, NextType, PTL DEF Spec

(***************************************************************************)
(* What a mirror removes is extraneous, when NFC keeps the listing order.  *)
(***************************************************************************)
OrderKept == \A j, k \in Keys : j < k => Norm[j] < Norm[k]

Extraneous(k) == k \notin Invalid => Counterpart(k, source) = {}

\* A valid key of the source that is not among the entries left was either
\* popped before everything the target has left, or lies behind the source's
\* error.
PoppedOrCut ==
  comparing =>
    \A k \in (source \ srcLeft) \ Invalid :
      \/ \A t \in tgtLeft : k < t
      \/ srcEnd # "eof" /\ \A s \in srcLeft : s < k

\* What differInSecond reports is extraneous, also while it is in diffCh.
MessagesTrue ==
  \A i \in 1..Len(diffCh) :
    diffCh[i].diff = "differInSecond" => Extraneous(diffCh[i].key)

RemovalInv == PoppedOrCut /\ MessagesTrue /\ RemovalsAreExtraneous

\* A message that is not a false differInSecond keeps MessagesTrue.
LEMMA EmitTrue ==
  ASSUME diffCh \in Seq(Msg), MessagesTrue, NEW m \in Msg, Emit(m),
         UNCHANGED source, m.diff = "differInSecond" => Extraneous(m.key)
  PROVE  MessagesTrue'
<1>1. diffCh' = Append(diffCh, m)
  BY DEF Emit
<1>2. Len(diffCh') = Len(diffCh) + 1 /\ Len(diffCh) \in Nat
  BY <1>1
<1> SUFFICES ASSUME NEW i \in 1..Len(diffCh'),
                    diffCh'[i].diff = "differInSecond"
             PROVE  diffCh'[i].key \notin Invalid
                      => Counterpart(diffCh'[i].key, source') = {}
  BY DEF MessagesTrue, Extraneous
<1>3. CASE i = Len(diffCh) + 1
  BY <1>1, <1>3 DEF Extraneous, Counterpart
<1>4. CASE i \in 1..Len(diffCh)
  <2>1. diffCh'[i] = diffCh[i]
    BY <1>1, <1>4
  <2> QED
    BY <1>4, <2>1 DEF MessagesTrue, Extraneous, Counterpart
<1> QED
  BY <1>2, <1>3, <1>4

\* A valid key that differs from every valid key of the source has no
\* counterpart there.
LEMMA LeastIsExtraneous ==
  ASSUME OrderKept, TypeOK, NEW t \in Keys,
         \A k \in source \ Invalid : k < t \/ t < k
  PROVE  Extraneous(t)
<1> SUFFICES ASSUME t \notin Invalid PROVE Counterpart(t, source) = {}
  BY DEF Extraneous
<1>1. \A k \in source : k \in Keys /\ k \in Nat /\ t \in Nat
  BY DifferenceAssumption DEF TypeOK, DifferenceAssumption
<1>2. \A k \in source : Norm[k] \in Nat /\ Norm[t] \in Nat
  BY <1>1, DifferenceAssumption DEF DifferenceAssumption
<1>3. \A k \in source : k < t \/ t < k
  BY <1>1
<1>4. \A k \in source : Norm[k] # Norm[t]
  BY <1>1, <1>2, <1>3 DEF OrderKept
<1> QED
  BY <1>4 DEF Counterpart

LEMMA InitRemoval == Init => RemovalInv
<1> SUFFICES ASSUME Init PROVE RemovalInv
  OBVIOUS
<1>1. MessagesTrue /\ RemovalsAreExtraneous
  BY DEF Init, MessagesTrue, RemovalsAreExtraneous
<1>2. ASSUME NEW k \in source \ srcLeft
      PROVE  srcEnd # "eof" /\ \A s \in srcLeft : s < k
  <2>1. srcEnd # "eof"
    BY <1>2 DEF Init, Delivered
  <2>2. PICK cut \in source : srcLeft = {j \in source : j < cut}
    BY <1>2, <2>1 DEF Init, Delivered
  <2>3. source \subseteq Nat
    BY DifferenceAssumption DEF Init, DifferenceAssumption
  <2> QED
    BY <1>2, <2>1, <2>2, <2>3
<1> QED
  BY <1>1, <1>2 DEF RemovalInv, PoppedOrCut

\* Popping a source key that is invalid or below everything the target has left.
LEMMA PopSourceKept ==
  ASSUME TypeOK, PoppedOrCut, srcLeft # {}, PopSource,
         UNCHANGED <<source, srcEnd>>, tgtLeft' \subseteq tgtLeft,
         comparing,
         First(srcLeft) \in Invalid \/ \A t \in tgtLeft' : First(srcLeft) < t
  PROVE  PoppedOrCut'
<1> SUFFICES ASSUME NEW k \in source, k \notin srcLeft', k \notin Invalid
             PROVE  \/ \A t \in tgtLeft' : k < t
                    \/ srcEnd # "eof" /\ \A s \in srcLeft' : s < k
  BY DEF PoppedOrCut
<1>1. CASE k = First(srcLeft)
  BY <1>1
<1>2. CASE k # First(srcLeft)
  BY <1>2 DEF PopSource, PoppedOrCut
<1> QED
  BY <1>1, <1>2

\* Popping only a target key.
LEMMA PopTargetKept ==
  ASSUME PoppedOrCut, UNCHANGED <<source, srcLeft, srcEnd, comparing>>,
         tgtLeft' \subseteq tgtLeft
  PROVE  PoppedOrCut'
BY DEF PoppedOrCut

LEMMA NextRemoval ==
  ASSUME OrderKept, TypeOK, RemovalInv, [Next]_vars
  PROVE  RemovalInv'
<1> DEFINE SameUrls == urls' = urls /\ source' = source
<1>url. SameUrls => RemovalsAreExtraneous'
  BY DEF RemovalInv, RemovalsAreExtraneous, Counterpart
<1>nat. /\ source \subseteq Nat /\ srcLeft \subseteq Nat /\ tgtLeft \subseteq Nat
        /\ srcLeft \subseteq source /\ tgtLeft \subseteq Keys
        /\ source \subseteq Keys
  BY DifferenceAssumption DEF TypeOK, DifferenceAssumption
<1>least. /\ srcLeft # {} => /\ First(srcLeft) \in srcLeft
                             /\ \A s \in srcLeft : First(srcLeft) <= s
          /\ tgtLeft # {} => /\ First(tgtLeft) \in tgtLeft
                             /\ \A t \in tgtLeft : First(tgtLeft) <= t
  BY <1>nat, FirstIsLeast
<1>norm. \A k \in Keys : k \in Nat /\ Norm[k] \in Nat
  BY DifferenceAssumption DEF DifferenceAssumption
<1>err. [diff |-> "error", key |-> 0] \in Msg
  BY DEF Msg, Diffs
<1>msg. ASSUME NEW d \in Diffs, NEW k \in Keys
        PROVE  [diff |-> d, key |-> k] \in Msg
  BY DEF Msg
<1>seq. diffCh \in Seq(Msg)
  BY DEF TypeOK
<1>same. diffCh' = diffCh /\ source' = source => MessagesTrue'
  BY DEF RemovalInv, MessagesTrue, Extraneous, Counterpart
<1>1. CASE CompareEnds
  BY <1>1, <1>url, <1>same DEF CompareEnds, inputs, RemovalInv, PoppedOrCut
<1>2. CASE ListingFails
  <2>1. MessagesTrue'
    <3>1. CASE UNCHANGED diffCh
      BY <1>2, <3>1, <1>same DEF ListingFails, inputs
    <3>2. CASE Emit([diff |-> "error", key |-> 0])
      BY <1>2, <3>2, <1>err, <1>seq, EmitTrue
      DEF ListingFails, inputs, RemovalInv
    <3> QED
      BY <1>2, <3>1, <3>2 DEF ListingFails
  <2> QED
    BY <1>2, <2>1, <1>url DEF ListingFails, inputs, RemovalInv, PoppedOrCut
<1>3. CASE OnlyTarget
  <2> DEFINE t == First(tgtLeft)
  <2>1. t \in tgtLeft /\ t \in Keys
    BY <1>3, <1>least, <1>nat DEF OnlyTarget
  <2>2. \A k \in source \ Invalid : k < t
    BY <1>3, <2>1 DEF OnlyTarget, Looping, SrcEOF, RemovalInv, PoppedOrCut
  <2>3. Extraneous(t)
    BY <2>1, <2>2, LeastIsExtraneous
  <2>4. MessagesTrue'
    BY <1>3, <2>1, <2>3, <1>msg, <1>seq, EmitTrue
       DEF OnlyTarget, inputs, RemovalInv, Diffs
  <2>5. PoppedOrCut'
    BY <1>3, PopTargetKept DEF OnlyTarget, inputs, PopTarget, RemovalInv
  <2> QED
    BY <1>3, <1>url, <2>4, <2>5 DEF OnlyTarget, inputs, RemovalInv
<1>4. CASE OnlySource
  <2>1. First(srcLeft) \in Keys
    BY <1>4, <1>least, <1>nat DEF OnlySource
  <2>2. MessagesTrue'
    BY <1>4, <2>1, <1>msg, <1>seq, EmitTrue
    DEF OnlySource, inputs, RemovalInv, Diffs
  <2>3. PoppedOrCut'
    BY <1>4, PopSourceKept DEF OnlySource, Looping, TgtEOF, inputs, RemovalInv
  <2> QED
    BY <1>4, <1>url, <2>2, <2>3 DEF OnlySource, inputs, RemovalInv
<1>5. CASE InvalidSource \/ InvalidTarget
  <2>1. MessagesTrue'
    BY <1>5, <1>err, <1>seq, EmitTrue
    DEF InvalidSource, InvalidTarget, inputs, RemovalInv
  <2>2. CASE InvalidSource
    BY <2>2, <2>1, <1>url, PopSourceKept
    DEF InvalidSource, Both, Looping, inputs, RemovalInv
  <2>3. CASE InvalidTarget
    BY <2>3, <2>1, <1>url, PopTargetKept
    DEF InvalidTarget, PopTarget, inputs, RemovalInv
  <2> QED
    BY <1>5, <2>2, <2>3
<1>6. CASE SourceIsFirst
  <2> DEFINE s == First(srcLeft)
             t == First(tgtLeft)
  <2>1. /\ s \in srcLeft /\ s \in Keys /\ t \in tgtLeft /\ t \in Keys
        /\ Norm[t] > Norm[s]
    BY <1>6, <1>least, <1>nat DEF SourceIsFirst, BothValid, Both
  <2>2. s < t
    BY <2>1, <1>norm DEF OrderKept
  <2>3. \A j \in tgtLeft : s < j
    <3>1. s \in Nat /\ t \in Nat /\ \A j \in tgtLeft : j \in Nat /\ t <= j
      BY <2>1, <2>2, <1>least, <1>nat, <1>norm
    <3> HIDE DEF s, t
    <3> QED
      BY <3>1, <2>2
  <2>4. MessagesTrue'
    BY <1>6, <2>1, <1>msg, <1>seq, EmitTrue
       DEF SourceIsFirst, inputs, RemovalInv, Diffs
  <2>5. PoppedOrCut'
    BY <1>6, <2>1, <2>3, PopSourceKept
       DEF SourceIsFirst, BothValid, Both, Looping, inputs, RemovalInv
  <2> QED
    BY <1>6, <1>url, <2>4, <2>5 DEF SourceIsFirst, inputs, RemovalInv
<1>7. CASE SameKey
  <2> DEFINE s == First(srcLeft)
             t == First(tgtLeft)
             d == DiffOf(s)
  <2>1. /\ s \in srcLeft /\ s \in Keys /\ t \in tgtLeft /\ t \in Keys
        /\ Norm[t] = Norm[s]
    BY <1>7, <1>least, <1>nat DEF SameKey, BothValid, Both
  <2>2. s = t
    BY <2>1, <1>norm DEF OrderKept
  <2>3. \A j \in tgtLeft' : s < j
    <3>1. t \in Nat /\ \A j \in tgtLeft : j \in Nat /\ t <= j
      BY <2>1, <1>least, <1>nat, <1>norm
    <3>2. tgtLeft' = tgtLeft \ {t}
      BY <1>7 DEF SameKey, PopTarget
    <3> HIDE DEF s, t
    <3> QED
      BY <3>1, <3>2, <2>2
  <2>4. d \in Diffs \cup {"none"} /\ d # "differInSecond"
    BY DiffOfType DEF DiffOf
  <2>5. IF d = "none" THEN UNCHANGED diffCh ELSE Emit([diff |-> d, key |-> s])
    BY <1>7 DEF SameKey
  <2>6. source' = source
    BY <1>7 DEF SameKey, inputs
  <2>7. MessagesTrue'
    <3> HIDE DEF d, s
    <3> QED
      BY <2>1, <2>4, <2>5, <2>6, <1>msg, <1>seq, <1>same, EmitTrue
      DEF RemovalInv
  <2>8. PoppedOrCut'
    BY <1>7, <2>1, <2>3, PopSourceKept
       DEF SameKey, BothValid, Both, Looping, PopTarget, inputs, RemovalInv
  <2> QED
    BY <1>7, <1>url, <2>7, <2>8 DEF SameKey, inputs, RemovalInv
<1>8. CASE TargetIsFirst
  <2> DEFINE s == First(srcLeft)
             t == First(tgtLeft)
  <2>1. /\ s \in srcLeft /\ s \in Keys /\ t \in tgtLeft /\ t \in Keys
        /\ Norm[t] < Norm[s]
    BY <1>8, <1>least, <1>nat DEF TargetIsFirst, BothValid, Both
  <2>2. t < s
    BY <2>1, <1>norm DEF OrderKept
  <2>3. /\ s \in Nat /\ t \in Nat /\ source \subseteq Nat
        /\ \A k \in srcLeft : s <= k
        /\ \A k \in (source \ srcLeft) \ Invalid : k < t \/ s < k
    <3>1. \A k \in (source \ srcLeft) \ Invalid : k < t \/ s < k
      BY <1>8, <2>1
         DEF TargetIsFirst, BothValid, Both, Looping, RemovalInv, PoppedOrCut
    <3> QED
      BY <3>1, <2>1, <1>least, <1>nat, <1>norm
  <2>4. \A k \in source \ Invalid : k < t \/ t < k
    <3> HIDE DEF s, t
    <3> QED
      BY <2>2, <2>3
  <2>5. Extraneous(t)
    BY <2>1, <2>4, LeastIsExtraneous
  <2>6. MessagesTrue'
    BY <1>8, <2>1, <2>5, <1>msg, <1>seq, EmitTrue
       DEF TargetIsFirst, inputs, RemovalInv, Diffs
  <2>7. PoppedOrCut'
    BY <1>8, PopTargetKept DEF TargetIsFirst, inputs, PopTarget, RemovalInv
  <2> QED
    BY <1>8, <1>url, <2>6, <2>7 DEF TargetIsFirst, inputs, RemovalInv
<1>9. CASE Translate
  <2> DEFINE m == Head(diffCh)
  <2>1. m = diffCh[1] /\ 1 \in 1..Len(diffCh) /\ m \in Msg
    BY <1>9, <1>seq DEF Translate
  <2>2. \A u \in UrlsOf(m) : u.do = "remove" => Extraneous(u.key)
    BY <2>1 DEF UrlsOf, RemovalInv, MessagesTrue
  <2>3. RemovalsAreExtraneous'
    BY <1>9, <2>2
       DEF Translate, inputs, RemovalInv, RemovalsAreExtraneous, Extraneous,
           Counterpart
  <2>4. /\ Len(diffCh') \in Nat /\ Len(diffCh) = Len(diffCh') + 1
        /\ \A i \in 1..Len(diffCh') : diffCh'[i] = diffCh[i + 1]
    BY <1>9, <1>seq DEF Translate
  <2>5. MessagesTrue'
    BY <1>9, <2>4
    DEF Translate, inputs, RemovalInv, MessagesTrue, Extraneous, Counterpart
  <2>6. PoppedOrCut'
    BY <1>9 DEF Translate, inputs, RemovalInv, PoppedOrCut
  <2> QED
    BY <2>3, <2>5, <2>6 DEF RemovalInv
<1>10. CASE CloseURLs
  BY <1>10, <1>url, <1>same DEF CloseURLs, inputs, RemovalInv, PoppedOrCut
<1>11. CASE UNCHANGED vars
  BY <1>11, <1>url, <1>same DEF vars, inputs, RemovalInv, PoppedOrCut
<1> QED
  BY <1>1, <1>2, <1>3, <1>4, <1>5, <1>6, <1>7, <1>8, <1>9, <1>10, <1>11
     DEF Next, Compare, Finished

\* "only in target (SECOND)": while the NFC forms sort like the bytes of the
\* keys, a mirror with --remove is never told to remove a valid key the source
\* holds, whichever listing fails and wherever.
THEOREM RemovalsSafe ==
  ASSUME OrderKept
  PROVE  Spec => []RemovalsAreExtraneous
<1>1. TypeOK /\ RemovalInv /\ [Next]_vars => RemovalInv'
  BY NextRemoval
<1>2. Spec => []RemovalInv
  BY <1>1, InitRemoval, TypeCorrect, PTL DEF Spec
<1>3. RemovalInv => RemovalsAreExtraneous
  BY DEF RemovalInv
<1> QED
  BY <1>2, <1>3, PTL

(***************************************************************************)
(* What a mirror is told, when both listings come to their end.            *)
(***************************************************************************)
BothEnd == srcEnd = "eof" /\ tgtEnd = "eof"

\* What the mirror has been told, and what is in diffCh on its way to it.
Said == urls \cup UNION {UrlsOf(diffCh[i]) : i \in DOMAIN diffCh}

TrueUrl(u) ==
  /\ u.do = "copy" /\ u.key \notin Invalid => u.key \in ToCopy
  /\ u.do = "remove" => u.key \in target \ Excluded /\ (opts.isRemove \/ opts.isFake)
  /\ u.do = "error" => (source \cup target) \cap Invalid # {}

\* The counterpart of PoppedOrCut for the target, and what was popped was said.
SaidInv ==
  BothEnd =>
    /\ comparing => \A t \in (target \ tgtLeft) \ Invalid : \A s \in srcLeft : t < s
    /\ \A u \in Said : TrueUrl(u)
    /\ \A k \in (source \ srcLeft) \ Invalid :
         k \in ToCopy => [do |-> "copy", key |-> k] \in Said
    /\ \A k \in (target \ tgtLeft) \ Invalid :
         k \in ToRemove => [do |-> "remove", key |-> k] \in Said
    /\ ~comparing => srcLeft = {} /\ (~opts.sourceListingOnly => tgtLeft = {})
    /\ closed => ~comparing /\ diffCh = <<>>

LEMMA EmitSaid ==
  ASSUME diffCh \in Seq(Msg), NEW m \in Msg, Emit(m), UNCHANGED <<urls, inputs>>
  PROVE  Said' = Said \cup UrlsOf(m)
<1> DEFINE q == Append(diffCh, m)
<1>1. /\ Len(diffCh) \in Nat /\ DOMAIN diffCh = 1..Len(diffCh)
      /\ DOMAIN q = 1..(Len(diffCh) + 1)
  OBVIOUS
<1>2. q[Len(diffCh) + 1] = m /\ \A i \in 1..Len(diffCh) : q[i] = diffCh[i]
  OBVIOUS
<1>3. diffCh' = q
  BY DEF Emit
<1>4. \A x : UrlsOf(x)' = UrlsOf(x)
  BY DEF UrlsOf, Skipped, Overwrites, inputs
<1> HIDE DEF q
<1>5. UNION {UrlsOf(q[i]) : i \in DOMAIN q} =
        UrlsOf(m) \cup UNION {UrlsOf(diffCh[i]) : i \in DOMAIN diffCh}
  BY <1>1, <1>2
<1>6. Said' = urls \cup UNION {UrlsOf(q[i]) : i \in DOMAIN q}
  BY <1>3, <1>4 DEF Said
<1> QED
  BY <1>5, <1>6 DEF Said

LEMMA TranslateSaid ==
  ASSUME diffCh \in Seq(Msg), Translate
  PROVE  Said' = Said
<1> DEFINE q == Tail(diffCh)
<1>1. /\ diffCh # <<>> /\ diffCh' = q /\ urls' = urls \cup UrlsOf(Head(diffCh))
      /\ UNCHANGED inputs
  BY DEF Translate
<1>2. /\ Len(diffCh) \in Nat \ {0} /\ DOMAIN diffCh = 1..Len(diffCh)
      /\ DOMAIN q = 1..(Len(diffCh) - 1) /\ Head(diffCh) = diffCh[1]
  BY <1>1
<1>3. \A i \in 1..(Len(diffCh) - 1) : q[i] = diffCh[i + 1]
  BY <1>1
<1>4. \A x : UrlsOf(x)' = UrlsOf(x)
  BY <1>1 DEF UrlsOf, Skipped, Overwrites, inputs
<1> HIDE DEF q
<1>5. Said' = urls \cup UrlsOf(Head(diffCh)) \cup UNION {UrlsOf(q[i]) : i \in DOMAIN q}
  BY <1>1, <1>4 DEF Said
<1>6. ASSUME NEW i \in DOMAIN diffCh, i # 1
      PROVE  \E j \in DOMAIN q : q[j] = diffCh[i]
  <2>1. i - 1 \in DOMAIN q /\ (i - 1) + 1 = i
    BY <1>2, <1>6
  <2> QED
    BY <1>2, <1>3, <2>1
<1>7. ASSUME NEW j \in DOMAIN q PROVE \E i \in DOMAIN diffCh : q[j] = diffCh[i]
  <2>1. j + 1 \in DOMAIN diffCh
    BY <1>2
  <2> QED
    BY <1>2, <1>3, <2>1
<1>8. UrlsOf(Head(diffCh)) \cup UNION {UrlsOf(q[i]) : i \in DOMAIN q} =
        UNION {UrlsOf(diffCh[i]) : i \in DOMAIN diffCh}
  <2>1. 1 \in DOMAIN diffCh
    BY <1>2
  <2> QED
    BY <1>2, <1>6, <1>7, <2>1
<1> QED
  BY <1>5, <1>8 DEF Said

\* A round of the loop that says what it should about the keys it pops.
LEMMA RoundKept ==
  ASSUME SaidInv, BothEnd, comparing, comparing', UNCHANGED <<inputs, closed>>,
         srcLeft' \subseteq srcLeft, tgtLeft' \subseteq tgtLeft,
         NEW added, Said' = Said \cup added, \A u \in added : TrueUrl(u),
         \A k \in (srcLeft \ srcLeft') \ Invalid :
           k \in ToCopy => [do |-> "copy", key |-> k] \in added,
         \A k \in (tgtLeft \ tgtLeft') \ Invalid :
           /\ k \in ToRemove => [do |-> "remove", key |-> k] \in added
           /\ \A s \in srcLeft' : k < s
  PROVE  SaidInv'
<1>1. /\ ToCopy' = ToCopy /\ ToRemove' = ToRemove
      /\ \A u : TrueUrl(u)' <=> TrueUrl(u)
  BY DEF ToCopy, ToRemove, TrueUrl, Counterpart, DiffOf, Overwrites, inputs
<1>2. source' = source /\ target' = target /\ opts' = opts /\ ~closed'
  BY DEF SaidInv, inputs
<1> HIDE DEF ToCopy, ToRemove, TrueUrl
<1> QED
  BY <1>1, <1>2 DEF SaidInv

\* While NFC keeps the order, the counterpart of a key can only be that key.
LEMMA OnlyItself ==
  ASSUME OrderKept, NEW k \in Keys, NEW S, S \subseteq Keys
  PROVE  Counterpart(k, S) = {k} \cap S
<1>1. \A j \in Keys : j \in Nat /\ Norm[j] \in Nat
  BY DifferenceAssumption DEF DifferenceAssumption
<1>2. \A j \in S : Norm[j] = Norm[k] => j = k
  <2> SUFFICES ASSUME NEW j \in S, j # k PROVE Norm[j] # Norm[k]
    OBVIOUS
  <2>1. j < k \/ k < j
    BY <1>1
  <2> QED
    BY <1>1, <2>1 DEF OrderKept
<1> QED
  BY <1>2 DEF Counterpart

\* The state in which a round of the loop pops: what NextSaid uses of it.
LEMMA RoundFacts ==
  ASSUME TypeOK
  PROVE  /\ source \subseteq Keys /\ target \subseteq Keys
         /\ srcLeft \subseteq source /\ tgtLeft \subseteq target
         /\ \A k \in Keys : k \in Nat /\ Norm[k] \in Nat
         /\ srcLeft # {} => /\ First(srcLeft) \in srcLeft
                            /\ \A s \in srcLeft : First(srcLeft) <= s
         /\ tgtLeft # {} => /\ First(tgtLeft) \in tgtLeft
                            /\ \A t \in tgtLeft : First(tgtLeft) <= t
         /\ diffCh \in Seq(Msg)
         /\ [diff |-> "error", key |-> 0] \in Msg
         /\ \A k \in Keys : /\ [diff |-> "differInFirst", key |-> k] \in Msg
                            /\ [diff |-> "differInSecond", key |-> k] \in Msg
<1>1. \A k \in Keys : k \in Nat /\ Norm[k] \in Nat
  BY DifferenceAssumption DEF DifferenceAssumption
<1>2. srcLeft \subseteq Nat /\ tgtLeft \subseteq Nat
  BY <1>1 DEF TypeOK
<1>3. /\ [diff |-> "error", key |-> 0] \in Msg
      /\ \A k \in Keys : /\ [diff |-> "differInFirst", key |-> k] \in Msg
                         /\ [diff |-> "differInSecond", key |-> k] \in Msg
  BY DEF Msg, Diffs
<1> QED
  BY <1>1, <1>2, <1>3, FirstIsLeast DEF TypeOK

\* A key that only the source has is said to be copied, unless it is excluded.
LEMMA FirstSaid ==
  ASSUME OrderKept, TypeOK, NEW k \in source, k \in target => k \in Invalid,
         NEW added, added = UrlsOf([diff |-> "differInFirst", key |-> k])
  PROVE  /\ \A u \in added : TrueUrl(u)
         /\ k \in ToCopy => [do |-> "copy", key |-> k] \in added
<1>1. k \notin Invalid => Counterpart(k, target) = {}
  BY OnlyItself, RoundFacts
<1>2. added \subseteq {[do |-> "copy", key |-> k]}
      /\ (k \notin Excluded \cup ClassExcluded => [do |-> "copy", key |-> k] \in added)
      /\ (added # {} => k \notin Excluded \cup ClassExcluded)
  BY DEF UrlsOf, Skipped
<1> QED
  BY <1>1, <1>2 DEF TrueUrl, ToCopy

\* One that only the target has is said to be removed, if that is wanted.
LEMMA SecondSaid ==
  ASSUME TypeOK, NEW k \in target,
         NEW added, added = UrlsOf([diff |-> "differInSecond", key |-> k])
  PROVE  /\ \A u \in added : TrueUrl(u)
         /\ k \in ToRemove => [do |-> "remove", key |-> k] \in added
<1>1. /\ added \subseteq {[do |-> "remove", key |-> k]}
      /\ k \notin Excluded /\ (opts.isRemove \/ opts.isFake) <=> added # {}
  BY DEF UrlsOf, Skipped
<1> QED
  BY <1>1 DEF TrueUrl, ToRemove

LEMMA ErrorSaid ==
  ASSUME (source \cup target) \cap Invalid # {}
  PROVE  \A u \in UrlsOf([diff |-> "error", key |-> 0]) : TrueUrl(u)
BY DEF UrlsOf, TrueUrl

LEMMA NextSaid ==
  ASSUME OrderKept, TypeOK, RemovalInv, SaidInv, [Next]_vars
  PROVE  SaidInv'
<1> SUFFICES ASSUME BothEnd PROVE SaidInv'
  <2>1. BothEnd' <=> BothEnd
    BY DEF BothEnd, Next, Compare, CompareEnds, ListingFails, OnlyTarget, OnlySource,
           InvalidSource, InvalidTarget, SourceIsFirst, SameKey, TargetIsFirst,
           Translate, CloseURLs, Finished, vars, inputs
  <2> QED
    BY <2>1 DEF SaidInv
<1>facts. /\ source \subseteq Keys /\ target \subseteq Keys
          /\ srcLeft \subseteq source /\ tgtLeft \subseteq target
          /\ \A k \in Keys : k \in Nat /\ Norm[k] \in Nat
          /\ srcLeft # {} => /\ First(srcLeft) \in srcLeft
                             /\ \A s \in srcLeft : First(srcLeft) <= s
          /\ tgtLeft # {} => /\ First(tgtLeft) \in tgtLeft
                             /\ \A t \in tgtLeft : First(tgtLeft) <= t
          /\ diffCh \in Seq(Msg)
          /\ [diff |-> "error", key |-> 0] \in Msg
          /\ \A k \in Keys : /\ [diff |-> "differInFirst", key |-> k] \in Msg
                             /\ [diff |-> "differInSecond", key |-> k] \in Msg
  BY RoundFacts
<1>said. UNCHANGED <<inputs, urls, diffCh>> => Said' = Said
  BY DEF Said, UrlsOf, Skipped, Overwrites, inputs
<1>same. UNCHANGED inputs => /\ ToCopy' = ToCopy /\ ToRemove' = ToRemove
                             /\ \A u : TrueUrl(u)' <=> TrueUrl(u)
                             /\ source' = source /\ target' = target /\ opts' = opts
  BY DEF ToCopy, ToRemove, TrueUrl, Counterpart, DiffOf, Overwrites, inputs
<1>popped. /\ comparing => \A k \in (source \ srcLeft) \ Invalid : \A t \in tgtLeft : k < t
           /\ comparing => \A t \in (target \ tgtLeft) \ Invalid : \A s \in srcLeft : t < s
           /\ closed => ~comparing
  BY DEF RemovalInv, PoppedOrCut, SaidInv, BothEnd
<1>1. CASE CompareEnds
  <2>1. srcLeft = {} /\ (~opts.sourceListingOnly => tgtLeft = {})
    BY <1>1 DEF CompareEnds, EndOfListings, SrcEOF, TgtEOF
  <2>2. UNCHANGED <<inputs, srcLeft, tgtLeft, diffCh, urls, closed>> /\ ~comparing'
        /\ comparing
    BY <1>1 DEF CompareEnds, EndOfListings
  <2> HIDE DEF ToCopy, ToRemove, TrueUrl
  <2> QED
    BY <2>1, <2>2, <1>said, <1>same, <1>popped DEF SaidInv
<1>2. CASE ListingFails
  BY <1>2 DEF ListingFails, SrcErr, TgtErr, BothEnd
<1>3. CASE OnlyTarget
  <2> DEFINE t == First(tgtLeft)
             added == UrlsOf([diff |-> "differInSecond", key |-> t])
  <2>1. /\ srcLeft = {} /\ t \in tgtLeft /\ comparing /\ tgtLeft' = tgtLeft \ {t}
        /\ UNCHANGED <<inputs, srcLeft, comparing, urls, closed>>
        /\ Emit([diff |-> "differInSecond", key |-> t])
    BY <1>3, <1>facts DEF OnlyTarget, SrcEOF, PopTarget, Looping
  <2>2. [diff |-> "differInSecond", key |-> t] \in Msg /\ t \in target
    BY <2>1, <1>facts
  <2>3. Said' = Said \cup added
    BY <2>1, <2>2, <1>facts, EmitSaid
  <2>4. /\ \A u \in added : TrueUrl(u)
        /\ t \in ToRemove => [do |-> "remove", key |-> t] \in added
    BY <2>2, SecondSaid
  <2> HIDE DEF added, t
  <2> QED
    BY <2>1, <2>3, <2>4, RoundKept
<1>4. CASE OnlySource \/ SourceIsFirst
  <2> DEFINE s == First(srcLeft)
             added == UrlsOf([diff |-> "differInFirst", key |-> s])
  <2>1. /\ s \in srcLeft /\ comparing /\ srcLeft' = srcLeft \ {s}
        /\ UNCHANGED <<inputs, tgtLeft, comparing, urls, closed>>
        /\ Emit([diff |-> "differInFirst", key |-> s])
    BY <1>4, <1>facts
       DEF OnlySource, SourceIsFirst, BothValid, Both, PopSource, Looping
  <2>2. [diff |-> "differInFirst", key |-> s] \in Msg /\ s \in source /\ s \in Keys
    BY <2>1, <1>facts
  <2>3. Said' = Said \cup added
    BY <2>1, <2>2, <1>facts, EmitSaid
  <2>4. s \notin tgtLeft
    <3>1. CASE OnlySource
      BY <3>1 DEF OnlySource, TgtEOF
    <3>2. CASE SourceIsFirst
      <4>1. /\ First(tgtLeft) \in tgtLeft /\ First(tgtLeft) \in Keys
            /\ Norm[s] < Norm[First(tgtLeft)]
            /\ \A j \in tgtLeft : First(tgtLeft) <= j
        BY <3>2, <1>facts, <2>2 DEF SourceIsFirst, BothValid, Both
      <4>2. s < First(tgtLeft)
        BY <4>1, <1>facts, <2>2 DEF OrderKept
      <4>3. s \in Nat /\ First(tgtLeft) \in Nat
        BY <4>1, <1>facts, <2>2
      <4> HIDE DEF s
      <4> QED
        BY <4>1, <4>2, <4>3
    <3> QED
      BY <1>4, <3>1, <3>2
  <2>5. s \in target => s \in Invalid
    <3>1. s \in Nat
      BY <2>2, <1>facts
    <3> QED
      BY <2>1, <2>4, <3>1, <1>popped
  <2>6. /\ \A u \in added : TrueUrl(u)
        /\ s \in ToCopy => [do |-> "copy", key |-> s] \in added
    BY <2>2, <2>5, FirstSaid
  <2> HIDE DEF added, s
  <2> QED
    BY <2>1, <2>3, <2>6, RoundKept
<1>5. CASE InvalidSource \/ InvalidTarget
  <2> DEFINE added == UrlsOf([diff |-> "error", key |-> 0])
  <2>1. /\ comparing /\ UNCHANGED <<inputs, comparing, urls, closed>>
        /\ Emit([diff |-> "error", key |-> 0])
        /\ First(srcLeft) \in srcLeft /\ First(tgtLeft) \in tgtLeft
        /\ \/ First(srcLeft) \in Invalid /\ srcLeft' = srcLeft \ {First(srcLeft)}
              /\ tgtLeft' = tgtLeft
           \/ First(tgtLeft) \in Invalid /\ tgtLeft' = tgtLeft \ {First(tgtLeft)}
              /\ srcLeft' = srcLeft
    BY <1>5, <1>facts
       DEF InvalidSource, InvalidTarget, Both, Looping, PopSource, PopTarget
  <2>2. Said' = Said \cup added
    BY <2>1, <1>facts, EmitSaid
  <2>3. (source \cup target) \cap Invalid # {}
    BY <2>1, <1>facts
  <2>4. \A u \in added : TrueUrl(u)
    BY <2>3, ErrorSaid
  <2> HIDE DEF added
  <2> QED
    BY <2>1, <2>2, <2>4, RoundKept
<1>6. CASE SameKey
  <2> DEFINE s == First(srcLeft)
             t == First(tgtLeft)
             d == DiffOf(s)
             added == IF d = "none" THEN {} ELSE UrlsOf([diff |-> d, key |-> s])
  <2>1. /\ s \in srcLeft /\ t \in tgtLeft /\ Norm[t] = Norm[s] /\ comparing
        /\ srcLeft' = srcLeft \ {s} /\ tgtLeft' = tgtLeft \ {t}
        /\ UNCHANGED <<inputs, comparing, urls, closed>>
        /\ IF d = "none" THEN UNCHANGED diffCh ELSE Emit([diff |-> d, key |-> s])
    BY <1>6, <1>facts DEF SameKey, BothValid, Both, Looping, PopSource, PopTarget
  <2>2. s \in source /\ t \in target /\ s \in Keys /\ t \in Keys
    BY <2>1, <1>facts
  <2>3. s = t
    <3>1. Counterpart(s, {t}) = {s} \cap {t}
      BY <2>2, OnlyItself
    <3> QED
      BY <2>1, <3>1 DEF Counterpart
  <2>4. /\ d \in Diffs \cup {"none"}
        /\ d \notin {"error", "differInFirst", "differInSecond"}
    BY DiffOfType DEF DiffOf
  <2>5. Said' = Said \cup added
    <3>1. CASE d = "none"
      BY <2>1, <3>1, <1>said
    <3>2. CASE d # "none"
      <4>1. [diff |-> d, key |-> s] \in Msg
        BY <2>2, <2>4, <3>2 DEF Msg
      <4> QED
        BY <2>1, <3>2, <4>1, <1>facts, EmitSaid
    <3> QED
      BY <3>1, <3>2
  <2>6. Counterpart(s, target) # {} /\ Counterpart(t, source) # {}
    BY <2>1, <2>2 DEF Counterpart
  <2>7. /\ \A u \in added : TrueUrl(u)
        /\ s \in ToCopy => [do |-> "copy", key |-> s] \in added
    <3>1. CASE d = "none"
      BY <2>6, <3>1 DEF ToCopy
    <3>2. CASE d # "none"
      <4> DEFINE u == [do |-> IF Overwrites THEN "copy" ELSE "refuse", key |-> s]
      <4>1. added = IF s \in Excluded \cup ClassExcluded THEN {} ELSE {u}
        BY <2>4, <3>2 DEF UrlsOf, Skipped
      <4>2. s \notin Excluded \cup ClassExcluded => (s \in ToCopy <=> Overwrites)
        BY <2>2, <2>6, <3>2 DEF ToCopy
      <4>3. u.do \in {"copy", "refuse"} /\ u.key = s /\ (u.do = "copy" <=> Overwrites)
        OBVIOUS
      <4> HIDE DEF added, d, s
      <4> QED
        BY <4>1, <4>2, <4>3 DEF TrueUrl, ToCopy
    <3> QED
      BY <3>1, <3>2
  <2>8. t \notin ToRemove
    BY <2>6 DEF ToRemove
  <2>9. \A j \in srcLeft' : t < j
    <3>1. s \in Nat /\ \A j \in srcLeft : j \in Nat /\ s <= j
      BY <2>1, <2>2, <1>facts
    <3> HIDE DEF s, t
    <3> QED
      BY <2>1, <2>3, <3>1
  <2> HIDE DEF added, d, s, t, ToCopy, ToRemove, TrueUrl
  <2> QED
    BY <2>1, <2>5, <2>7, <2>8, <2>9, RoundKept
<1>7. CASE TargetIsFirst
  <2> DEFINE s == First(srcLeft)
             t == First(tgtLeft)
             added == UrlsOf([diff |-> "differInSecond", key |-> t])
  <2>1. /\ s \in srcLeft /\ t \in tgtLeft /\ Norm[t] < Norm[s] /\ comparing
        /\ tgtLeft' = tgtLeft \ {t}
        /\ UNCHANGED <<inputs, srcLeft, comparing, urls, closed>>
        /\ Emit([diff |-> "differInSecond", key |-> t])
    BY <1>7, <1>facts DEF TargetIsFirst, BothValid, Both, Looping, PopTarget
  <2>2. /\ [diff |-> "differInSecond", key |-> t] \in Msg /\ t \in target
        /\ s \in Keys /\ t \in Keys
    BY <2>1, <1>facts
  <2>3. Said' = Said \cup added
    BY <2>1, <2>2, <1>facts, EmitSaid
  <2>4. /\ \A u \in added : TrueUrl(u)
        /\ t \in ToRemove => [do |-> "remove", key |-> t] \in added
    BY <2>2, SecondSaid
  <2>5. \A j \in srcLeft : t < j
    <3>1. s \in Nat /\ t \in Nat /\ \A j \in srcLeft : j \in Nat /\ s <= j
      BY <2>1, <2>2, <1>facts
    <3>2. ~(s < t) /\ s # t
      BY <2>1, <2>2, <1>facts DEF OrderKept
    <3> HIDE DEF s, t
    <3> QED
      BY <3>1, <3>2
  <2> HIDE DEF added, s, t
  <2> QED
    BY <2>1, <2>3, <2>4, <2>5, RoundKept
<1>8. CASE Translate
  <2>1. Said' = Said
    BY <1>8, <1>facts, TranslateSaid
  <2>2. UNCHANGED <<inputs, srcLeft, tgtLeft, comparing, closed>> /\ diffCh # <<>>
    BY <1>8 DEF Translate
  <2> HIDE DEF ToCopy, ToRemove, TrueUrl
  <2> QED
    BY <2>1, <2>2, <1>same DEF SaidInv, BothEnd
<1>9. CASE CloseURLs
  <2> HIDE DEF ToCopy, ToRemove, TrueUrl
  <2> QED
    BY <1>9, <1>said, <1>same DEF CloseURLs, SaidInv
<1>10. CASE UNCHANGED vars
  <2>1. UNCHANGED <<inputs, srcLeft, tgtLeft, comparing, diffCh, urls, closed>>
    BY <1>10 DEF vars
  <2> HIDE DEF ToCopy, ToRemove, TrueUrl
  <2> QED
    BY <2>1, <1>said, <1>same DEF SaidInv, BothEnd
<1> QED
  BY <1>1, <1>2, <1>3, <1>4, <1>5, <1>6, <1>7, <1>8, <1>9, <1>10
     DEF Next, Compare, Finished

LEMMA InitSaid == Init => SaidInv
<1> SUFFICES ASSUME Init, BothEnd PROVE SaidInv
  BY DEF SaidInv
<1>1. srcLeft = source /\ tgtLeft = target /\ Said = {}
  BY DEF Init, Delivered, BothEnd, Said
<1> QED
  BY <1>1 DEF Init, SaidInv

\* When both listings came to their end, the mirror has been told exactly what
\* the options ask for of the valid keys, whatever keys were passed over and
\* however the merge and the mirror follow each other: MirrorIsTold.
THEOREM MirrorIsToldAll ==
  ASSUME OrderKept
  PROVE  Spec => []MirrorIsTold
<1>1. ASSUME TypeOK, RemovalInv, SaidInv, closed, srcEnd = "eof", tgtEnd = "eof"
      PROVE  /\ Told("copy") \ Invalid = ToCopy \ Invalid
             /\ ~opts.sourceListingOnly =>
                  Told("remove") \ Invalid = ToRemove \ Invalid
             /\ Told("error") # {} => (source \cup target) \cap Invalid # {}
  <2>1. /\ srcLeft = {} /\ (~opts.sourceListingOnly => tgtLeft = {})
        /\ diffCh = <<>>
    BY <1>1 DEF SaidInv, BothEnd
  <2>2. Said = urls
    BY <2>1 DEF Said
  <2>3. /\ \A u \in urls : TrueUrl(u)
        /\ \A k \in source \ Invalid :
             k \in ToCopy => [do |-> "copy", key |-> k] \in urls
        /\ ~opts.sourceListingOnly =>
             \A k \in target \ Invalid :
               k \in ToRemove => [do |-> "remove", key |-> k] \in urls
    BY <1>1, <2>1, <2>2 DEF SaidInv, BothEnd
  <2>4. \A do, k : k \in Told(do) <=> \E u \in urls : u.do = do /\ u.key = k
    BY DEF Told
  <2>5. ToCopy \subseteq source /\ ToRemove \subseteq target
    BY DEF ToCopy, ToRemove
  <2>6. \A do, k : [do |-> do, key |-> k] \in urls => k \in Told(do)
    BY <2>4
  <2>7. \A k \in Told("copy") : k \notin Invalid => k \in ToCopy
    BY <2>3, <2>4 DEF TrueUrl
  <2>8. \A k \in Told("remove") : k \notin Invalid => k \in ToRemove
    <3>1. \A u \in urls : u.do = "remove" /\ u.key \notin Invalid =>
            Counterpart(u.key, source) = {}
      BY <1>1 DEF RemovalInv, RemovalsAreExtraneous
    <3> QED
      BY <2>3, <2>4, <3>1 DEF TrueUrl, ToRemove
  <2>9. Told("error") # {} => (source \cup target) \cap Invalid # {}
    BY <2>3, <2>4 DEF TrueUrl
  <2> HIDE DEF ToCopy, ToRemove
  <2> QED
    BY <2>3, <2>5, <2>6, <2>7, <2>8, <2>9
<1>2. TypeOK /\ RemovalInv /\ SaidInv => MirrorIsTold
  BY <1>1 DEF MirrorIsTold
<1>3. TypeOK /\ RemovalInv /\ [Next]_vars => RemovalInv'
  BY NextRemoval
<1>4. TypeOK /\ RemovalInv /\ SaidInv /\ [Next]_vars => SaidInv'
  BY NextSaid
<1> QED
  BY <1>2, <1>3, <1>4, InitRemoval, InitSaid, TypeCorrect, PTL DEF Spec

===============================================================================
