---------------------------- MODULE Objects_proofs ----------------------------
(***************************************************************************)
(* The commands that go by the versions of an object: undo, listings of    *)
(* the past, cat and head, and restore; and two mirrors in opposite        *)
(* directions that agree on what an object is.  Each for any versions, any *)
(* other users and any number of steps.  The lemmas about queues of events *)
(* are those of LocalWatch_proofs.                                         *)
(***************************************************************************)
EXTENDS Undo, Rewind, Cat, Restore, ActiveActive, LocalWatch_proofs, FiniteSetTheorems,
        NaturalsInduction, WellFoundedInduction

-----------------------------------------------------------------------------
(***************************************************************************)
(* Undo.                                                                   *)
(***************************************************************************)
Versions3 == {vlist[i] : i \in DOMAIN vlist}
AllOf == {v \in Versions3 : ~v.glacier}
Seen(n) == {v \in AllOf : \E i \in 1..n : vlist[i] = v}
OfObject(S, o) == {v \in S : v.object = o}
OtherKind(v) ==
  \/ v.latest /\ undoOpts.action = "DELETE" /\ ~v.marker
  \/ v.latest /\ undoOpts.action = "PUT" /\ v.marker
TriedOnes == undone \cup undoFailed

UndoTypes ==
  /\ vlist \in VersionListings /\ undoOpts \in UndoOptions
  /\ at \in 0..(Len(vlist) + 1) /\ undoExit \in {<<>>, <<1>>}
Begun == lastObject # ""
UndoFlags == eligible \in BOOLEAN /\ anyUndone \in BOOLEAN

\* What undoURL knows of the object it is at.
AtObject(n) ==
  /\ ~Begun => Seen(n) = {}
  /\ Begun =>
       \E j \in 1..n : /\ vlist[j].object = lastObject /\ ~vlist[j].glacier
                       /\ \A i \in 1..n : j < i => vlist[i].glacier
  /\ ~Begun => perObject = {} /\ ~anyUndone
  /\ eligible <=> \A w \in OfObject(Seen(n), lastObject) : ~OtherKind(w)
  /\ eligible => perObject = OfObject(Seen(n), lastObject)
  /\ ~undoOpts.isRecursive => \A v \in Seen(n) : v.object = undoOpts.target
\* The objects before are done with.
DoneBy(n) ==
  /\ \A v \in Seen(n) \cap Meant :
       v.object # lastObject => undoOpts.isDryRun \/ v \in TriedOnes
  /\ \A v \in TriedOnes : v \in Seen(n) /\ v.object # lastObject
\* It has come to n, or has ended the listing at another object.
ComeTo(n) ==
  \/ n = at - 1
  \/ /\ at = Len(vlist) + 1 /\ n < Len(vlist) /\ ~undoOpts.isRecursive
     /\ ~vlist[n + 1].glacier /\ vlist[n + 1].object # undoOpts.target
UndoScan == at # 0 => \E n \in 0..Len(vlist) : ComeTo(n) /\ AtObject(n) /\ DoneBy(n)
UndoSets == TriedOnes \subseteq Meant /\ undone \cap undoFailed = {}

UndoIInv == UndoTypes /\ UndoFlags /\ UndoScan /\ UndoSets /\ UndoneAreLast

\* What there is of newer versions of an object.
NewerThan(v) ==
  {w \in OfObject(AllOf, v.object) : w # v /\ (w.latest \/ w.time > v.time)}

\* A listing of versions is a sequence; the versions of an object come together,
\* at different times, and one of them at most is the latest.
LEMMA UndoListing ==
  ASSUME UndoTypes
  PROVE  /\ Len(vlist) \in Nat /\ DOMAIN vlist = 1..Len(vlist)
         /\ \A i \in 1..Len(vlist) : vlist[i] \in Versions3
         /\ \A v \in Versions3 : v.object # "" /\ v.time \in Nat
         /\ \A i, j, k \in 1..Len(vlist) :
              i <= k /\ k <= j /\ vlist[i].object = vlist[j].object =>
                vlist[k].object = vlist[i].object
         /\ \A v, w \in Versions3 :
              v # w /\ v.object = w.object => v.time # w.time /\ ~(v.latest /\ w.latest)
         /\ IsFiniteSet(Versions3)
         /\ undoOpts.last \in Nat \ {0}
PROOF
<1>1. vlist \in VersionListings /\ undoOpts \in UndoOptions
  BY DEF UndoTypes
<1>2. vlist \in Seq({vlist[i] : i \in DOMAIN vlist})
  BY <1>1, UndoAssumption
<1>3. Len(vlist) \in Nat /\ DOMAIN vlist = 1..Len(vlist)
  BY <1>2
<1>4. /\ \A i \in DOMAIN vlist : vlist[i].object # "" /\ vlist[i].time \in Nat
      /\ \A i, j \in DOMAIN vlist :
            i < j /\ vlist[i].object = vlist[j].object =>
              /\ vlist[i].time # vlist[j].time /\ ~(vlist[i].latest /\ vlist[j].latest)
              /\ \A k \in i..j : vlist[k].object = vlist[i].object
  BY <1>1, UndoAssumption
<1> HIDE <1>2
<1>5. \A i \in 1..Len(vlist) : vlist[i] \in Versions3
  BY <1>3 DEF Versions3
<1>6. \A v \in Versions3 : v.object # "" /\ v.time \in Nat
  BY <1>4 DEF Versions3
<1>7. \A i, j, k \in 1..Len(vlist) :
         i <= k /\ k <= j /\ vlist[i].object = vlist[j].object =>
           vlist[k].object = vlist[i].object
  <2> TAKE i, j, k \in 1..Len(vlist)
  <2> HAVE i <= k /\ k <= j /\ vlist[i].object = vlist[j].object
  <2>1. CASE i = j
    BY <2>1, <1>3
  <2>2. CASE i < j
    <3>1. k \in i..j /\ i \in DOMAIN vlist /\ j \in DOMAIN vlist
      BY <1>3
    <3> QED
      BY <3>1, <2>2, <1>4
  <2> QED
    BY <2>1, <2>2, <1>3
<1>8. \A v, w \in Versions3 :
         v # w /\ v.object = w.object => v.time # w.time /\ ~(v.latest /\ w.latest)
  <2> TAKE v, w \in Versions3
  <2> HAVE v # w /\ v.object = w.object
  <2>1. PICK i \in 1..Len(vlist), j \in 1..Len(vlist) : v = vlist[i] /\ w = vlist[j]
    BY <1>3 DEF Versions3
  <2>2. i < j \/ j < i
    BY <2>1, <1>3
  <2> QED
    BY <2>1, <2>2, <1>3, <1>4
<1>9. IsFiniteSet(Versions3)
  <2>1. vlist \in [1..Len(vlist) -> Versions3]
    <3>1. vlist = [i \in 1..Len(vlist) |-> vlist[i]]
      BY <1>2, <1>3
    <3> QED
      BY <3>1, <1>5
  <2>2. vlist \in Surjection(1..Len(vlist), Versions3)
    BY <2>1, <1>3 DEF Surjection, Versions3
  <2>3. IsFiniteSet(1..Len(vlist))
    BY <1>3, FS_Interval
  <2> QED
    BY <2>2, <2>3, FS_Surjection
<1>10. undoOpts.last \in Nat \ {0}
  BY <1>1, UndoAssumption
<1> QED
  BY <1>3, <1>5, <1>6, <1>7, <1>8, <1>9, <1>10

\* What the flags mean, of one version.
LEMMA MeantOne ==
  ASSUME NEW v
  PROVE  v \in Meant <=>
           /\ v \in AllOf
           /\ undoOpts.isRecursive \/ v.object = undoOpts.target
           /\ v.latest \/ Cardinality(NewerThan(v)) < undoOpts.last
           /\ \A w \in OfObject(AllOf, v.object) : ~OtherKind(w)
PROOF
<1>1. {w \in AllOf : w.object = v.object /\ (w.latest \/ w.time > v.time)} \ {v} = NewerThan(v)
  BY DEF NewerThan, OfObject
<1> QED
  BY <1>1 DEF Meant, OfObject, OtherKind, AllOf, Versions3

\* The last ones of the versions of an object, as many as --last says.
LEMMA LastOnes ==
  ASSUME UndoTypes, NEW o, NEW gone \in lastOf(OfObject(AllOf, o)), NEW v \in OfObject(AllOf, o)
  PROVE  v \in gone <=> (v.latest \/ Cardinality(NewerThan(v)) < undoOpts.last)
PROOF
<1> DEFINE V == OfObject(AllOf, o)
           last == undoOpts.last
<1>1. IsFiniteSet(V) /\ last \in Nat \ {0}
  <2>1. V \in SUBSET Versions3
    BY DEF OfObject, AllOf
  <2> QED
    BY <2>1, UndoListing, FS_Subset
<1>2. \A x \in V : x.object = o /\ x.time \in Nat /\ x \in Versions3
  BY UndoListing DEF OfObject, AllOf
<1>3. \A x, y \in V : x # y => x.time # y.time /\ ~(x.latest /\ y.latest)
  BY <1>2, UndoListing
<1>4. /\ gone \in SUBSET V /\ Cardinality(gone) = howMany(V)
      /\ \A x \in gone, y \in V \ gone : ~Newer(y, x)
  BY DEF lastOf
<1>5. NewerThan(v) = {w \in V : w # v /\ (w.latest \/ w.time > v.time)}
  BY <1>2 DEF NewerThan
<1>6. v \in V
  OBVIOUS
<1> DEFINE N == NewerThan(v)
<1>7. /\ Cardinality(V) \in Nat /\ Cardinality(gone) \in Nat /\ Cardinality(N) \in Nat
      /\ IsFiniteSet(gone) /\ IsFiniteSet(N) /\ N \in SUBSET V
  <2>1. N \in SUBSET V
    BY <1>5
  <2>2. IsFiniteSet(N) /\ IsFiniteSet(gone)
    BY <2>1, <1>1, <1>4, FS_Subset
  <2> QED
    BY <2>1, <2>2, <1>1, FS_CardinalityType
<1>8. Cardinality(gone) = IF Cardinality(V) > last THEN last ELSE Cardinality(V)
  BY <1>4 DEF howMany
<1> HIDE DEF V, last, N
<1>9. ASSUME v \in gone, ~v.latest PROVE Cardinality(N) < last
  <2>1. \A w \in N : w \in gone
    <3> SUFFICES ASSUME NEW w \in N, w \notin gone PROVE FALSE
      OBVIOUS
    <3>1. w \in V /\ (w.latest \/ w.time > v.time)
      BY <1>5, <1>7 DEF N
    <3>2. ~Newer(w, v)
      BY <3>1, <1>9, <1>4
    <3> QED
      BY <3>1, <3>2, <1>9 DEF Newer
  <2>2. v \notin N
    BY <1>5 DEF N
  <2>3. N \cup {v} \in SUBSET gone
    BY <2>1, <1>9
  <2>4. Cardinality(N \cup {v}) = Cardinality(N) + 1
    BY <2>2, <1>7, FS_AddElement
  <2>5. Cardinality(N \cup {v}) <= Cardinality(gone)
    BY <2>3, <1>7, FS_Subset
  <2> QED
    BY <2>4, <2>5, <1>7, <1>8, <1>1
<1>10. ASSUME v \notin gone PROVE ~v.latest /\ ~(Cardinality(N) < last)
  <2>1. Cardinality(gone) = last
    <3> SUFFICES ASSUME Cardinality(gone) = Cardinality(V) PROVE FALSE
      BY <1>8
    <3>1. gone = V
      BY <1>1, <1>4, FS_Subset
    <3> QED
      BY <3>1, <1>6, <1>10
  <2>2. gone # {}
    BY <2>1, <1>1, <1>7, FS_EmptySet
  <2>3. \A x \in gone : ~Newer(v, x) /\ x # v /\ x \in V
    BY <1>4, <1>6, <1>10
  <2>4. ~v.latest
    BY <2>2, <2>3 DEF Newer
  <2>5. gone \in SUBSET N
    <3> SUFFICES ASSUME NEW x \in gone PROVE x \in N
      OBVIOUS
    <3>1. x \in V /\ x # v /\ (x.latest \/ ~(v.time > x.time))
      BY <2>3, <2>4 DEF Newer
    <3>2. x.time # v.time /\ x.time \in Nat /\ v.time \in Nat
      BY <3>1, <1>2, <1>3, <1>6
    <3> QED
      BY <3>1, <3>2, <1>5 DEF N
  <2>6. Cardinality(gone) <= Cardinality(N)
    BY <2>5, <1>7, FS_Subset
  <2> QED
    BY <2>1, <2>4, <2>6, <1>1, <1>7
<1> QED
  BY <1>9, <1>10 DEF N, last

\* All of the versions of an object that the listing has come past.
LEMMA AllOfIt ==
  ASSUME UndoTypes, NEW n \in Nat, n <= Len(vlist), AtObject(n), Begun,
         \/ n = Len(vlist)
         \/ n < Len(vlist) /\ vlist[n + 1].object # lastObject
  PROVE  OfObject(Seen(n), lastObject) = OfObject(AllOf, lastObject)
PROOF
<1>1. Len(vlist) \in Nat /\ DOMAIN vlist = 1..Len(vlist)
  BY UndoListing
<1>c. \A i, j, k \in 1..Len(vlist) :
           i <= k /\ k <= j /\ vlist[i].object = vlist[j].object =>
             vlist[k].object = vlist[i].object
  BY UndoListing
<1>0. Len(vlist) \in Nat /\ n \in Nat /\ n <= Len(vlist)
  BY <1>1
<1>2. PICK j \in Nat : j \in 1..n /\ vlist[j].object = lastObject
  BY DEF AtObject
<1>3. ASSUME NEW v \in AllOf, v.object = lastObject PROVE v \in Seen(n)
  <2>1. PICK i \in 1..Len(vlist) : vlist[i] = v
    BY <1>1 DEF AllOf, Versions3
  <2>2. i <= n
    <3> SUFFICES ASSUME ~(i <= n) PROVE FALSE
      OBVIOUS
    <3>1. n + 1 \in 1..Len(vlist) /\ j <= n + 1 /\ n + 1 <= i /\ j \in 1..Len(vlist)
      BY <1>0, <1>2
    <3>2. vlist[n + 1].object = lastObject
      BY <3>1, <2>1, <1>c, <1>2, <1>3
    <3>3. n # Len(vlist)
      BY <3>1, <1>0
    <3> QED
      BY <3>2, <3>3
  <2>3. i \in 1..n
    BY <2>2, <1>0
  <2> QED
    BY <2>1, <2>3, <1>3 DEF Seen
<1>4. Seen(n) \subseteq AllOf
  BY DEF Seen
<1> QED
  BY <1>3, <1>4 DEF OfObject

\* What is gone of an object is what is meant of it.
LEMMA SentIsMeant ==
  ASSUME UndoTypes, NEW n \in Nat, n <= Len(vlist), AtObject(n), eligible, Begun,
         OfObject(Seen(n), lastObject) = OfObject(AllOf, lastObject),
         NEW gone \in lastOf(perObject)
  PROVE  /\ gone \subseteq Meant /\ gone \subseteq OfObject(Seen(n), lastObject)
         /\ OfObject(Meant, lastObject) \subseteq gone
PROOF
<1>1. /\ perObject = OfObject(AllOf, lastObject)
      /\ \A w \in OfObject(AllOf, lastObject) : ~OtherKind(w)
      /\ gone \in lastOf(OfObject(AllOf, lastObject))
  BY DEF AtObject
<1>2. gone \subseteq OfObject(AllOf, lastObject)
  BY <1>1 DEF lastOf
<1>3. undoOpts.isRecursive \/ lastObject = undoOpts.target
  <2>1. PICK j \in Nat : j \in 1..n /\ vlist[j].object = lastObject /\ ~vlist[j].glacier
    BY DEF AtObject
  <2>2. j \in 1..Len(vlist)
    <3>1. Len(vlist) \in Nat
      BY UndoListing
    <3> QED
      BY <3>1, <2>1
  <2>3. vlist[j] \in Seen(n)
    BY <2>1, <2>2, UndoListing DEF Seen, AllOf
  <2> QED
    BY <2>1, <2>3 DEF AtObject
<1>4. \A v \in OfObject(AllOf, lastObject) :
        v \in gone <=> (v.latest \/ Cardinality(NewerThan(v)) < undoOpts.last)
  BY <1>1, LastOnes
<1>5. \A v \in OfObject(AllOf, lastObject) : v \in gone <=> v \in Meant
  <2> TAKE v \in OfObject(AllOf, lastObject)
  <2>1. v \in AllOf /\ v.object = lastObject
    BY DEF OfObject
  <2> QED
    BY <2>1, <1>1, <1>3, <1>4, MeantOne
<1>6. \A v \in Meant : v \in AllOf
  BY MeantOne
<1> QED
  BY <1>2, <1>5, <1>6 DEF OfObject

\* The listing and the flags stay.
LEMMA FlagsStay ==
  ASSUME UNCHANGED <<vlist, undoOpts>>
  PROVE  /\ Meant' = Meant /\ AllOf' = AllOf /\ Versions3' = Versions3
         /\ \A n : Seen(n)' = Seen(n)
         /\ \A v : OtherKind(v)' <=> OtherKind(v)
PROOF
<1>1. Versions3' = Versions3
  BY DEF Versions3
<1>2. AllOf' = AllOf
  BY <1>1 DEF AllOf
<1>3. \A n : Seen(n)' = Seen(n)
  BY <1>2 DEF Seen
<1>4. \A v : OtherKind(v)' <=> OtherKind(v)
  BY DEF OtherKind
<1>5. Meant' = Meant
  BY DEF Meant
<1> QED
  BY <1>1, <1>2, <1>3, <1>4, <1>5

\* One more of the listing.
LEMMA OneMoreSeen ==
  ASSUME UndoTypes, NEW n \in Nat, n <= Len(vlist), n < Len(vlist)
  PROVE  /\ vlist[n + 1].glacier => Seen(n + 1) = Seen(n)
         /\ ~vlist[n + 1].glacier => vlist[n + 1] \in AllOf /\ Seen(n + 1) = Seen(n) \cup {vlist[n + 1]}
         /\ n + 1 \in 1..Len(vlist)
PROOF
<1>0. Len(vlist) \in Nat /\ n \in Nat
  BY UndoListing
<1>1. n + 1 \in 1..Len(vlist) /\ vlist[n + 1] \in Versions3
  <2>1. n + 1 \in 1..Len(vlist)
    BY <1>0
  <2> QED
    BY <2>1, UndoListing
<1>2. \A i : i \in 1..(n + 1) <=> i \in 1..n \/ i = n + 1
  BY <1>0
<1> QED
  BY <1>1, <1>2 DEF Seen, AllOf

\* undoLastNOperations.
LEMMA UndoLastDoes ==
  ASSUME undoLast(perObject)
  PROVE  \E gone : /\ undoOpts.isDryRun => gone = {}
                   /\ ~undoOpts.isDryRun => gone \in lastOf(perObject)
                   /\ TriedOnes' = TriedOnes \cup gone
                   /\ undoExit' \in {<<>>, <<1>>}
                   /\ undone \cap undoFailed = {} /\ gone \cap TriedOnes = {} =>
                        (undone \cap undoFailed = {})'
PROOF
<1>1. PICK gone \in IF undoOpts.isDryRun THEN {{}} ELSE lastOf(perObject) :
        \E bad \in SUBSET gone :
           /\ undone' = undone \cup (gone \ bad)
           /\ undoFailed' = undoFailed \cup bad
           /\ undoExit' = IF bad = {} THEN <<>> ELSE <<1>>
  BY DEF undoLast
<1>2. PICK bad \in SUBSET gone :
           /\ undone' = undone \cup (gone \ bad)
           /\ undoFailed' = undoFailed \cup bad
           /\ undoExit' = IF bad = {} THEN <<>> ELSE <<1>>
  BY <1>1
<1>3. TriedOnes' = TriedOnes \cup gone
  BY <1>2 DEF TriedOnes
<1>4. undone \cap undoFailed = {} /\ gone \cap TriedOnes = {} => (undone \cap undoFailed = {})'
  BY <1>2 DEF TriedOnes
<1>5. undoExit' \in {<<>>, <<1>>}
  BY <1>2
<1>6. (undoOpts.isDryRun => gone = {}) /\ (~undoOpts.isDryRun => gone \in lastOf(perObject))
  BY <1>1
<1> QED
  BY <1>3, <1>4, <1>5, <1>6

\* undoURL at one of the versions: those of GLACIER storage are passed over.
LEMMA UndoGlacier ==
  ASSUME UndoIInv, UndoNextVersion, vlist[at].glacier
  PROVE  UndoIInv'
PROOF
<1>1. /\ at \in 1..Len(vlist) /\ at' = at + 1
      /\ UNCHANGED <<vlist, undoOpts, lastObject, perObject, eligible, anyUndone,
                     undone, undoFailed, undoExit>>
  BY DEF UndoNextVersion
<1>2. UndoTypes /\ Len(vlist) \in Nat
  BY UndoListing DEF UndoIInv
<1>3. PICK n \in 0..Len(vlist) : n = at - 1 /\ AtObject(n) /\ DoneBy(n)
  BY <1>1, <1>2 DEF UndoIInv, UndoScan, ComeTo
<1>4. n \in Nat /\ n < Len(vlist) /\ n + 1 = at /\ n + 1 = at' - 1 /\ n + 1 \in 0..Len(vlist)
  BY <1>1, <1>2, <1>3
<1>5. Seen(n + 1) = Seen(n)
  BY <1>2, <1>4, OneMoreSeen
<1>6. /\ Meant' = Meant /\ (\A m : Seen(m)' = Seen(m))
      /\ \A v : OtherKind(v)' <=> OtherKind(v)
  BY <1>1, FlagsStay
<1>7. AtObject(n + 1)'
  <2>1. Begun' = Begun /\ Seen(n + 1)' = Seen(n)
    BY <1>1, <1>5, <1>6 DEF Begun
  <2>2. Begun => \E j \in 1..(n + 1) : /\ vlist[j].object = lastObject /\ ~vlist[j].glacier
                       /\ \A i \in 1..(n + 1) : j < i => vlist[i].glacier
    <3> SUFFICES ASSUME Begun
                 PROVE  \E j \in 1..(n + 1) : /\ vlist[j].object = lastObject /\ ~vlist[j].glacier
                           /\ \A i \in 1..(n + 1) : j < i => vlist[i].glacier
      OBVIOUS
    <3>1. PICK j \in 1..n : /\ vlist[j].object = lastObject /\ ~vlist[j].glacier
                       /\ \A i \in 1..n : j < i => vlist[i].glacier
      BY <1>3 DEF AtObject
    <3>2. j \in 1..(n + 1) /\ \A i \in 1..(n + 1) : i \in 1..n \/ i = at
      BY <1>4
    <3> QED
      BY <3>1, <3>2
  <2> QED
    BY <2>1, <2>2, <1>1, <1>3, <1>6 DEF AtObject, OfObject
<1>8. DoneBy(n + 1)'
  BY <1>1, <1>3, <1>5, <1>6 DEF DoneBy, TriedOnes
<1>9. UndoScan'
  BY <1>1, <1>4, <1>7, <1>8 DEF UndoScan, ComeTo
<1>10. UndoTypes' /\ UndoFlags' /\ UndoSets'
  <2>1. at' \in 0..(Len(vlist) + 1)
    BY <1>1, <1>2
  <2> QED
    BY <1>1, <1>6, <2>1 DEF UndoIInv, UndoTypes, UndoFlags, UndoSets, TriedOnes
<1>11. UndoneAreLast'
  <2>1. at' # 0
    BY <1>1
  <2> QED
    BY <2>1, <1>10 DEF UndoSets, TriedOnes, UndoneAreLast
<1> QED
  BY <1>9, <1>10, <1>11 DEF UndoIInv

\* undoURL at another object than the target.
LEMMA UndoBreak ==
  ASSUME UndoIInv, UndoNextVersion, ~vlist[at].glacier,
         ~undoOpts.isRecursive /\ vlist[at].object # undoOpts.target
  PROVE  UndoIInv'
PROOF
<1>1. /\ at \in 1..Len(vlist) /\ at' = Len(vlist) + 1
      /\ UNCHANGED <<vlist, undoOpts, lastObject, perObject, eligible, anyUndone,
                     undone, undoFailed, undoExit>>
  BY DEF UndoNextVersion
<1>2. UndoTypes /\ Len(vlist) \in Nat
  BY UndoListing DEF UndoIInv
<1>3. PICK n \in 0..Len(vlist) : n = at - 1 /\ AtObject(n) /\ DoneBy(n)
  BY <1>1, <1>2 DEF UndoIInv, UndoScan, ComeTo
<1>4. n \in Nat /\ n < Len(vlist) /\ n + 1 = at
  BY <1>1, <1>2, <1>3
<1>5. ComeTo(n)'
  BY <1>1, <1>4 DEF ComeTo
<1>6. /\ Meant' = Meant /\ (\A m : Seen(m)' = Seen(m))
      /\ \A v : OtherKind(v)' <=> OtherKind(v)
  BY <1>1, FlagsStay
<1>7. AtObject(n)'
  BY <1>1, <1>3, <1>6 DEF AtObject, OfObject, Begun
<1>8. DoneBy(n)'
  BY <1>1, <1>3, <1>6 DEF DoneBy, TriedOnes
<1>9. UndoScan'
  BY <1>1, <1>5, <1>7, <1>8 DEF UndoScan
<1>10. UndoTypes' /\ UndoFlags' /\ UndoSets'
  <2>1. at' \in 0..(Len(vlist) + 1)
    BY <1>1, <1>2
  <2> QED
    BY <1>1, <1>6, <2>1 DEF UndoIInv, UndoTypes, UndoFlags, UndoSets, TriedOnes
<1>11. UndoneAreLast'
  <2>1. at' # 0
    BY <1>1, <1>2
  <2> QED
    BY <2>1, <1>10 DEF UndoSets, TriedOnes, UndoneAreLast
<1> QED
  BY <1>9, <1>10, <1>11 DEF UndoIInv

\* undoURL at one more version of the object.
LEMMA UndoSameObject ==
  ASSUME UndoIInv, UndoNextVersion, ~vlist[at].glacier,
         undoOpts.isRecursive \/ vlist[at].object = undoOpts.target,
         vlist[at].object = lastObject
  PROVE  UndoIInv'
PROOF
<1>a. UndoTypes /\ Len(vlist) \in Nat /\ at \in 1..Len(vlist)
  BY UndoListing DEF UndoIInv, UndoNextVersion
<1>v. PICK v \in Versions3 : v = vlist[at]
  BY <1>a, UndoListing
<1>1. /\ at' = at + 1 /\ v.object = lastObject /\ lastObject' = lastObject
      /\ UNCHANGED <<vlist, undoOpts, undone, undoFailed, undoExit>>
      /\ eligible' = (eligible /\ ~OtherKind(v))
      /\ anyUndone' = (anyUndone \/ eligible')
      /\ perObject' = perObject \cup (IF eligible' THEN {v} ELSE {})
      /\ undoOpts.isRecursive \/ v.object = undoOpts.target
  BY <1>v DEF UndoNextVersion, OtherKind
<1>2. Begun /\ Begun'
  BY <1>a, <1>1, UndoListing DEF Begun
<1>3. PICK n \in 0..Len(vlist) : n = at - 1 /\ AtObject(n) /\ DoneBy(n)
  BY <1>a DEF UndoIInv, UndoScan, ComeTo
<1>4. n \in Nat /\ n < Len(vlist) /\ n + 1 = at /\ n + 1 = at' - 1 /\ n + 1 \in 0..Len(vlist)
  BY <1>a, <1>1, <1>3
<1>5. v \in AllOf /\ Seen(n + 1) = Seen(n) \cup {v}
  BY <1>a, <1>4, <1>v, OneMoreSeen
<1>6. /\ Meant' = Meant /\ (\A m : Seen(m)' = Seen(m))
      /\ \A w : OtherKind(w)' <=> OtherKind(w)
  BY <1>1, FlagsStay
<1>7. Seen(n + 1)' = Seen(n) \cup {v}
  BY <1>5, <1>6
<1>8. OfObject(Seen(n) \cup {v}, lastObject) = OfObject(Seen(n), lastObject) \cup {v}
  BY <1>1 DEF OfObject
<1>9. AtObject(n + 1)'
  <2>1. \E j \in 1..(n + 1) : /\ vlist[j].object = lastObject /\ ~vlist[j].glacier
                       /\ \A i \in 1..(n + 1) : j < i => vlist[i].glacier
    <3>1. n + 1 \in 1..(n + 1) /\ \A i \in 1..(n + 1) : ~(n + 1 < i)
      BY <1>4
    <3> QED
      BY <3>1, <1>4, <1>v, <1>1
  <2>2. eligible' <=> \A w \in OfObject(Seen(n) \cup {v}, lastObject) : ~OtherKind(w)
    BY <1>1, <1>3, <1>8 DEF AtObject
  <2>3. eligible' => perObject' = OfObject(Seen(n) \cup {v}, lastObject)
    BY <1>1, <1>3, <1>8 DEF AtObject
  <2>4. ~undoOpts.isRecursive => \A w \in Seen(n) \cup {v} : w.object = undoOpts.target
    BY <1>1, <1>3 DEF AtObject
  <2>5. OfObject(Seen(n + 1), lastObject)' = OfObject(Seen(n) \cup {v}, lastObject)
    BY <1>1, <1>7 DEF OfObject
  <2> QED
    BY <1>1, <1>2, <1>6, <1>7, <2>1, <2>2, <2>3, <2>4, <2>5 DEF AtObject
<1>10. DoneBy(n + 1)'
  BY <1>1, <1>3, <1>6, <1>7 DEF DoneBy, TriedOnes
<1>11. UndoScan'
  BY <1>1, <1>4, <1>9, <1>10 DEF UndoScan, ComeTo
<1>12. UndoTypes' /\ UndoSets'
  <2>1. at' \in 0..(Len(vlist) + 1)
    BY <1>1, <1>a
  <2> QED
    BY <1>1, <1>6, <2>1 DEF UndoIInv, UndoTypes, UndoSets, TriedOnes
<1>13. UndoFlags'
  <2>1. eligible' \in BOOLEAN
    BY <1>1
  <2>2. anyUndone' \in BOOLEAN
    BY <1>1
  <2> QED
    BY <2>1, <2>2 DEF UndoFlags
<1>14. UndoneAreLast'
  <2>1. at' # 0
    BY <1>1, <1>a
  <2> QED
    BY <2>1, <1>12 DEF UndoSets, TriedOnes, UndoneAreLast
<1> QED
  BY <1>11, <1>12, <1>13, <1>14 DEF UndoIInv

\* The versions of another object come after all of the one before.
LEMMA NotYetSeen ==
  ASSUME UndoTypes, NEW n \in Nat, n <= Len(vlist), n < Len(vlist), AtObject(n),
         ~vlist[n + 1].glacier, vlist[n + 1].object # lastObject
  PROVE  OfObject(Seen(n), vlist[n + 1].object) = {}
PROOF
<1>0. Len(vlist) \in Nat
  BY UndoListing
<1>1. CASE ~Begun
  BY <1>1 DEF AtObject, OfObject
<1>2. CASE Begun
  <2> SUFFICES ASSUME NEW v \in Seen(n), v.object = vlist[n + 1].object
               PROVE  FALSE
    BY DEF OfObject
  <2>1. PICK i \in 1..n : vlist[i] = v /\ ~v.glacier
    BY DEF Seen, AllOf
  <2>2. PICK j \in 1..n : /\ vlist[j].object = lastObject /\ ~vlist[j].glacier
                          /\ \A k \in 1..n : j < k => vlist[k].glacier
    BY <1>2 DEF AtObject
  <2>3. i <= j
    BY <2>1, <2>2
  <2>4. i \in 1..Len(vlist) /\ j \in 1..Len(vlist) /\ n + 1 \in 1..Len(vlist) /\ j <= n + 1
    BY <1>0
  <2>5. vlist[j].object = vlist[i].object
    BY <2>1, <2>3, <2>4, UndoListing
  <2> QED
    BY <2>1, <2>2, <2>5
<1> QED
  BY <1>1, <1>2

\* undoURL at the first version of another object: the one before is done.
LEMMA UndoNewObject ==
  ASSUME UndoIInv, UndoNextVersion, ~vlist[at].glacier,
         undoOpts.isRecursive \/ vlist[at].object = undoOpts.target,
         vlist[at].object # lastObject
  PROVE  UndoIInv'
PROOF
<1>a. UndoTypes /\ Len(vlist) \in Nat /\ at \in 1..Len(vlist)
  BY UndoListing DEF UndoIInv, UndoNextVersion
<1>v. PICK v \in Versions3 : v = vlist[at]
  BY <1>a, UndoListing
<1>1. /\ at' = at + 1 /\ lastObject' = v.object
      /\ UNCHANGED <<vlist, undoOpts>>
      /\ IF eligible THEN undoLast(perObject)
         ELSE UNCHANGED <<undone, undoFailed, undoExit>>
      /\ eligible' = ~OtherKind(v)
      /\ anyUndone' = (anyUndone \/ eligible')
      /\ perObject' = IF eligible' THEN {v} ELSE {}
      /\ undoOpts.isRecursive \/ v.object = undoOpts.target
  BY <1>v DEF UndoNextVersion, OtherKind
<1>2. Begun'
  BY <1>a, <1>1, UndoListing DEF Begun
<1>3. PICK n \in 0..Len(vlist) : n = at - 1 /\ AtObject(n) /\ DoneBy(n)
  BY <1>a DEF UndoIInv, UndoScan, ComeTo
<1>4. n \in Nat /\ n < Len(vlist) /\ n <= Len(vlist) /\ n + 1 = at /\ n + 1 = at' - 1 /\ n + 1 \in 0..Len(vlist)
  BY <1>a, <1>1, <1>3
<1>5. v \in AllOf /\ Seen(n + 1) = Seen(n) \cup {v}
  BY <1>a, <1>4, <1>v, OneMoreSeen
<1>6. /\ Meant' = Meant /\ (\A m : Seen(m)' = Seen(m))
      /\ \A w : OtherKind(w)' <=> OtherKind(w)
  BY <1>1, FlagsStay
<1>7. Seen(n + 1)' = Seen(n) \cup {v}
  BY <1>5, <1>6
<1>8. OfObject(Seen(n), v.object) = {}
  BY <1>a, <1>3, <1>4, <1>v, NotYetSeen
<1>9. OfObject(Seen(n) \cup {v}, v.object) = {v}
  BY <1>8 DEF OfObject
<1>10. AtObject(n + 1)'
  <2>1. \E j \in 1..(n + 1) : /\ vlist[j].object = v.object /\ ~vlist[j].glacier
                       /\ \A i \in 1..(n + 1) : j < i => vlist[i].glacier
    <3>1. n + 1 \in 1..(n + 1) /\ \A i \in 1..(n + 1) : ~(n + 1 < i)
      BY <1>4
    <3> QED
      BY <3>1, <1>4, <1>v
  <2>2. eligible' <=> \A w \in OfObject(Seen(n) \cup {v}, v.object) : ~OtherKind(w)
    BY <1>1, <1>9
  <2>3. eligible' => perObject' = OfObject(Seen(n) \cup {v}, v.object)
    BY <1>1, <1>9
  <2>4. ~undoOpts.isRecursive => \A w \in Seen(n) \cup {v} : w.object = undoOpts.target
    BY <1>1, <1>3 DEF AtObject
  <2>5. OfObject(Seen(n + 1), lastObject)' = OfObject(Seen(n) \cup {v}, v.object)
    BY <1>1, <1>7 DEF OfObject
  <2> QED
    BY <1>1, <1>2, <1>6, <1>7, <2>1, <2>2, <2>3, <2>4, <2>5 DEF AtObject
\* What is gone of the object before.
<1>11. PICK gone : /\ TriedOnes' = TriedOnes \cup gone
                   /\ gone \subseteq Meant /\ gone \subseteq OfObject(Seen(n), lastObject)
                   /\ undoOpts.isDryRun \/ OfObject(Meant, lastObject) \cap Seen(n) \subseteq gone
                   /\ undoExit' \in {<<>>, <<1>>} /\ (undone \cap undoFailed = {})'
  <2>0. TriedOnes \cap OfObject(Seen(n), lastObject) = {} /\ undone \cap undoFailed = {}
    BY <1>3 DEF DoneBy, OfObject, UndoIInv, UndoSets
  <2>1. CASE eligible
    <3>1. PICK gone : /\ undoOpts.isDryRun => gone = {}
                      /\ ~undoOpts.isDryRun => gone \in lastOf(perObject)
                      /\ TriedOnes' = TriedOnes \cup gone
                      /\ undoExit' \in {<<>>, <<1>>}
                      /\ undone \cap undoFailed = {} /\ gone \cap TriedOnes = {} =>
                           (undone \cap undoFailed = {})'
      BY <1>1, <2>1, UndoLastDoes
    <3>2. /\ gone \subseteq Meant /\ gone \subseteq OfObject(Seen(n), lastObject)
          /\ undoOpts.isDryRun \/ OfObject(Meant, lastObject) \cap Seen(n) \subseteq gone
      <4>1. CASE undoOpts.isDryRun
        BY <4>1, <3>1
      <4>2. CASE ~undoOpts.isDryRun /\ ~Begun
        <5>1. gone \subseteq perObject /\ perObject = {} /\ Seen(n) = {}
          BY <4>2, <3>1, <1>3 DEF lastOf, AtObject
        <5> QED
          BY <5>1
      <4>3. CASE ~undoOpts.isDryRun /\ Begun
        <5>1. OfObject(Seen(n), lastObject) = OfObject(AllOf, lastObject)
          BY <4>3, <1>a, <1>3, <1>4, AllOfIt
        <5>2. /\ gone \subseteq Meant /\ gone \subseteq OfObject(Seen(n), lastObject)
              /\ OfObject(Meant, lastObject) \subseteq gone
          BY <5>1, <4>3, <3>1, <2>1, <1>a, <1>3, <1>4, SentIsMeant
        <5> QED
          BY <5>2
      <4> QED
        BY <4>1, <4>2, <4>3
    <3> QED
      BY <3>1, <3>2, <2>0
  <2>2. CASE ~eligible
    <3>1. UNCHANGED <<undone, undoFailed, undoExit>>
      BY <1>1, <2>2
    <3>2. TriedOnes' = TriedOnes \cup {} /\ (undone \cap undoFailed = {})'
      BY <3>1, <2>0 DEF TriedOnes
    <3>3. OfObject(Meant, lastObject) \subseteq {}
      <4>1. PICK w \in OfObject(Seen(n), lastObject) : OtherKind(w)
        BY <2>2, <1>3 DEF AtObject
      <4>2. w \in OfObject(AllOf, lastObject)
        BY <4>1 DEF OfObject, Seen
      <4> QED
        BY <4>1, <4>2, MeantOne DEF OfObject
    <3>4. undoExit' \in {<<>>, <<1>>}
      BY <3>1 DEF UndoIInv, UndoTypes
    <3> QED
      BY <3>2, <3>3, <3>4
  <2>3. eligible \in BOOLEAN
    BY DEF UndoIInv, UndoFlags
  <2> QED
    BY <2>1, <2>2, <2>3
<1>12. DoneBy(n + 1)'
  <2>1. ASSUME NEW w \in Seen(n) \cup {v}, w \in Meant, w.object # v.object
        PROVE  undoOpts.isDryRun \/ w \in TriedOnes'
    <3>1. w \in Seen(n)
      BY <2>1
    <3>2. CASE w.object = lastObject
      BY <3>1, <3>2, <2>1, <1>11 DEF OfObject
    <3>3. CASE w.object # lastObject
      BY <3>1, <3>3, <2>1, <1>3, <1>11 DEF DoneBy
    <3> QED
      BY <3>2, <3>3
  <2>2. ASSUME NEW w \in TriedOnes'
        PROVE  w \in Seen(n) \cup {v} /\ w.object # v.object
    <3>1. w \in Seen(n)
      BY <1>11, <1>3 DEF DoneBy, OfObject
    <3> QED
      BY <3>1, <1>8 DEF OfObject
  <2> QED
    BY <2>1, <2>2, <1>1, <1>6, <1>7 DEF DoneBy
<1>13. UndoScan'
  BY <1>1, <1>4, <1>10, <1>12 DEF UndoScan, ComeTo
<1>14. UndoTypes' /\ UndoSets'
  <2>1. at' \in 0..(Len(vlist) + 1)
    BY <1>1, <1>a
  <2>2. TriedOnes' \subseteq Meant'
    BY <1>6, <1>11 DEF UndoIInv, UndoSets
  <2> QED
    BY <1>1, <1>11, <2>1, <2>2 DEF UndoIInv, UndoTypes, UndoSets
<1>15. UndoFlags'
  <2>1. eligible' \in BOOLEAN
    BY <1>1
  <2>2. anyUndone' \in BOOLEAN
    BY <1>1
  <2> QED
    BY <2>1, <2>2 DEF UndoFlags
<1>16. UndoneAreLast'
  <2>1. at' # 0
    BY <1>1, <1>a
  <2> QED
    BY <2>1, <1>14 DEF UndoSets, TriedOnes, UndoneAreLast
<1> QED
  BY <1>13, <1>14, <1>15, <1>16 DEF UndoIInv

\* undoURL after the listing: the last object is done too.
LEMMA UndoAtEnd ==
  ASSUME UndoIInv, UndoEnds
  PROVE  UndoIInv'
PROOF
<1>a. UndoTypes /\ Len(vlist) \in Nat /\ at = Len(vlist) + 1
  BY UndoListing DEF UndoIInv, UndoEnds
<1>1. /\ at' = 0 /\ UNCHANGED <<vlist, undoOpts, lastObject, perObject, eligible, anyUndone>>
  BY DEF UndoEnds
<1>2. PICK n \in 0..Len(vlist) : ComeTo(n) /\ AtObject(n) /\ DoneBy(n)
  BY <1>a DEF UndoIInv, UndoScan
<1>3. n \in Nat /\ n <= Len(vlist)
  BY <1>a
<1>4. /\ \/ n = Len(vlist)
         \/ /\ n < Len(vlist) /\ ~undoOpts.isRecursive
            /\ vlist[n + 1].object # undoOpts.target
  BY <1>2, <1>a DEF ComeTo
<1>5. Begun => /\ OfObject(Seen(n), lastObject) = OfObject(AllOf, lastObject)
               /\ undoOpts.isRecursive \/ lastObject = undoOpts.target
  <2> SUFFICES ASSUME Begun
               PROVE  /\ OfObject(Seen(n), lastObject) = OfObject(AllOf, lastObject)
                      /\ undoOpts.isRecursive \/ lastObject = undoOpts.target
    OBVIOUS
  <2>1. undoOpts.isRecursive \/ lastObject = undoOpts.target
    <3>1. PICK j \in 1..n : vlist[j].object = lastObject /\ ~vlist[j].glacier
      BY <1>2 DEF AtObject
    <3>2. j \in 1..Len(vlist)
      BY <1>a, <1>3
    <3>3. vlist[j] \in Seen(n)
      BY <1>a, <3>1, <3>2, UndoListing DEF Seen, AllOf
    <3> QED
      BY <3>1, <3>3, <1>2 DEF AtObject
  <2>2. n = Len(vlist) \/ (n < Len(vlist) /\ vlist[n + 1].object # lastObject)
    BY <2>1, <1>4
  <2> QED
    BY <2>1, <2>2, <1>a, <1>2, <1>3, AllOfIt
\* What is meant is of the last object or done, when there was one.
<1>6. Begun => \A w \in Meant : \/ w.object = lastObject
                                 \/ undoOpts.isDryRun \/ w \in TriedOnes
  <2> SUFFICES ASSUME Begun, NEW w \in Meant, w.object # lastObject
               PROVE  undoOpts.isDryRun \/ w \in TriedOnes
    OBVIOUS
  <2>1. w \in AllOf /\ (undoOpts.isRecursive \/ w.object = undoOpts.target)
    BY MeantOne
  <2>2. undoOpts.isRecursive
    BY <2>1, <1>5
  <2>3. n = Len(vlist)
    BY <2>2, <1>4
  <2>4. w \in Seen(n)
    BY <2>1, <2>3, <1>a, UndoListing DEF Seen, AllOf, Versions3
  <2> QED
    BY <2>4, <1>2 DEF DoneBy
<1>7. Meant' = Meant
  BY <1>1, FlagsStay
<1>8. TriedOnes \subseteq Meant /\ undone \cap undoFailed = {} /\ undoExit \in {<<>>, <<1>>}
  BY DEF UndoIInv, UndoSets, UndoTypes
<1>9. CASE perObject # {} /\ eligible
  <2>1. Begun
    BY <1>9, <1>2 DEF AtObject
  <2>2. PICK gone : /\ undoOpts.isDryRun => gone = {}
                    /\ ~undoOpts.isDryRun => gone \in lastOf(perObject)
                    /\ TriedOnes' = TriedOnes \cup gone
                    /\ undoExit' \in {<<>>, <<1>>}
                    /\ undone \cap undoFailed = {} /\ gone \cap TriedOnes = {} =>
                         (undone \cap undoFailed = {})'
    BY <1>9, UndoLastDoes DEF UndoEnds
  <2>3. ~undoOpts.isDryRun => /\ gone \subseteq Meant /\ gone \subseteq OfObject(Seen(n), lastObject)
                              /\ OfObject(Meant, lastObject) \subseteq gone
    BY <2>1, <2>2, <1>9, <1>a, <1>2, <1>3, <1>5, SentIsMeant
  <2>4. gone \cap TriedOnes = {}
    BY <2>2, <2>3, <1>2 DEF DoneBy, OfObject
  <2>5. TriedOnes' \subseteq Meant'
    BY <2>2, <2>3, <1>7, <1>8
  <2>6. ~undoOpts.isDryRun => TriedOnes' = Meant'
    <3> SUFFICES ASSUME ~undoOpts.isDryRun, NEW w \in Meant
                 PROVE  w \in TriedOnes'
      BY <2>5, <1>7
    <3>1. CASE w.object = lastObject
      BY <3>1, <2>2, <2>3 DEF OfObject
    <3>2. CASE w.object # lastObject
      BY <3>2, <2>1, <2>2, <1>6
    <3> QED
      BY <3>1, <3>2
  <2>7. UndoSets' /\ UndoTypes'
    BY <1>1, <1>a, <1>8, <2>2, <2>4, <2>5 DEF UndoSets, UndoTypes
  <2>8. UndoneAreLast'
    BY <1>1, <2>5, <2>6 DEF UndoneAreLast, TriedOnes
  <2> QED
    BY <1>1, <2>7, <2>8 DEF UndoIInv, UndoFlags, UndoScan
<1>10. CASE ~(perObject # {} /\ eligible)
  <2>1. /\ undoExit' = IF anyUndone THEN undoExit ELSE <<1>>
        /\ UNCHANGED <<undone, undoFailed>>
    BY <1>10 DEF UndoEnds
  <2>2. TriedOnes' = TriedOnes
    BY <2>1 DEF TriedOnes
  <2>3. undoExit' = <<>> /\ ~undoOpts.isDryRun => TriedOnes = Meant
    <3> SUFFICES ASSUME undoExit' = <<>>, ~undoOpts.isDryRun, NEW w \in Meant
                 PROVE  w \in TriedOnes
      BY <1>8
    <3>1. anyUndone
      BY <2>1
    <3>2. Begun
      BY <3>1, <1>2 DEF AtObject
    <3>3. w.object # lastObject
      <4> SUFFICES ASSUME w.object = lastObject PROVE FALSE
        OBVIOUS
      <4>1. w \in OfObject(AllOf, lastObject) /\ \A x \in OfObject(AllOf, lastObject) : ~OtherKind(x)
        BY MeantOne DEF OfObject
      <4>2. OfObject(Seen(n), lastObject) = OfObject(AllOf, lastObject)
        BY <3>2, <1>5
      <4>3. eligible
        BY <4>1, <4>2, <1>2 DEF AtObject
      <4>4. perObject = OfObject(AllOf, lastObject)
        BY <4>3, <4>2, <1>2 DEF AtObject
      <4> QED
        BY <4>1, <4>3, <4>4, <1>10
    <3> QED
      BY <3>2, <3>3, <1>6
  <2>4. UndoSets' /\ UndoTypes'
    <3>1. undoExit' \in {<<>>, <<1>>}
      BY <2>1, <1>8
    <3> QED
      BY <1>1, <1>a, <1>7, <1>8, <2>1, <2>2, <3>1 DEF UndoSets, UndoTypes
  <2>5. UndoneAreLast'
    BY <1>1, <1>7, <1>8, <2>2, <2>3 DEF UndoneAreLast, TriedOnes
  <2> QED
    BY <1>1, <2>4, <2>5 DEF UndoIInv, UndoFlags, UndoScan
<1> QED
  BY <1>9, <1>10

\* Every step of undoURL keeps the invariant.
LEMMA UndoStep ==
  ASSUME UndoIInv, [UndoNext]_undoVars
  PROVE  UndoIInv'
PROOF
<1>1. CASE UndoNextVersion
  <2>1. CASE vlist[at].glacier
    BY <1>1, <2>1, UndoGlacier
  <2>2. CASE ~vlist[at].glacier /\ ~undoOpts.isRecursive /\ vlist[at].object # undoOpts.target
    BY <1>1, <2>2, UndoBreak
  <2>3. CASE /\ ~vlist[at].glacier
             /\ undoOpts.isRecursive \/ vlist[at].object = undoOpts.target
    BY <1>1, <2>3, UndoSameObject, UndoNewObject
  <2> QED
    BY <2>1, <2>2, <2>3
<1>2. CASE UndoListingFails
  <2>1. /\ at' = 0 /\ undoExit' = <<1>>
        /\ UNCHANGED <<vlist, undoOpts, lastObject, perObject, eligible, anyUndone, undone, undoFailed>>
    BY <1>2 DEF UndoListingFails
  <2>2. Meant' = Meant
    BY <2>1, FlagsStay
  <2>3. TriedOnes' = TriedOnes /\ Len(vlist) \in Nat
    BY <2>1, UndoListing DEF TriedOnes, UndoIInv
  <2>4. UndoTypes' /\ UndoSets'
    BY <2>1, <2>2, <2>3 DEF UndoIInv, UndoTypes, UndoSets
  <2>5. UndoneAreLast'
    <3>1. undoExit' # <<>>
      BY <2>1
    <3> QED
      BY <2>4, <3>1 DEF UndoSets, UndoneAreLast, TriedOnes
  <2> QED
    BY <2>1, <2>4, <2>5 DEF UndoIInv, UndoFlags, UndoScan
<1>3. CASE UndoEnds
  BY <1>3, UndoAtEnd
<1>4. CASE UNCHANGED undoVars
  <2>1. UNCHANGED <<vlist, undoOpts, at, lastObject, perObject, eligible, anyUndone,
                    undone, undoFailed, undoExit>>
    BY <1>4 DEF undoVars
  <2>2. /\ Meant' = Meant /\ (\A m : Seen(m)' = Seen(m))
        /\ \A w : OtherKind(w)' <=> OtherKind(w)
    BY <2>1, FlagsStay
  <2>3. \A n : /\ ComeTo(n) => ComeTo(n)'
               /\ AtObject(n) => AtObject(n)'
               /\ DoneBy(n) => DoneBy(n)'
    <3> TAKE n
    <3>1. ComeTo(n) => ComeTo(n)'
      BY <2>1 DEF ComeTo
    <3>2. AtObject(n) => AtObject(n)'
      BY <2>1, <2>2 DEF AtObject, OfObject, Begun
    <3>3. DoneBy(n) => DoneBy(n)'
      BY <2>1, <2>2 DEF DoneBy, TriedOnes
    <3> QED
      BY <3>1, <3>2, <3>3
  <2>4. UndoScan'
    BY <2>1, <2>3 DEF UndoIInv, UndoScan
  <2>5. UndoTypes' /\ UndoSets'
    BY <2>1, <2>2 DEF UndoIInv, UndoTypes, UndoSets, TriedOnes
  <2>6. UndoneAreLast'
    BY <2>1, <2>2 DEF UndoIInv, UndoneAreLast
  <2> QED
    BY <2>1, <2>4, <2>5, <2>6 DEF UndoIInv, UndoFlags
<1> QED
  BY <1>1, <1>2, <1>3, <1>4 DEF UndoNext

\* The invariant of undoURL.
LEMMA UndoInvariant == UndoSpec => []UndoIInv
PROOF
<1>1. UndoInit => UndoIInv
  <2> SUFFICES ASSUME UndoInit PROVE UndoIInv
    OBVIOUS
  <2>b. ~Begun
    BY DEF UndoInit, Begun
  <2>1. /\ vlist \in VersionListings /\ undoOpts \in UndoOptions /\ at = 1
        /\ perObject = {} /\ eligible = TRUE /\ anyUndone = FALSE
        /\ undone = {} /\ undoFailed = {} /\ undoExit = <<>>
    BY DEF UndoInit
  <2>2. Len(vlist) \in Nat
    <3>1. UndoTypes
      <4>1. vlist \in Seq({vlist[i] : i \in DOMAIN vlist})
        BY <2>1, UndoAssumption
      <4> QED
        BY <4>1, <2>1 DEF UndoTypes
    <3> QED
      BY <3>1, UndoListing
  <2>3. UndoTypes /\ UndoFlags
    <3>1. UndoTypes
      <4>1. at \in 0..(Len(vlist) + 1) /\ undoExit \in {<<>>, <<1>>}
        BY <2>1, <2>2
      <4> QED
        BY <4>1, <2>1 DEF UndoTypes
    <3>2. UndoFlags
      BY <2>1 DEF UndoFlags
    <3> QED
      BY <3>1, <3>2
  <2>4. Seen(0) = {}
    BY DEF Seen
  <2>5. AtObject(0)
    BY <2>b, <2>1, <2>4 DEF AtObject, OfObject
  <2>6. DoneBy(0) /\ TriedOnes = {}
    BY <2>1, <2>4 DEF DoneBy, TriedOnes
  <2>7. UndoScan
    BY <2>1, <2>2, <2>5, <2>6 DEF UndoScan, ComeTo
  <2>8. UndoSets
    BY <2>1, <2>6 DEF UndoSets
  <2>9. UndoneAreLast
    BY <2>1, <2>6 DEF UndoneAreLast, TriedOnes
  <2> QED
    BY <2>3, <2>7, <2>8, <2>9 DEF UndoIInv
<1>2. UndoIInv /\ [UndoNext]_undoVars => UndoIInv'
  BY UndoStep
<1> QED
  BY <1>1, <1>2, PTL DEF UndoSpec

\* The state of mc undo (undoURL) has the values that it should: what is undone
\* and what fails are of the listing, and no version is both.
THEOREM UndoTypeCorrect == UndoSpec => []UndoTypeOK
PROOF
<1>1. UndoIInv => UndoTypeOK
  <2> SUFFICES ASSUME UndoIInv PROVE UndoTypeOK
    OBVIOUS
  <2>1. TriedOnes \subseteq Versions3
    BY MeantOne DEF UndoIInv, UndoSets, AllOf
  <2> QED
    BY <2>1 DEF UndoIInv, UndoTypes, UndoSets, UndoTypeOK, TriedOnes, Versions3
<1> QED
  BY <1>1, UndoInvariant, PTL

\* mc undo removes nothing but the last versions of what it is asked for, and all
\* of them when it ends well (undoURL, undoLastNOperations, sortObjectVersions),
\* for listings of any length, in whatever order the versions of an object come.
THEOREM LastAreUndone == UndoSpec => []UndoneAreLast
PROOF
<1>1. UndoIInv => UndoneAreLast
  BY DEF UndoIInv
<1> QED
  BY <1>1, UndoInvariant, PTL

-----------------------------------------------------------------------------
(***************************************************************************)
(* Listings of the past.                                                   *)
(***************************************************************************)
Versions2 == [time : Nat, marker : BOOLEAN]
Deliveries == [key : Keys2, time : Nat, marker : BOOLEAN]

RewindTypes ==
  /\ now \in 0..MaxVersions /\ timeRef \in 0..(now + 1)
  /\ history \in [Keys2 -> Seq(Versions2)]
  /\ past \in Seq(SUBSET Keys2) /\ Len(past) = now + 1
  /\ rwCommand \in RewindCommands
  /\ reading \in {"no", "versions", "present", "ended"}
  /\ nextKey \in 1..(Len(VersionedKeys) + 1)
  /\ emitted \subseteq Deliveries
  /\ failedBuckets \subseteq {k.bucket : k \in Keys2}
RewindPhases ==
  /\ reading = "no" => emitted = {} /\ nextKey = 1 /\ timeRef = 0 /\ ~fellBack
  /\ timeRef > 0 /\ ~fellBack => reading \in {"versions", "ended"}
  /\ reading = "ended" /\ ~fellBack /\ timeRef > 0 => nextKey = Len(VersionedKeys) + 1

\* The newest of the versions of an object from before a time.
NewestBefore(h, i, t) ==
  /\ h[i].time < t
  /\ \A l \in 1..Len(h) : h[l].time < t => i <= l
InOrder(h, n) ==
  /\ \A i \in 1..Len(h) : h[i].time \in 1..n
  /\ \A i, j \in 1..Len(h) : i < j => h[j].time < h[i].time

\* The versions of an object tell whether it was there at any time.
Chronicle ==
  /\ \A k \in Keys2 : InOrder(history[k], now)
  /\ past[now + 1] = Live(history)
  /\ \A t \in 1..(now + 1), k \in Keys2 :
       k \in past[t] <=>
         \E i \in 1..Len(history[k]) :
           NewestBefore(history[k], i, t) /\ ~history[k][i].marker

\* What is delivered of an object is all that is asked for, and nothing else.
Delivery(k, v) == [key |-> k, time |-> v.time, marker |-> v.marker]
KeyListed(k) == \A v \in versionsListed(history[k]) : Delivery(k, v) \in emitted
RewindListed ==
  timeRef > 0 /\ ~fellBack =>
    /\ \A e \in emitted :
         /\ KeyListed(e.key)
         /\ \E v \in versionsListed(history[e.key]) : e = Delivery(e.key, v)
    /\ \A i \in 1..Len(VersionedKeys) :
         i < nextKey => \/ BucketOf(i) \in failedBuckets
                        \/ KeyListed(VersionedKeys[i])

RewindIInv == RewindTypes /\ RewindPhases /\ Chronicle /\ RewindListed

\* A set of numbers has a least one.
LEMMA LeastOfSet ==
  ASSUME NEW S, S \subseteq Nat, S # {}
  PROVE  \E k \in S : \A j \in S : k <= j
PROOF
<1> DEFINE R == {ss \in Nat \X Nat : ss[1] < ss[2]}
<1>1. R = OpToRel(<, Nat)
  BY Zenon DEF OpToRel
<1>2. IsWellFoundedOn(R, Nat)
  BY <1>1, NatLessThanWellFounded, Zenon
<1>3. \E k \in S : \A j \in S : ~(<<j, k>> \in R)
  <2> HIDE DEF R
  <2> QED
    BY <1>2, WFMin
<1>4. PICK k \in S : \A j \in S : ~(<<j, k>> \in R)
  BY <1>3
<1>5. \A j \in S : k <= j
  <2> TAKE j \in S
  <2>1. j \in Nat /\ k \in Nat /\ <<j, k>> \notin R
    BY <1>4
  <2> QED
    BY <2>1
<1> QED
  BY <1>5

\* The keys of the listing are a sequence.
LEMMA RewindKeys ==
  /\ Len(VersionedKeys) \in Nat /\ DOMAIN VersionedKeys = 1..Len(VersionedKeys)
  /\ \A i \in 1..Len(VersionedKeys) : VersionedKeys[i] \in Keys2
  /\ \A k \in Keys2 : \E i \in 1..Len(VersionedKeys) : VersionedKeys[i] = k
  /\ MaxVersions \in Nat
PROOF
<1>1. VersionedKeys \in Seq({VersionedKeys[i] : i \in DOMAIN VersionedKeys}) /\ MaxVersions \in Nat
  BY RewindAssumption
<1>2. Len(VersionedKeys) \in Nat /\ DOMAIN VersionedKeys = 1..Len(VersionedKeys)
  BY <1>1
<1> QED
  BY <1>1, <1>2 DEF Keys2

\* What listVersionsRoutine lists of an object, by the places of the versions.
LEMMA ListedOf ==
  ASSUME NEW h \in Seq(Versions2), NEW v
  PROVE  v \in versionsListed(h) <=>
           \E i \in 1..Len(h) :
             /\ v = h[i] /\ h[i].time < timeRef
             /\ rwCommand = "ls" \/ NewestBefore(h, i, timeRef)
             /\ rwCommand = "ls" \/ ~h[i].marker
PROOF
<1>1. DOMAIN h = 1..Len(h)
  OBVIOUS
<1> QED
  BY <1>1 DEF versionsListed, WithOlderVersions, WithDeleteMarkers, NewestBefore

\* A sequence with one more in front.
LEMMA InFront ==
  ASSUME NEW S, NEW h \in Seq(S), NEW v \in S
  PROVE  /\ <<v>> \o h \in Seq(S) /\ Len(<<v>> \o h) = Len(h) + 1 /\ Len(h) \in Nat
         /\ (<<v>> \o h)[1] = v
         /\ \A i \in 1..Len(h) : i + 1 \in 1..Len(<<v>> \o h) /\ (<<v>> \o h)[i + 1] = h[i]
PROOF
<1>1. <<v>> \in Seq(S) /\ Len(<<v>>) = 1 /\ <<v>>[1] = v
  OBVIOUS
<1> QED
  BY <1>1, ConcatProperties

\* Before the first version.
LEMMA RewindInitOK ==
  ASSUME RewindInit PROVE RewindIInv
PROOF
<1>1. /\ history = [k \in Keys2 |-> <<>>] /\ now = 0 /\ past = <<{}>> /\ timeRef = 0
      /\ reading = "no" /\ nextKey = 1 /\ emitted = {} /\ failedBuckets = {} /\ fellBack = FALSE
      /\ rwCommand \in RewindCommands
  BY DEF RewindInit
<1>2. past \in Seq(SUBSET Keys2) /\ Len(past) = 1 /\ past[1] = {}
  BY <1>1
<1>3. RewindTypes
  BY <1>1, <1>2, RewindKeys DEF RewindTypes
<1>4. Chronicle
  BY <1>1, <1>2 DEF Chronicle, InOrder, Live
<1> QED
  BY <1>1, <1>3, <1>4 DEF RewindIInv, RewindPhases, RewindListed

\* After all of them the newest is the first.
LEMMA NewestIsFirst ==
  ASSUME NEW h \in Seq(Versions2), NEW n \in Nat, InOrder(h, n), NEW t \in Nat, t > n
  PROVE  (\E i \in 1..Len(h) : NewestBefore(h, i, t) /\ ~h[i].marker)
           <=> (h # <<>> /\ ~h[1].marker)
PROOF
<1>1. Len(h) \in Nat /\ (h = <<>> <=> Len(h) = 0) /\ DOMAIN h = 1..Len(h)
  BY EmptySeq
<1>2. \A i \in 1..Len(h) : h[i].time < t
  BY <1>1 DEF InOrder
<1>3. \A i \in 1..Len(h) : NewestBefore(h, i, t) <=> i = 1
  BY <1>1, <1>2 DEF NewestBefore
<1> QED
  BY <1>1, <1>3

\* A version of now does not change what was before.
LEMMA LaterVersion ==
  ASSUME NEW h \in Seq(Versions2), NEW n \in Nat, InOrder(h, n),
         NEW v \in Versions2, v.time = n + 1, NEW hh, hh = <<v>> \o h
  PROVE  /\ hh \in Seq(Versions2) /\ InOrder(hh, n + 1)
         /\ \A t \in 0..(n + 1) : ~(hh[1].time < t)
         /\ \A t \in 0..(n + 1), i \in 1..Len(h) :
              NewestBefore(hh, i + 1, t) <=> NewestBefore(h, i, t)
PROOF
<1>1. /\ hh \in Seq(Versions2) /\ Len(hh) = Len(h) + 1 /\ Len(h) \in Nat /\ hh[1] = v
      /\ \A i \in 1..Len(h) : i + 1 \in 1..Len(hh) /\ hh[i + 1] = h[i]
  BY InFront
<1>2. \A i \in 1..Len(h) : h[i].time \in 1..n
  BY DEF InOrder
<1>3. \A i \in 1..Len(hh) : i = 1 \/ (i - 1 \in 1..Len(h) /\ hh[i] = h[i - 1])
  <2> TAKE i \in 1..Len(hh)
  <2>1. i = 1 \/ (i - 1 \in 1..Len(h) /\ (i - 1) + 1 = i)
    BY <1>1
  <2> QED
    BY <2>1, <1>1
<1>4. InOrder(hh, n + 1)
  <2>1. \A i \in 1..Len(hh) : hh[i].time \in 1..(n + 1)
    BY <1>1, <1>2, <1>3
  <2>2. ASSUME NEW i \in 1..Len(hh), NEW j \in 1..Len(hh), i < j
        PROVE  hh[j].time < hh[i].time
    <3>1. j - 1 \in 1..Len(h) /\ hh[j] = h[j - 1]
      BY <2>2, <1>3, <1>1
    <3>2. CASE i = 1
      BY <3>1, <3>2, <1>1, <1>2
    <3>3. CASE i # 1
      <4>1. i - 1 \in 1..Len(h) /\ hh[i] = h[i - 1]
        BY <3>3, <1>3
      <4>2. i - 1 < j - 1
        BY <2>2, <1>1
      <4> QED
        BY <3>1, <4>1, <4>2 DEF InOrder
    <3> QED
      BY <3>2, <3>3
  <2> QED
    BY <2>1, <2>2 DEF InOrder
<1>5. \A t \in 0..(n + 1) : ~(hh[1].time < t)
  BY <1>1
<1>6. ASSUME NEW t \in 0..(n + 1), NEW i \in 1..Len(h)
      PROVE  NewestBefore(hh, i + 1, t) <=> NewestBefore(h, i, t)
  <2>1. ASSUME NewestBefore(h, i, t) PROVE NewestBefore(hh, i + 1, t)
    <3>1. hh[i + 1].time < t
      BY <2>1, <1>1 DEF NewestBefore
    <3>2. ASSUME NEW l \in 1..Len(hh), hh[l].time < t PROVE i + 1 <= l
      <4>1. l # 1 /\ l - 1 \in 1..Len(h) /\ hh[l] = h[l - 1]
        BY <3>2, <1>3, <1>5
      <4>2. i <= l - 1
        BY <4>1, <3>2, <2>1 DEF NewestBefore
      <4> QED
        BY <4>2, <1>1
    <3> QED
      BY <3>1, <3>2 DEF NewestBefore
  <2>2. ASSUME NewestBefore(hh, i + 1, t) PROVE NewestBefore(h, i, t)
    <3>1. h[i].time < t
      BY <2>2, <1>1 DEF NewestBefore
    <3>2. ASSUME NEW l \in 1..Len(h), h[l].time < t PROVE i <= l
      <4>1. l + 1 \in 1..Len(hh) /\ hh[l + 1].time < t
        BY <3>2, <1>1
      <4>2. i + 1 <= l + 1
        BY <4>1, <2>2 DEF NewestBefore
      <4> QED
        BY <4>2, <1>1
    <3> QED
      BY <3>1, <3>2 DEF NewestBefore
  <2> QED
    BY <2>1, <2>2
<1> QED
  BY <1>1, <1>4, <1>5, <1>6

\* Nor what a listing of then has of it.
LEMMA ListedAsBefore ==
  ASSUME NEW h \in Seq(Versions2), NEW hh \in Seq(Versions2),
         Len(hh) = Len(h) + 1, Len(h) \in Nat,
         \A i \in 1..Len(h) : i + 1 \in 1..Len(hh) /\ hh[i + 1] = h[i],
         ~(hh[1].time < timeRef),
         \A i \in 1..Len(h) : NewestBefore(hh, i + 1, timeRef) <=> NewestBefore(h, i, timeRef),
         NEW w
  PROVE  w \in versionsListed(hh) <=> w \in versionsListed(h)
PROOF
<1>3. ASSUME w \in versionsListed(h) PROVE w \in versionsListed(hh)
  <2>1. PICK i \in 1..Len(h) :
             /\ w = h[i] /\ h[i].time < timeRef
             /\ rwCommand = "ls" \/ NewestBefore(h, i, timeRef)
             /\ rwCommand = "ls" \/ ~h[i].marker
    BY <1>3, ListedOf
  <2>2. /\ i + 1 \in 1..Len(hh) /\ w = hh[i + 1] /\ hh[i + 1].time < timeRef
        /\ rwCommand = "ls" \/ NewestBefore(hh, i + 1, timeRef)
        /\ rwCommand = "ls" \/ ~hh[i + 1].marker
    BY <2>1
  <2> QED
    BY <2>2, ListedOf
<1>4. ASSUME w \in versionsListed(hh) PROVE w \in versionsListed(h)
  <2>1. PICK i \in 1..Len(hh) :
             /\ w = hh[i] /\ hh[i].time < timeRef
             /\ rwCommand = "ls" \/ NewestBefore(hh, i, timeRef)
             /\ rwCommand = "ls" \/ ~hh[i].marker
    BY <1>4, ListedOf
  <2>2. i # 1
    BY <2>1
  <2>3. i - 1 \in 1..Len(h) /\ (i - 1) + 1 = i
    BY <2>2
  <2>4. PICK j \in 1..Len(h) : i = j + 1
    BY <2>3
  <2>5. /\ w = h[j] /\ h[j].time < timeRef
        /\ rwCommand = "ls" \/ NewestBefore(h, j, timeRef)
        /\ rwCommand = "ls" \/ ~h[j].marker
    BY <2>1, <2>4
  <2> QED
    BY <2>5, ListedOf
<1> QED
  BY <1>3, <1>4

\* A user puts an object or a delete marker.
LEMMA RewindNewVersion ==
  ASSUME RewindIInv, NEW k \in Keys2, NEW marker \in BOOLEAN, NewVersion(k, marker)
  PROVE  RewindIInv'
PROOF
<1> DEFINE v == [time |-> now + 1, marker |-> marker]
           hh == <<v>> \o history[k]
<1>1. /\ now \in Nat /\ now' = now + 1 /\ now' \in 0..MaxVersions /\ reading # "ended"
      /\ UNCHANGED <<rwCommand, timeRef, reading, nextKey, emitted, failedBuckets, fellBack>>
      /\ history' = [history EXCEPT ![k] = hh]
      /\ past' = Append(past, Live(history'))
  BY RewindKeys DEF RewindIInv, RewindTypes, NewVersion
<1>2. /\ history \in [Keys2 -> Seq(Versions2)] /\ past \in Seq(SUBSET Keys2)
      /\ Len(past) = now + 1 /\ timeRef \in 0..(now + 1)
  BY DEF RewindIInv, RewindTypes
<1>3. v \in Versions2 /\ v.time = now + 1 /\ v.marker = marker
  BY <1>1 DEF Versions2
<1>4. \A j \in Keys2 : InOrder(history[j], now)
  BY DEF RewindIInv, Chronicle
<1>5. history[k] \in Seq(Versions2) /\ InOrder(history[k], now)
  BY <1>2, <1>4
<1>e. hh = <<v>> \o history[k] /\ now + 1 \in Nat
  BY <1>1
<1> HIDE DEF v, hh
<1>6. /\ hh \in Seq(Versions2) /\ InOrder(hh, now + 1) /\ hh[1] = v
      /\ Len(hh) = Len(history[k]) + 1 /\ Len(history[k]) \in Nat
      /\ \A t \in 0..(now + 1) : ~(hh[1].time < t)
      /\ \A t \in 0..(now + 1), i \in 1..Len(history[k]) :
           NewestBefore(hh, i + 1, t) <=> NewestBefore(history[k], i, t)
      /\ \A i \in 1..Len(history[k]) : i + 1 \in 1..Len(hh) /\ hh[i + 1] = history[k][i]
  <2>1. /\ hh \in Seq(Versions2) /\ InOrder(hh, now + 1)
        /\ \A t \in 0..(now + 1) : ~(hh[1].time < t)
        /\ \A t \in 0..(now + 1), i \in 1..Len(history[k]) :
             NewestBefore(hh, i + 1, t) <=> NewestBefore(history[k], i, t)
    BY <1>e, <1>1, <1>3, <1>5, LaterVersion
  <2>2. /\ hh[1] = v /\ Len(hh) = Len(history[k]) + 1 /\ Len(history[k]) \in Nat
        /\ \A i \in 1..Len(history[k]) : i + 1 \in 1..Len(hh) /\ hh[i + 1] = history[k][i]
    BY <1>e, <1>3, <1>5, InFront
  <2> QED
    BY <2>1, <2>2
<1>7. \A w : w \in versionsListed(hh) <=> w \in versionsListed(history[k])
  <2>1. /\ ~(hh[1].time < timeRef)
        /\ \A i \in 1..Len(history[k]) :
             NewestBefore(hh, i + 1, timeRef) <=> NewestBefore(history[k], i, timeRef)
    BY <1>2, <1>6
  <2>2. history[k] \in Seq(Versions2) /\ hh \in Seq(Versions2) /\ Len(history[k]) \in Nat
        /\ Len(hh) = Len(history[k]) + 1
        /\ \A i \in 1..Len(history[k]) : i + 1 \in 1..Len(hh) /\ hh[i + 1] = history[k][i]
    BY <1>5, <1>6
  <2> QED
    BY <2>1, <2>2, ListedAsBefore
<1>8. /\ history' \in [Keys2 -> Seq(Versions2)] /\ history'[k] = hh
      /\ \A j \in Keys2 \ {k} : history'[j] = history[j]
  BY <1>1, <1>2, <1>6
<1>9. \A j \in Keys2 : InOrder(history'[j], now + 1)
  <2>1. \A j \in Keys2 \ {k} : InOrder(history[j], now + 1)
    BY <1>1, <1>4 DEF InOrder
  <2> QED
    BY <2>1, <1>6, <1>8
<1>10. /\ past' \in Seq(SUBSET Keys2) /\ Len(past') = now + 2
       /\ past'[now + 2] = Live(history')
       /\ \A t \in 1..(now + 1) : past'[t] = past[t]
  <2>1. Live(history') \in SUBSET Keys2
    BY DEF Live
  <2>2. PICK live \in SUBSET Keys2 : live = Live(history')
    BY <2>1
  <2>3. past' = Append(past, live)
    BY <2>2, <1>1
  <2>4. past \in Seq(SUBSET Keys2) /\ Len(past) = now + 1 /\ now \in Nat
    BY <1>1, <1>2
  <2>5. /\ past' \in Seq(SUBSET Keys2) /\ Len(past') = now + 2
        /\ past'[now + 2] = live /\ \A t \in 1..(now + 1) : past'[t] = past[t]
    BY <2>3, <2>4
  <2> QED
    BY <2>5, <2>2
<1>11. \A t \in 1..(now + 2), j \in Keys2 :
         j \in past'[t] <=>
           \E i \in 1..Len(history'[j]) :
             NewestBefore(history'[j], i, t) /\ ~history'[j][i].marker
  <2> TAKE t \in 1..(now + 2), j \in Keys2
  <2> DEFINE L(h) == \E i \in 1..Len(h) : NewestBefore(h, i, t) /\ ~h[i].marker
  <2>1. CASE t = now + 2
    <3>1. j \in past'[t] <=> (history'[j] # <<>> /\ ~history'[j][1].marker)
      BY <2>1, <1>10 DEF Live
    <3>2. history'[j] \in Seq(Versions2) /\ InOrder(history'[j], now + 1)
      BY <1>8, <1>9
    <3>3. now + 1 \in Nat /\ t \in Nat /\ t > now + 1
      BY <1>1, <2>1
    <3>4. L(history'[j]) <=> (history'[j] # <<>> /\ ~history'[j][1].marker)
      BY <3>2, <3>3, NewestIsFirst
    <3> QED
      BY <3>1, <3>4
  <2>2. CASE t # now + 2
    <3>1. t \in 1..(now + 1) /\ t \in 0..(now + 1)
      BY <2>2, <1>1
    <3>2. j \in past'[t] <=> L(history[j])
      BY <3>1, <1>10 DEF RewindIInv, Chronicle
    <3>3. CASE j # k
      BY <3>2, <3>3, <1>8
    <3>4. CASE j = k
      <4>1. ASSUME L(history[k]) PROVE L(hh)
        BY <4>1, <3>1, <1>6
      <4>2. ASSUME L(hh) PROVE L(history[k])
        <5>1. PICK i \in 1..Len(hh) : NewestBefore(hh, i, t) /\ ~hh[i].marker
          BY <4>2
        <5>2. i # 1
          BY <5>1, <3>1, <1>6 DEF NewestBefore
        <5>3. i - 1 \in 1..Len(history[k]) /\ (i - 1) + 1 = i
          BY <5>2, <1>6
        <5>4. PICK l \in 1..Len(history[k]) : i = l + 1
          BY <5>3
        <5> QED
          BY <5>1, <5>4, <3>1, <1>6
      <4> QED
        BY <4>1, <4>2, <3>2, <3>4, <1>8
    <3> QED
      BY <3>3, <3>4
  <2> QED
    BY <2>1, <2>2
<1>12. Chronicle'
  <2>1. now' + 1 = now + 2 /\ now' = now + 1
    BY <1>1
  <2>2. (Live(history))' = Live(history')
    BY DEF Live
  <2>3. \A j \in Keys2 : InOrder(history'[j], now')
    BY <2>1, <1>9
  <2>4. past'[now' + 1] = (Live(history))'
    BY <2>1, <2>2, <1>10
  <2>5. \A t \in 1..(now' + 1), j \in Keys2 :
         j \in past'[t] <=>
           \E i \in 1..Len(history'[j]) :
             NewestBefore(history'[j], i, t) /\ ~history'[j][i].marker
    BY <2>1, <1>11
  <2> QED
    BY <2>3, <2>4, <2>5 DEF Chronicle, InOrder, NewestBefore
<1>13. RewindTypes'
  <2>1. timeRef \in 0..(now + 1 + 1)
    BY <1>1, <1>2
  <2>2. Len(past') = now + 1 + 1
    BY <1>10, <1>1
  <2> QED
    BY <1>1, <1>8, <1>10, <2>1, <2>2 DEF RewindIInv, RewindTypes
<1>14. RewindPhases'
  BY <1>1 DEF RewindIInv, RewindPhases
<1>15. \A j \in Keys2 : \A w : w \in versionsListed(history'[j]) <=> w \in versionsListed(history[j])
  BY <1>7, <1>8
<1>16. \A j \in Keys2 : \A w : w \in (versionsListed(history[j]))' <=> w \in versionsListed(history[j])
  <2> TAKE j \in Keys2
  <2>1. (versionsListed(history[j]))' = versionsListed(history'[j])
    BY <1>1 DEF versionsListed, WithOlderVersions, WithDeleteMarkers
  <2> QED
    BY <2>1, <1>15
<1>17. \A j \in Keys2 : (KeyListed(j))' <=> KeyListed(j)
  BY <1>1, <1>16 DEF KeyListed
<1>18. \A e \in emitted : e.key \in Keys2
  BY DEF RewindIInv, RewindTypes, Deliveries
<1>19. RewindListed'
  <2> SUFFICES ASSUME timeRef > 0, ~fellBack
               PROVE  RewindListed'
    BY <1>1 DEF RewindListed
  <2>1. \A e \in emitted : KeyListed(e.key)' /\ \E w \in (versionsListed(history[e.key]))' : e = Delivery(e.key, w)
    <3>1. \A e \in emitted : KeyListed(e.key) /\ \E w \in versionsListed(history[e.key]) : e = Delivery(e.key, w)
      BY DEF RewindIInv, RewindListed
    <3> QED
      BY <3>1, <1>16, <1>17, <1>18
  <2>2. \A i \in 1..Len(VersionedKeys) :
           i < nextKey => \/ BucketOf(i) \in failedBuckets
                          \/ (KeyListed(VersionedKeys[i]))'
    BY <1>17, RewindKeys DEF RewindIInv, RewindListed
  <2> QED
    BY <1>1, <2>1, <2>2 DEF RewindListed, KeyListed, Delivery
<1> QED
  BY <1>12, <1>13, <1>14, <1>19 DEF RewindIInv

\* versionedList begins, with a time of before or without one.
LEMMA RewindStartListing ==
  ASSUME RewindIInv, NEW t \in 0..(now + 1), StartListing(t)
  PROVE  RewindIInv'
PROOF
<1>1. /\ reading = "no" /\ timeRef' = t /\ emitted = {} /\ nextKey = 1 /\ ~fellBack
      /\ reading' = (IF t = 0 THEN "present" ELSE "versions")
      /\ UNCHANGED <<history, past, now, rwCommand, nextKey, emitted, failedBuckets, fellBack>>
  BY DEF RewindIInv, RewindPhases, StartListing
<1>2. RewindTypes'
  BY <1>1 DEF RewindIInv, RewindTypes
<1>3. RewindPhases'
  <2>1. t > 0 => reading' = "versions"
    BY <1>1
  <2>2. reading' \in {"present", "versions"}
    BY <1>1
  <2> QED
    BY <1>1, <2>1, <2>2 DEF RewindPhases
<1>4. (Live(history))' = Live(history)
  BY <1>1 DEF Live
<1>5. Chronicle'
  BY <1>1, <1>4 DEF RewindIInv, Chronicle, InOrder, NewestBefore
<1>6. RewindListed'
  BY <1>1, RewindKeys DEF RewindListed
<1> QED
  BY <1>2, <1>3, <1>5, <1>6 DEF RewindIInv

\* The steps that leave the objects and the time of the listing alone.
LEMMA ObjectsLeftAlone ==
  ASSUME RewindIInv, UNCHANGED <<history, past, now, rwCommand, timeRef>>
  PROVE  /\ Chronicle'
         /\ \A k : (versionsListed(history[k]))' = versionsListed(history[k])
PROOF
<1>1. (Live(history))' = Live(history)
  BY DEF Live
<1>2. Chronicle'
  BY <1>1 DEF RewindIInv, Chronicle, InOrder, NewestBefore
<1>3. \A k : (versionsListed(history[k]))' = versionsListed(history[k])
  BY DEF versionsListed, WithOlderVersions, WithDeleteMarkers
<1> QED
  BY <1>2, <1>3

\* listVersionsRoutine comes to an object.
LEMMA RewindListObject ==
  ASSUME RewindIInv, ListObject
  PROVE  RewindIInv'
PROOF
<1>0. PICK k \in Keys2 : k = VersionedKeys[nextKey]
  BY RewindKeys DEF ListObject, RewindIInv, RewindTypes
<1> DEFINE present == IF k \in Live(history) THEN {history[k][1]} ELSE {}
           theirs == IF reading = "present" THEN present ELSE versionsListed(history[k])
<1>1. /\ reading \in {"versions", "present"} /\ nextKey <= Len(VersionedKeys)
      /\ nextKey' = nextKey + 1
      /\ UNCHANGED <<history, past, now, rwCommand, timeRef, reading, failedBuckets, fellBack>>
      /\ emitted' = emitted \cup {Delivery(k, v) : v \in theirs}
  BY <1>0 DEF ListObject, Emit, Delivery
<1>2. nextKey \in 1..Len(VersionedKeys)
  BY <1>1, RewindKeys DEF RewindIInv, RewindTypes
<1>3. history[k] \in Seq(Versions2)
  BY <1>2 DEF RewindIInv, RewindTypes
<1>4. theirs \subseteq Versions2
  <2>1. present \subseteq Versions2
    <3>1. k \in Live(history) => 1 \in 1..Len(history[k])
      BY <1>3, EmptySeq DEF Live
    <3> QED
      BY <3>1, <1>3
  <2>2. versionsListed(history[k]) \subseteq Versions2
    BY <1>3, ListedOf
  <2> QED
    BY <2>1, <2>2
<1>5. Chronicle' /\ \A j : (versionsListed(history[j]))' = versionsListed(history[j])
  BY <1>1, ObjectsLeftAlone
<1>6. timeRef > 0 /\ ~fellBack => theirs = versionsListed(history[k])
  BY <1>1 DEF RewindIInv, RewindPhases
<1> HIDE DEF present, theirs
<1>7. emitted' \subseteq Deliveries
  BY <1>1, <1>2, <1>4 DEF RewindIInv, RewindTypes, Deliveries, Versions2, Delivery
<1>8. RewindTypes'
  BY <1>1, <1>2, <1>7, RewindKeys DEF RewindIInv, RewindTypes
<1>9. RewindPhases'
  BY <1>1 DEF RewindIInv, RewindPhases
<1>10. RewindListed'
  <2> SUFFICES ASSUME timeRef > 0, ~fellBack
               PROVE  RewindListed'
    BY <1>1 DEF RewindListed
  <2>1. emitted' = emitted \cup {Delivery(k, v) : v \in versionsListed(history[k])}
    BY <1>1, <1>6
  <2>2. \A j : KeyListed(j) => KeyListed(j)'
    BY <2>1, <1>1, <1>5 DEF KeyListed, Delivery
  <2>3. KeyListed(k)'
    BY <2>1, <1>5 DEF KeyListed, Delivery
  <2>4. ASSUME NEW e \in emitted'
        PROVE  KeyListed(e.key)' /\ \E v \in (versionsListed(history[e.key]))' : e = Delivery(e.key, v)
    <3>1. CASE e \in emitted
      BY <3>1, <2>2, <1>5 DEF RewindIInv, RewindListed
    <3>2. CASE e \notin emitted
      <4>1. PICK v \in versionsListed(history[k]) : e = Delivery(k, v)
        BY <3>2, <2>1
      <4>2. e.key = k
        BY <4>1 DEF Delivery
      <4> QED
        BY <4>1, <4>2, <2>3, <1>5
    <3> QED
      BY <3>1, <3>2
  <2>5. ASSUME NEW i \in 1..Len(VersionedKeys), i < nextKey + 1
        PROVE  BucketOf(i) \in failedBuckets \/ KeyListed(VersionedKeys[i])'
    <3>1. CASE i = nextKey
      BY <3>1, <2>3, <1>0
    <3>2. CASE i < nextKey
      BY <3>2, <2>2 DEF RewindIInv, RewindListed
    <3> QED
      BY <3>1, <3>2, <2>5, <1>2, RewindKeys
  <2> QED
    BY <1>1, <2>4, <2>5 DEF RewindListed, KeyListed, Delivery
<1> QED
  BY <1>5, <1>8, <1>9, <1>10 DEF RewindIInv

\* What does not deliver keeps what has been delivered.
LEMMA NothingDelivered ==
  ASSUME RewindIInv, UNCHANGED <<history, past, now, rwCommand, timeRef, emitted>>
  PROVE  \A j : KeyListed(j)' <=> KeyListed(j)
PROOF
<1>1. \A j : (versionsListed(history[j]))' = versionsListed(history[j])
  BY ObjectsLeftAlone
<1> QED
  BY <1>1 DEF KeyListed, Delivery

\* The listing of a bucket fails, or falls back to the present.
LEMMA RewindListError ==
  ASSUME RewindIInv, ListError
  PROVE  RewindIInv'
PROOF
<1>1. /\ reading \in {"versions", "present"} /\ nextKey <= Len(VersionedKeys)
      /\ UNCHANGED <<history, past, now, rwCommand, timeRef, emitted>>
  BY DEF ListError
<1>2. nextKey \in 1..Len(VersionedKeys) /\ Len(VersionedKeys) \in Nat
  BY <1>1, RewindKeys DEF RewindIInv, RewindTypes
<1>3. Chronicle' /\ (\A j : (versionsListed(history[j]))' = versionsListed(history[j]))
  BY <1>1, ObjectsLeftAlone
<1>4. \A j : KeyListed(j)' <=> KeyListed(j)
  BY <1>1, NothingDelivered
<1>5. CASE /\ failedBuckets' = failedBuckets \cup {BucketOf(nextKey)}
           /\ LET rest == {i \in nextKey..Len(VersionedKeys) : BucketOf(i) # BucketOf(nextKey)}
              IN nextKey' = IF reading = "present" \/ rest = {} THEN Len(VersionedKeys) + 1
                            ELSE CHOOSE i \in rest : \A j \in rest : i <= j
           /\ UNCHANGED <<reading, fellBack>>
  <2> DEFINE rest == {i \in nextKey..Len(VersionedKeys) : BucketOf(i) # BucketOf(nextKey)}
  <2>1. /\ nextKey' \in 1..(Len(VersionedKeys) + 1)
        /\ reading # "present" =>
             \A i \in nextKey..Len(VersionedKeys) : i < nextKey' => BucketOf(i) = BucketOf(nextKey)
        /\ reading = "present" => nextKey' = Len(VersionedKeys) + 1
    <3>1. CASE reading = "present" \/ rest = {}
      BY <3>1, <1>5, <1>2
    <3>2. CASE reading # "present" /\ rest # {}
      <4>1. \E i \in rest : \A j \in rest : i <= j
        <5>1. rest \subseteq Nat
          BY <1>2
        <5> QED
          BY <5>1, <3>2, LeastOfSet
      <4>2. nextKey' \in rest /\ \A j \in rest : nextKey' <= j
        BY <3>2, <4>1, <1>5
      <4> QED
        BY <4>2, <1>2, <3>2
    <3> QED
      BY <3>1, <3>2
  <2>2. BucketOf(nextKey) \in {j.bucket : j \in Keys2}
    BY <1>2, RewindKeys DEF BucketOf
  <2>3. RewindTypes'
    BY <1>1, <1>5, <2>1, <2>2 DEF RewindIInv, RewindTypes
  <2>4. RewindPhases'
    BY <1>1, <1>5 DEF RewindIInv, RewindPhases
  <2>5. RewindListed'
    <3> SUFFICES ASSUME timeRef > 0, ~fellBack
                 PROVE  RewindListed'
      BY <1>1, <1>5 DEF RewindListed
    <3>1. reading = "versions"
      BY <1>1 DEF RewindIInv, RewindPhases
    <3>2. \A e \in emitted :
             /\ KeyListed(e.key)'
             /\ \E v \in (versionsListed(history[e.key]))' : e = Delivery(e.key, v)
      BY <1>3, <1>4 DEF RewindIInv, RewindListed
    <3>3. ASSUME NEW i \in 1..Len(VersionedKeys), i < nextKey'
          PROVE  BucketOf(i) \in failedBuckets' \/ KeyListed(VersionedKeys[i])'
      <4>1. CASE i < nextKey
        BY <4>1, <1>4, <1>5 DEF RewindIInv, RewindListed
      <4>2. CASE i \in nextKey..Len(VersionedKeys)
        BY <4>2, <3>1, <3>3, <2>1, <1>5
      <4> QED
        BY <4>1, <4>2, <1>2
    <3> QED
      BY <1>1, <3>2, <3>3 DEF RewindListed, KeyListed, Delivery, BucketOf
  <2> QED
    BY <1>3, <2>3, <2>4, <2>5 DEF RewindIInv
<1>6. CASE /\ reading = "versions"
           /\ reading' = "present" /\ nextKey' = 1 /\ fellBack' = TRUE
           /\ UNCHANGED failedBuckets
  <2>1. RewindTypes'
    BY <1>1, <1>2, <1>6 DEF RewindIInv, RewindTypes
  <2>2. RewindPhases'
    BY <1>1, <1>6 DEF RewindPhases
  <2>3. RewindListed'
    BY <1>6 DEF RewindListed
  <2> QED
    BY <1>3, <2>1, <2>2, <2>3 DEF RewindIInv
<1> QED
  BY <1>5, <1>6 DEF ListError

\* The listing ends.
LEMMA RewindEnd ==
  ASSUME RewindIInv,
         \/ EndOfVersions
         \/ UNCHANGED rewindVars
  PROVE  RewindIInv'
PROOF
<1>1. UNCHANGED <<history, past, now, rwCommand, timeRef, nextKey, emitted, failedBuckets, fellBack>>
  BY DEF EndOfVersions, rewindVars
<1>2. Chronicle' /\ (\A j : (versionsListed(history[j]))' = versionsListed(history[j]))
  BY <1>1, ObjectsLeftAlone
<1>3. \A j : KeyListed(j)' <=> KeyListed(j)
  BY <1>1, NothingDelivered
<1>4. RewindTypes'
  BY <1>1 DEF RewindIInv, RewindTypes, EndOfVersions, rewindVars
<1>5. RewindPhases'
  <2>1. CASE EndOfVersions
    <3>1. nextKey = Len(VersionedKeys) + 1
      BY <2>1, RewindKeys DEF RewindIInv, RewindTypes, EndOfVersions
    <3> QED
      BY <2>1, <3>1, <1>1 DEF RewindPhases, EndOfVersions
  <2>2. CASE UNCHANGED rewindVars
    BY <2>2 DEF RewindIInv, RewindPhases, rewindVars
  <2> QED
    BY <2>1, <2>2
<1>6. RewindListed'
  BY <1>1, <1>2, <1>3 DEF RewindIInv, RewindListed, Delivery, BucketOf, KeyListed
<1> QED
  BY <1>2, <1>4, <1>5, <1>6 DEF RewindIInv

\* The invariant of the listings of the past.
LEMMA RewindInvariant == RewindSpec => []RewindIInv
PROOF
<1>1. RewindInit => RewindIInv
  BY RewindInitOK
<1>2. RewindIInv /\ [RewindNext]_rewindVars => RewindIInv'
  BY RewindNewVersion, RewindStartListing, RewindListObject, RewindListError, RewindEnd
     DEF RewindNext
<1> QED
  BY <1>1, <1>2, PTL DEF RewindSpec

\* The listing, its time and the versions of the objects have the values
\* cmd/client-s3.go gives them: the present is what the newest versions say.
THEOREM RewindTypeCorrect == RewindSpec => []RewindTypeOK
PROOF
<1>1. RewindIInv => RewindTypeOK
  BY RewindKeys DEF RewindIInv, RewindTypes, Chronicle, RewindTypeOK, Deliveries
<1> QED
  BY <1>1, RewindInvariant, PTL

\* A listing with --rewind (versionedList, listVersionsRoutine) shows what there
\* was at that time, whatever users put and delete while it reads.
THEOREM PastIsShown == RewindSpec => []RewindShowsThePast
PROOF
<1>1. ASSUME RewindIInv, reading = "ended", timeRef > 0, ~fellBack
      PROVE  LET shows == {e.key : e \in {n \in Newest : ~n.marker}}
                 there == past[timeRef]
             IN /\ shows \subseteq there
                /\ \A k \in there \ shows : k.bucket \in failedBuckets
  <2> DEFINE shows == {e.key : e \in {n \in Newest : ~n.marker}}
  <2>1. /\ nextKey = Len(VersionedKeys) + 1 /\ timeRef \in 1..(now + 1)
        /\ history \in [Keys2 -> Seq(Versions2)]
        /\ \A e \in emitted : e.key \in Keys2
    BY <1>1 DEF RewindIInv, RewindTypes, RewindPhases, Deliveries
  <2>2. \A k \in Keys2 :
       k \in past[timeRef] <=>
         \E i \in 1..Len(history[k]) :
           NewestBefore(history[k], i, timeRef) /\ ~history[k][i].marker
    BY <2>1, <1>1 DEF RewindIInv, Chronicle
  <2>3. \A e \in emitted :
          /\ KeyListed(e.key)
          /\ \E v \in versionsListed(history[e.key]) : e = Delivery(e.key, v)
    BY <1>1 DEF RewindIInv, RewindListed
  <2>4. past[timeRef] \subseteq Keys2
    BY <2>1, <1>1 DEF RewindIInv, RewindTypes
  <2>5. ASSUME NEW k \in Keys2
        PROVE  /\ history[k] \in Seq(Versions2) /\ InOrder(history[k], now)
               /\ \A i \in 1..Len(history[k]) : history[k][i].time \in Nat
    <3>1. history[k] \in Seq(Versions2) /\ InOrder(history[k], now)
      BY <2>1, <1>1 DEF RewindIInv, Chronicle
    <3>2. \A i \in 1..Len(history[k]) : history[k][i] \in Versions2
      BY <3>1
    <3> QED
      BY <3>1, <3>2 DEF Versions2
  <2>6. ASSUME NEW e \in emitted, e \in Newest, ~e.marker
        PROVE  e.key \in past[timeRef]
    <3>1. PICK k \in Keys2 : k = e.key
      BY <2>1
    <3>2. PICK v \in versionsListed(history[k]) : e = Delivery(k, v)
      BY <3>1, <2>3
    <3>3. PICK i \in 1..Len(history[k]) :
             /\ v = history[k][i] /\ history[k][i].time < timeRef
             /\ rwCommand = "ls" \/ NewestBefore(history[k], i, timeRef)
             /\ rwCommand = "ls" \/ ~history[k][i].marker
      BY <3>2, <2>5, ListedOf
    <3>4. ~history[k][i].marker
      BY <3>2, <3>3, <2>6 DEF Delivery
    <3>5. NewestBefore(history[k], i, timeRef)
      <4> SUFFICES ASSUME rwCommand = "ls", NEW l \in 1..Len(history[k]),
                          history[k][l].time < timeRef, ~(i <= l)
                   PROVE  FALSE
        BY <3>3 DEF NewestBefore
      <4>1. history[k][l] \in versionsListed(history[k])
        BY <2>5, ListedOf
      <4>2. Delivery(k, history[k][l]) \in emitted
        BY <4>1, <2>3, <3>1 DEF KeyListed
      <4>3. l < i /\ history[k][i].time < history[k][l].time
        <5>1. l < i
          BY <2>5
        <5> QED
          BY <5>1, <2>5 DEF InOrder
      <4>4. history[k][l].time <= history[k][i].time
        BY <4>2, <2>6, <3>2, <3>3 DEF Newest, Delivery
      <4> QED
        BY <4>3, <4>4, <2>5
    <3> QED
      BY <3>1, <3>4, <3>5, <2>2
  <2>7. ASSUME NEW k \in past[timeRef], k.bucket \notin failedBuckets
        PROVE  k \in shows
    <3>1. k \in Keys2
      BY <2>4
    <3>2. PICK i \in 1..Len(history[k]) :
             NewestBefore(history[k], i, timeRef) /\ ~history[k][i].marker
      BY <3>1, <2>2
    <3>3. history[k][i] \in versionsListed(history[k])
      BY <3>1, <3>2, <2>5, ListedOf DEF NewestBefore
    <3>4. KeyListed(k)
      <4>1. PICK j \in 1..Len(VersionedKeys) : VersionedKeys[j] = k
        BY <3>1, RewindKeys
      <4>2. j < nextKey
        BY <2>1, RewindKeys
      <4> QED
        BY <4>1, <4>2, <2>7, <1>1 DEF RewindIInv, RewindListed, BucketOf
    <3>5. PICK e \in emitted : e = Delivery(k, history[k][i])
      BY <3>3, <3>4 DEF KeyListed
    <3>6. e.key = k /\ e.time = history[k][i].time /\ ~e.marker
      BY <3>5, <3>2 DEF Delivery
    <3>7. ASSUME NEW f \in emitted, f.key = k PROVE f.time <= e.time
      <4>1. PICK v \in versionsListed(history[k]) : f = Delivery(k, v)
        BY <3>7, <2>3
      <4>2. PICK l \in 1..Len(history[k]) : v = history[k][l] /\ history[k][l].time < timeRef
        BY <4>1, <3>1, <2>5, ListedOf
      <4>3. f.time = history[k][l].time /\ i <= l
        BY <4>1, <4>2, <3>2 DEF Delivery, NewestBefore
      <4>4. history[k][l].time <= history[k][i].time
        <5>1. i = l \/ i < l
          BY <4>3, <3>1, <2>5
        <5> QED
          BY <5>1, <3>1, <2>5 DEF InOrder
      <4> QED
        BY <4>3, <4>4, <3>6
    <3> QED
      BY <3>6, <3>7 DEF Newest
  <2>8. \A e \in Newest : e \in emitted
    BY DEF Newest
  <2> QED
    BY <2>6, <2>7, <2>8
<1>2. RewindIInv => RewindShowsThePast
  BY <1>1 DEF RewindShowsThePast
<1> QED
  BY <1>2, RewindInvariant, PTL

-----------------------------------------------------------------------------
(***************************************************************************)
(* Cat and head.                                                           *)
(***************************************************************************)
Wrote == [name : DOMAIN stored, version : Nat, first : Nat, last : Nat]

CatSetting ==
  /\ catArgs \in CatArgs /\ Len(catArgs) \in Nat \ {0} /\ DOMAIN catArgs = 1..Len(catArgs)
  /\ \A i \in 1..Len(catArgs) : catArgs[i] \in DOMAIN stored
  /\ catOpts \in CatOptions /\ (catOpts.rewind => versioned)
CatTypes ==
  /\ stored \in [DOMAIN stored -> Seq(CatSizes)]
  /\ \A n \in DOMAIN stored : Len(stored[n]) \in 2..2 + MaxCatPuts /\ asOf[n] = 1
  /\ catAt \in {"stat", "get", "copy"} /\ arg \in 1..Len(catArgs)
  /\ pinned \in 0..2 + MaxCatPuts /\ from \in Nat /\ expected \in Int
  /\ catExit \in {"none", "ok", "error"} /\ output \in Seq(Wrote)
  /\ stdoutClosed \in 0..Len(catArgs)

\* What the request that is made, or answered, has to do with the version that
\* is meant.
IsMeant(m) ==
  /\ m \in 1..Len(stored[Shows])
  /\ IF catOpts.rewind THEN m = asOf[Shows] ELSE m >= 2
FromIn(n) ==
  IF catOpts.tail = 0 THEN catOpts.offset
  ELSE IF n > catOpts.tail THEN n - catOpts.tail ELSE 0
LooksAt(m) ==
  /\ IsMeant(m)
  /\ IF catOpts.rewind THEN pinned = m ELSE pinned \in {0, m}
  /\ IF catOpts.head THEN from = 0 /\ expected = -1
     ELSE /\ from = FromIn(stored[Shows][m])
          /\ expected = stored[Shows][m] - from /\ expected >= 0
CatLooked ==
  catExit = "none" =>
    /\ catAt = "stat" => from = 0 /\ expected = -1
    /\ catAt \in {"get", "copy"} => \E m \in Nat : LooksAt(m)
    /\ catAt = "copy" => /\ IsMeant(body)
                         /\ from = 0 \/ from < stored[Shows][body]

\* What was written for an argument is what was asked for, or, from where stdout
\* was closed, the beginning of it.
WrittenWell(i) ==
  LET o == output[i] IN
  /\ o.name = catArgs[i] /\ o.version \in 1..Len(stored[o.name])
  /\ IF catOpts.rewind THEN o.version = asOf[o.name] ELSE o.version >= 2
  /\ IF stdoutClosed \in 1..i THEN BeginningShown(o) ELSE AllShown(o)
CatWritten ==
  /\ catExit = "none" => Len(output) = arg - 1 /\ stdoutClosed < arg
  /\ catExit = "ok" => Len(output) = Len(catArgs)
  /\ Len(output) <= arg
  /\ catExit # "error" => \A i \in 1..Len(output) : WrittenWell(i)

CatIInv == CatSetting /\ CatTypes /\ CatLooked /\ CatWritten

\* The flags and the sizes are numbers.
LEMMA CatNumbers ==
  /\ CatOptions \subseteq [head : BOOLEAN, rewind : BOOLEAN, tail : Nat, offset : Nat,
                          lines : Nat]
  /\ CatSizes \subseteq Nat /\ MaxCatPuts \in Nat
PROOF
  BY CatAssumption

\* Before the first argument.
LEMMA CatInitOK ==
  ASSUME CatInit PROVE CatIInv
PROOF
<1>1. catArgs \in CatArgs /\ catArgs \in Seq({catArgs[i] : i \in DOMAIN catArgs}) /\ catArgs # <<>>
  BY CatAssumption DEF CatInit
<1>2. Len(catArgs) \in Nat \ {0} /\ DOMAIN catArgs = 1..Len(catArgs)
  BY <1>1, EmptySeq
<1>3. DOMAIN stored = {catArgs[i] : i \in DOMAIN catArgs}
      /\ stored \in [DOMAIN stored -> [1..2 -> CatSizes]]
  BY DEF CatInit
<1>4. \A n \in DOMAIN stored : stored[n] \in Seq(CatSizes) /\ Len(stored[n]) = 2
  <2> TAKE n \in DOMAIN stored
  <2>1. stored[n] \in [1..2 -> CatSizes]
    BY <1>3
  <2>2. \A k \in Nat : \A f \in [1..k -> CatSizes] : f \in Seq(CatSizes) /\ Len(f) = k
    OBVIOUS
  <2> QED
    BY <2>1, <2>2
<1>5. CatSetting
  BY <1>1, <1>2, <1>3 DEF CatSetting, CatInit
<1>6. CatTypes
  <2>1. stored \in [DOMAIN stored -> Seq(CatSizes)]
    BY <1>3, <1>4
  <2>2. \A n \in DOMAIN stored : Len(stored[n]) \in 2..2 + MaxCatPuts /\ asOf[n] = 1
    <3>1. \A n \in DOMAIN stored : asOf[n] = 1
      BY DEF CatInit
    <3>2. 2 \in 2..2 + MaxCatPuts
      BY CatNumbers
    <3> QED
      BY <1>4, <3>1, <3>2
  <2>3. /\ arg \in 1..Len(catArgs) /\ pinned \in 0..2 + MaxCatPuts /\ from \in Nat
        /\ expected \in Int
    BY <1>2, CatNumbers DEF CatInit
  <2>4. catAt = "stat" /\ catExit = "none" /\ output = <<>>
    BY DEF CatInit
  <2>5. stdoutClosed \in 0..Len(catArgs)
    BY <1>2 DEF CatInit
  <2>6. output \in Seq(Wrote)
    BY <2>4
  <2> QED
    BY <2>1, <2>2, <2>3, <2>4, <2>5, <2>6 DEF CatTypes
<1>7. CatLooked /\ CatWritten
  BY DEF CatLooked, CatWritten, CatInit
<1> QED
  BY <1>5, <1>6, <1>7 DEF CatIInv

\* What others put comes behind the versions there are.
LEMMA PutKeeps ==
  ASSUME CatIInv, OthersPut
  PROVE  /\ DOMAIN stored' = DOMAIN stored
         /\ \A n \in DOMAIN stored :
              /\ stored'[n] \in Seq(CatSizes)
              /\ Len(stored'[n]) \in Len(stored[n])..2 + MaxCatPuts
              /\ \A m \in 1..Len(stored[n]) : stored'[n][m] = stored[n][m]
PROOF
<1>1. PICK n \in DOMAIN stored, s \in CatSizes :
        /\ Len(stored[n]) < 2 + MaxCatPuts
        /\ stored' = [stored EXCEPT ![n] = Append(@, s)]
  BY DEF OthersPut
<1>2. \A k \in DOMAIN stored : stored[k] \in Seq(CatSizes) /\ Len(stored[k]) \in 2..2 + MaxCatPuts
  BY DEF CatIInv, CatTypes
<1>3. /\ Append(stored[n], s) \in Seq(CatSizes) /\ Len(Append(stored[n], s)) = Len(stored[n]) + 1
      /\ \A m \in 1..Len(stored[n]) : Append(stored[n], s)[m] = stored[n][m]
  BY <1>2
<1>4. \A k \in DOMAIN stored : stored'[k] = IF k = n THEN Append(stored[n], s) ELSE stored[k]
  BY <1>1 DEF CatIInv, CatTypes
<1> QED
  BY <1>1, <1>2, <1>3, <1>4, CatNumbers

\* What is asked for where an answer is copied.
LEMMA CopyLooked ==
  ASSUME CatIInv, catExit = "none", catAt = "copy"
  PROVE  /\ Shows = catArgs[arg] /\ Shows \in DOMAIN stored
         /\ IsMeant(body) /\ body \in Nat /\ body \in 1..Len(stored[Shows])
         /\ stored[Shows][body] \in Nat
         /\ from \in Nat /\ expected \in Int
         /\ catOpts.tail \in Nat /\ catOpts.offset \in Nat /\ catOpts.lines \in Nat
         /\ catOpts.head => from = 0
         /\ ~catOpts.head =>
              /\ expected >= 0
              /\ \E m \in Nat : m = expected + from /\ from = FromIn(m)
PROOF
<1>0. CatSetting /\ CatTypes /\ CatLooked
  BY DEF CatIInv
<1>1. Shows = catArgs[arg] /\ Shows \in DOMAIN stored
  BY <1>0 DEF CatSetting, CatTypes, Shows
<1>2. /\ Len(stored[Shows]) \in 2..2 + MaxCatPuts
      /\ stored[Shows] \in Seq(CatSizes)
  BY <1>0, <1>1 DEF CatTypes
<1>3. IsMeant(body) /\ body \in 1..Len(stored[Shows]) /\ body \in Nat /\ stored[Shows][body] \in Nat
  <2>1. IsMeant(body)
    BY <1>0 DEF CatLooked
  <2>2. body \in 1..Len(stored[Shows]) /\ stored[Shows][body] \in CatSizes /\ body \in Nat
    BY <1>2, <2>1 DEF IsMeant
  <2> QED
    BY <2>1, <2>2, CatNumbers
<1>4. catOpts.tail \in Nat /\ catOpts.offset \in Nat /\ catOpts.lines \in Nat
  BY <1>0, CatNumbers DEF CatSetting
<1>5. from \in Nat /\ expected \in Int
  BY <1>0 DEF CatTypes
<1>6. PICK k \in Nat : LooksAt(k) /\ stored[Shows][k] \in Nat
  <2>1. PICK k \in Nat : LooksAt(k)
    BY <1>0 DEF CatLooked
  <2>2. stored[Shows][k] \in CatSizes
    BY <1>2, <2>1 DEF LooksAt, IsMeant
  <2> QED
    BY <2>1, <2>2, CatNumbers
<1>7. catOpts.head => from = 0
  BY <1>6 DEF LooksAt
<1>8. ASSUME ~catOpts.head
      PROVE  expected >= 0 /\ \E m \in Nat : m = expected + from /\ from = FromIn(m)
  <2>1. /\ from = FromIn(stored[Shows][k]) /\ expected = stored[Shows][k] - from
        /\ expected >= 0
    BY <1>6, <1>8 DEF LooksAt
  <2>2. stored[Shows][k] = expected + from
    BY <1>5, <1>6, <2>1
  <2> QED
    BY <1>6, <2>1, <2>2
<1> QED
  BY <1>1, <1>3, <1>4, <1>5, <1>7, <1>8

\* What is written for an argument, well or as an error, keeps the invariant.
LEMMA WrittenStep ==
  ASSUME CatIInv, catExit = "none", catAt = "copy", NEW last \in Nat, WriteOut(last),
         UNCHANGED <<catArgs, catOpts, versioned, stored, asOf, body>>,
         stdoutClosed' \in {stdoutClosed, arg},
         stdoutClosed' # stdoutClosed => stdoutClosed = 0,
         \/ catExit' = "error" /\ UNCHANGED <<catAt, arg, from, expected, pinned>>
         \/ NextArgument,
         catExit' # "error" =>
           LET o == [name |-> Shows, version |-> body, first |-> from, last |-> last]
           IN IF stdoutClosed' = 0 THEN AllShown(o) ELSE BeginningShown(o)
  PROVE  CatIInv'
PROOF
<1> DEFINE o == [name |-> Shows, version |-> body, first |-> from, last |-> last]
<1>0. CatSetting /\ CatTypes /\ CatLooked /\ CatWritten
  BY DEF CatIInv
<1>1. /\ Shows = catArgs[arg] /\ Shows \in DOMAIN stored /\ IsMeant(body) /\ body \in Nat
      /\ body \in 1..Len(stored[Shows]) /\ from \in Nat /\ expected \in Int
  BY CopyLooked
<1>2. \/ catExit' = "error" /\ UNCHANGED <<catAt, arg, from, expected, pinned>>
      \/ /\ arg = Len(catArgs) /\ catExit' = "ok"
         /\ UNCHANGED <<catAt, arg, from, expected, pinned>>
      \/ /\ arg # Len(catArgs) /\ arg' = arg + 1 /\ catAt' = "stat" /\ from' = 0
         /\ expected' = -1 /\ pinned' = 0 /\ catExit' = "none"
  BY DEF NextArgument
<1>3. o \in Wrote /\ output' = Append(output, o)
  BY <1>1 DEF Wrote, WriteOut
<1>4. /\ o.name = Shows /\ o.version = body
  OBVIOUS
<1>5. catExit' # "error" => IF stdoutClosed' = 0 THEN AllShown(o) ELSE BeginningShown(o)
  OBVIOUS
<1> HIDE DEF o
<1>6. /\ output \in Seq(Wrote) /\ output' \in Seq(Wrote) /\ Len(output') = Len(output) + 1
      /\ Len(output) \in Nat
      /\ \A i \in 1..Len(output) : output'[i] = output[i]
      /\ output'[Len(output) + 1] = o
      /\ \A i \in 1..Len(output') : i \in 1..Len(output) \/ i = Len(output) + 1
  BY <1>0, <1>3 DEF CatTypes
<1>7. /\ Len(output) = arg - 1 /\ arg \in 1..Len(catArgs) /\ Len(catArgs) \in Nat
      /\ stdoutClosed \in 0..Len(catArgs) /\ stdoutClosed < arg
      /\ stdoutClosed' \in 0..Len(catArgs) /\ stdoutClosed' <= arg
  <2>1. /\ Len(output) = arg - 1 /\ arg \in 1..Len(catArgs) /\ Len(catArgs) \in Nat
        /\ stdoutClosed \in 0..Len(catArgs) /\ stdoutClosed < arg
    BY <1>0 DEF CatWritten, CatTypes, CatSetting
  <2> QED
    BY <2>1
<1>8. CatSetting' /\ CatTypes'
  <2>1. Wrote' = Wrote
    BY DEF Wrote
  <2>2. arg' \in 1..Len(catArgs) /\ catAt' \in {"stat", "get", "copy"} /\ from' \in Nat
    BY <1>0, <1>2, <1>7 DEF CatSetting, CatTypes
  <2>3. expected' \in Int /\ pinned' \in 0..2 + MaxCatPuts /\ catExit' \in {"none", "ok", "error"}
    BY <1>0, <1>2, CatNumbers DEF CatTypes
  <2> QED
    BY <1>0, <1>6, <1>7, <2>1, <2>2, <2>3 DEF CatSetting, CatTypes
<1>9. CatLooked'
  BY <1>2 DEF CatLooked
<1>10. ASSUME catExit' # "error", NEW i \in 1..Len(output') PROVE WrittenWell(i)'
  <2>1. CASE i \in 1..Len(output)
    <3>1. WrittenWell(i) /\ i < arg /\ i \in Nat
      BY <1>0, <1>6, <1>7, <2>1 DEF CatWritten
    <3>2. stdoutClosed' \in 1..i <=> stdoutClosed \in 1..i
      BY <1>7, <3>1
    <3> QED
      BY <1>6, <2>1, <3>1, <3>2 DEF WrittenWell, BeginningShown, AllShown
  <2>2. CASE i = Len(output) + 1
    <3>1. i = arg /\ output'[i] = o
      BY <1>6, <1>7, <2>2
    <3>2. IF catOpts.rewind THEN body = asOf[Shows] ELSE body >= 2
      BY <1>1 DEF IsMeant
    <3>3. stdoutClosed' \in 1..i <=> stdoutClosed' # 0
      BY <1>7, <3>1
    <3>4. IF stdoutClosed' \in 1..i THEN BeginningShown(o) ELSE AllShown(o)
      BY <1>5, <1>10, <3>3
    <3>5. IF stdoutClosed' \in 1..i THEN BeginningShown(output[i])' ELSE AllShown(output[i])'
      BY <3>1, <3>4 DEF BeginningShown, AllShown
    <3> QED
      BY <1>1, <1>4, <3>1, <3>2, <3>5 DEF WrittenWell
  <2> QED
    BY <1>6, <2>1, <2>2
<1>11. CatWritten'
  BY <1>2, <1>6, <1>7, <1>10 DEF CatWritten
<1> QED
  BY <1>8, <1>9, <1>11 DEF CatIInv

\* A stat, a get, a copy, and the versions that others put keep the invariant.
LEMMA CatStep ==
  ASSUME CatIInv, [CatNext]_catVars PROVE CatIInv'
PROOF
<1>0. CatSetting /\ CatTypes /\ CatLooked /\ CatWritten
  BY DEF CatIInv
<1>1. CASE OthersPut
  <2>1. /\ DOMAIN stored' = DOMAIN stored
        /\ \A n \in DOMAIN stored :
             /\ stored'[n] \in Seq(CatSizes)
             /\ Len(stored'[n]) \in Len(stored[n])..2 + MaxCatPuts
             /\ Len(stored[n]) \in 2..2 + MaxCatPuts
             /\ \A m \in 1..Len(stored[n]) : stored'[n][m] = stored[n][m]
    BY <1>0, <1>1, PutKeeps DEF CatTypes
  <2>2. UNCHANGED <<catArgs, catOpts, versioned, asOf, catAt, arg, pinned, from,
                    expected, body, output, stdoutClosed, catExit>>
    BY <1>1 DEF OthersPut
  <2>3. CatSetting'
    BY <1>0, <2>1, <2>2 DEF CatSetting
  <2>4. CatTypes'
    <3>1. stored' \in [DOMAIN stored' -> Seq(CatSizes)]
      BY <1>1, <2>1 DEF OthersPut
    <3>2. Wrote' = Wrote
      BY <2>1 DEF Wrote
    <3>3. \A n \in DOMAIN stored : Len(stored'[n]) \in 2..2 + MaxCatPuts
      BY <2>1, CatNumbers
    <3> QED
      BY <1>0, <2>1, <2>2, <3>1, <3>2, <3>3 DEF CatTypes
  <2>5. Shows \in DOMAIN stored /\ Shows' = Shows
    BY <1>0, <2>2 DEF CatSetting, CatTypes, Shows
  <2>6. \A m : IsMeant(m) => IsMeant(m)' /\ stored'[Shows][m] = stored[Shows][m]
    BY <2>1, <2>2, <2>5 DEF IsMeant
  <2>7. \A m : LooksAt(m) => LooksAt(m)'
    BY <2>2, <2>5, <2>6 DEF LooksAt, FromIn
  <2>8. CatLooked'
    <3>1. IsMeant(body) => IsMeant(body)'
      BY <2>2, <2>5, <2>6 DEF IsMeant
    <3> QED
      BY <1>0, <2>2, <2>5, <2>6, <2>7, <3>1 DEF CatLooked
  <2>9. CatWritten'
    <3>1. \A i \in 1..Len(output) : output[i].name \in DOMAIN stored
      <4>1. \A i \in 1..Len(output) : output[i] \in Wrote
        BY <1>0 DEF CatTypes
      <4> QED
        BY <4>1 DEF Wrote
    <3>2. ASSUME NEW i \in 1..Len(output), WrittenWell(i) PROVE WrittenWell(i)'
      BY <2>1, <2>2, <3>1, <3>2 DEF WrittenWell, BeginningShown, AllShown
    <3> QED
      BY <1>0, <2>2, <3>2 DEF CatWritten
  <2> QED
    BY <2>3, <2>4, <2>8, <2>9 DEF CatIInv
<1>2. CASE Stat
  <2> DEFINE v == IF versioned THEN MeantVersion ELSE 0
             m == MeantVersion
             n == stored[Shows][m]
  <2>1. /\ catExit = "none" /\ catAt = "stat" /\ ~catOpts.head
        /\ pinned' = v /\ from' = FromIn(n) /\ expected' = n - from'
        /\ IF expected' < 0 THEN catExit' = "error" /\ UNCHANGED catAt
                            ELSE catAt' = "get" /\ UNCHANGED catExit
        /\ UNCHANGED <<catArgs, catOpts, versioned, stored, asOf, arg, body, output,
                       stdoutClosed>>
    BY <1>2 DEF Stat, StatAndPin, CatRuns, FromIn
  <2>2. Shows \in DOMAIN stored /\ Shows' = Shows
    BY <1>0, <2>1 DEF CatSetting, CatTypes, Shows
  <2>3. /\ m \in 1..Len(stored[Shows]) /\ m \in 1..2 + MaxCatPuts /\ IsMeant(m)
        /\ Len(stored[Shows]) \in Nat /\ stored[Shows] \in Seq(CatSizes)
    <3>1. /\ Len(stored[Shows]) \in 2..2 + MaxCatPuts /\ asOf[Shows] = 1
          /\ stored[Shows] \in Seq(CatSizes)
      BY <1>0, <2>2 DEF CatTypes
    <3>2. m = IF catOpts.rewind THEN asOf[Shows] ELSE Len(stored[Shows])
      BY DEF MeantVersion, Latest
    <3> QED
      BY <3>1, <3>2, CatNumbers DEF IsMeant
  <2>4. n \in Nat
    <3>1. stored[Shows][m] \in CatSizes
      BY <2>3
    <3> QED
      BY <3>1, CatNumbers
  <2>5. catOpts.tail \in Nat /\ catOpts.offset \in Nat
    BY <1>0, CatNumbers DEF CatSetting
  <2>6. from' \in Nat /\ expected' \in Int /\ pinned' \in 0..2 + MaxCatPuts
    BY <2>1, <2>3, <2>4, <2>5, CatNumbers DEF FromIn
  <2>7. CatSetting' /\ CatTypes'
    <3>1. Wrote' = Wrote
      BY <2>1 DEF Wrote
    <3> QED
      BY <1>0, <2>1, <2>6, <3>1 DEF CatSetting, CatTypes
  <2>8. CatLooked'
    <3> HIDE DEF m, n, v
    <3>1. CASE expected' < 0
      BY <2>1, <3>1 DEF CatLooked
    <3>2. CASE ~(expected' < 0)
      <4>1. PICK k \in Nat : k = m
        BY <2>3
      <4>2. LooksAt(k)'
        <5>1. IsMeant(k)'
          BY <2>1, <2>2, <2>3, <4>1 DEF IsMeant
        <5>2. IF catOpts.rewind THEN pinned' = k ELSE pinned' \in {0, k}
          BY <1>0, <2>1, <4>1 DEF v, m, CatSetting
        <5>3. /\ from' = FromIn(stored[Shows][k]) /\ expected' = stored[Shows][k] - from'
              /\ stored'[Shows'][k] = stored[Shows][k] /\ expected' >= 0
          BY <2>1, <2>2, <2>6, <3>2, <4>1 DEF n
        <5> QED
          BY <2>1, <5>1, <5>2, <5>3 DEF LooksAt, FromIn
      <4> QED
        BY <2>1, <3>2, <4>2 DEF CatLooked
    <3> QED
      BY <3>1, <3>2
  <2>9. CatWritten'
    BY <1>0, <2>1 DEF CatWritten, WrittenWell, BeginningShown, AllShown, CatTypes
  <2> QED
    BY <2>7, <2>8, <2>9 DEF CatIInv
<1>3. CASE HeadStat
  <2>1. /\ catExit = "none" /\ catAt = "stat" /\ catOpts.head
        /\ pinned' = IF catOpts.rewind THEN asOf[Shows] ELSE 0
        /\ catAt' = "get"
        /\ UNCHANGED <<catArgs, catOpts, versioned, stored, asOf, arg, from, expected,
                       body, output, stdoutClosed, catExit>>
    BY <1>3 DEF HeadStat, CatRuns
  <2>2. Shows \in DOMAIN stored /\ Shows' = Shows
    BY <1>0, <2>1 DEF CatSetting, CatTypes, Shows
  <2>3. Len(stored[Shows]) \in 2..2 + MaxCatPuts /\ asOf[Shows] = 1
    BY <1>0, <2>2 DEF CatTypes
  <2>4. CatSetting' /\ CatTypes'
    <3>1. Wrote' = Wrote
      BY <2>1 DEF Wrote
    <3>2. pinned' \in 0..2 + MaxCatPuts
      BY <2>1, <2>3, CatNumbers
    <3> QED
      BY <1>0, <2>1, <3>1, <3>2 DEF CatSetting, CatTypes
  <2>5. from = 0 /\ expected = -1
    BY <1>0, <2>1 DEF CatLooked
  <2>6. CatLooked'
    <3>1. PICK k \in Nat : k = IF catOpts.rewind THEN 1 ELSE 2
      OBVIOUS
    <3>2. IsMeant(k)'
      BY <2>1, <2>2, <2>3, <3>1, CatNumbers DEF IsMeant
    <3>3. LooksAt(k)'
      BY <2>1, <2>2, <2>3, <2>5, <3>1, <3>2 DEF LooksAt
    <3> QED
      BY <2>1, <3>3 DEF CatLooked
  <2>7. CatWritten'
    BY <1>0, <2>1 DEF CatWritten, WrittenWell, BeginningShown, AllShown
  <2> QED
    BY <2>4, <2>6, <2>7 DEF CatIInv
<1>4. CASE Get
  <2> DEFINE v == IF pinned = 0 THEN Latest ELSE pinned
  <2>1. /\ catExit = "none" /\ catAt = "get"
        /\ IF from > 0 /\ from >= stored[Shows][v]
           THEN catExit' = "error" /\ UNCHANGED <<catAt, body>>
           ELSE catAt' = "copy" /\ body' = v /\ UNCHANGED catExit
        /\ UNCHANGED <<catArgs, catOpts, versioned, stored, asOf, arg, pinned, from,
                       expected, output, stdoutClosed>>
    BY <1>4 DEF Get, CatRuns
  <2>2. Shows \in DOMAIN stored /\ Shows' = Shows
    BY <1>0, <2>1 DEF CatSetting, CatTypes, Shows
  <2>3. Len(stored[Shows]) \in 2..2 + MaxCatPuts /\ asOf[Shows] = 1
        /\ stored[Shows] \in Seq(CatSizes)
    BY <1>0, <2>2 DEF CatTypes
  <2>4. PICK m \in Nat : LooksAt(m)
    BY <1>0, <2>1 DEF CatLooked
  <2>5. IsMeant(v) /\ stored[Shows][v] \in Nat
    <3>1. IsMeant(v)
      BY <2>3, <2>4, CatNumbers DEF LooksAt, IsMeant, Latest
    <3>2. stored[Shows][v] \in CatSizes
      BY <2>3, <3>1 DEF IsMeant
    <3> QED
      BY <3>1, <3>2, CatNumbers
  <2>6. CatSetting' /\ CatTypes'
    <3>1. Wrote' = Wrote
      BY <2>1 DEF Wrote
    <3> QED
      BY <1>0, <2>1, <3>1 DEF CatSetting, CatTypes
  <2>7. LooksAt(m)'
    BY <2>1, <2>2, <2>4 DEF LooksAt, IsMeant, FromIn
  <2>8. CatLooked'
    <3> HIDE DEF v
    <3>1. CASE catExit' = "error"
      BY <3>1 DEF CatLooked
    <3>2. CASE catAt' = "copy" /\ body' = v /\ catExit' = "none"
               /\ (from = 0 \/ from < stored[Shows][v])
      <4>1. IsMeant(body)'
        BY <2>1, <2>2, <2>5, <3>2 DEF IsMeant
      <4> QED
        BY <2>1, <2>2, <2>7, <3>2, <4>1 DEF CatLooked
    <3>3. from \in Nat
      BY <1>0 DEF CatTypes
    <3> QED
      BY <2>1, <2>5, <3>1, <3>2, <3>3
  <2>9. CatWritten'
    BY <1>0, <2>1 DEF CatWritten, WrittenWell, BeginningShown, AllShown, CatTypes
  <2> QED
    BY <2>6, <2>8, <2>9 DEF CatIInv
<1>5. CASE Out
  <2> DEFINE o == [name |-> Shows, version |-> body, first |-> from, last |-> ShownEnd]
             n == stored[Shows][body]
  <2>1. /\ catExit = "none" /\ catAt = "copy" /\ WriteOut(ShownEnd)
        /\ UNCHANGED <<catArgs, catOpts, versioned, stored, asOf, body, stdoutClosed>>
        /\ \/ catExit' = "error" /\ UNCHANGED <<catAt, arg, from, expected, pinned>>
           \/ NextArgument /\ (catOpts.head \/ expected = -1 \/ ShownEnd - from = expected)
    BY <1>5 DEF Out, CatRuns
  <2>2. /\ n \in Nat /\ from \in Nat /\ expected \in Int
        /\ catOpts.tail \in Nat /\ catOpts.offset \in Nat /\ catOpts.lines \in Nat
        /\ catOpts.head => from = 0
        /\ ~catOpts.head => expected >= 0
    BY <2>1, CopyLooked
  <2>3. ~catOpts.head => \E m \in Nat : m = expected + from /\ from = FromIn(m)
    BY <2>1, CopyLooked
  <2>4. /\ ShownEnd \in Nat /\ ShownEnd <= n
        /\ IF catOpts.head THEN ShownEnd = n \/ ShownEnd = catOpts.lines ELSE ShownEnd = n
    BY <2>2 DEF ShownEnd
  <2>5. /\ o.name = Shows /\ o.version = body /\ o.first = from /\ o.last = ShownEnd
        /\ stored[o.name][o.version] = n
    OBVIOUS
  <2> HIDE DEF o, n
  <2>6. ASSUME catExit' # "error" PROVE AllShown(o)
    <3>1. CASE catOpts.head
      BY <2>2, <2>4, <2>5, <3>1 DEF AllShown
    <3>2. CASE ~catOpts.head
      <4>1. n = expected + from /\ n = ShownEnd /\ expected = n - from
        BY <2>1, <2>2, <2>4, <2>6, <3>2
      <4>2. from = FromIn(n)
        BY <2>3, <3>2, <4>1
      <4>3. IF catOpts.tail = 0 THEN from = catOpts.offset
            ELSE n - from = IF n < catOpts.tail THEN n ELSE catOpts.tail
        BY <2>2, <4>2 DEF FromIn
      <4> QED
        BY <2>5, <3>2, <4>1, <4>3 DEF AllShown
    <3> QED
      BY <3>1, <3>2
  <2>7. AllShown(o) => BeginningShown(o)
    BY <2>2, <2>4, <2>5 DEF AllShown, BeginningShown
  <2> QED
    BY <2>1, <2>4, <2>6, <2>7, WrittenStep DEF o
<1>8. CASE OutClosed
  <2> DEFINE n == stored[Shows][body]
  <2>1. PICK last \in from..(ShownEnd - 1) : WriteOut(last)
    BY <1>8 DEF OutClosed
  <2>2. /\ catExit = "none" /\ catAt = "copy" /\ NextArgument
        /\ UNCHANGED <<catArgs, catOpts, versioned, stored, asOf, body>>
        /\ stdoutClosed' = IF stdoutClosed = 0 THEN arg ELSE stdoutClosed
    BY <1>8 DEF OutClosed, CatRuns
  <2> DEFINE o == [name |-> Shows, version |-> body, first |-> from, last |-> last]
  <2>3. /\ n \in Nat /\ from \in Nat /\ expected \in Int
        /\ catOpts.tail \in Nat /\ catOpts.offset \in Nat /\ catOpts.lines \in Nat
        /\ catOpts.head => from = 0
    BY <2>2, CopyLooked
  <2>4. ~catOpts.head => \E m \in Nat : m = expected + from /\ from = FromIn(m)
    BY <2>2, CopyLooked
  <2>5. last \in Nat /\ last <= n
    BY <2>3 DEF ShownEnd
  <2>6. arg # 0 /\ stdoutClosed' # 0
    BY <1>0, <2>2 DEF CatTypes
  <2>7. BeginningShown(o)
    <3>1. ~catOpts.head /\ catOpts.tail = 0 => from = catOpts.offset
      BY <2>4 DEF FromIn
    <3> QED
      BY <2>3, <2>5, <3>1 DEF BeginningShown
  <2> QED
    BY <2>1, <2>2, <2>5, <2>6, <2>7, WrittenStep
<1>6. CASE CatFails
  <2>1. CatSetting' /\ CatTypes'
    <3>1. Wrote' = Wrote
      BY <1>6 DEF CatFails, Wrote
    <3> QED
      BY <1>0, <1>6, <3>1 DEF CatFails, CatSetting, CatTypes
  <2>2. CatLooked' /\ CatWritten'
    BY <1>0, <1>6 DEF CatFails, CatLooked, CatWritten
  <2> QED
    BY <2>1, <2>2 DEF CatIInv
<1>7. CASE UNCHANGED catVars
  <2>1. Wrote' = Wrote /\ Shows' = Shows
    BY <1>7 DEF catVars, Wrote, Shows
  <2>2. CatSetting' /\ CatTypes'
    BY <1>0, <1>7, <2>1 DEF catVars, CatSetting, CatTypes
  <2>3. CatLooked'
    BY <1>0, <1>7, <2>1 DEF catVars, CatLooked, LooksAt, IsMeant, FromIn
  <2>4. CatWritten'
    BY <1>0, <1>7 DEF catVars, CatWritten, WrittenWell, BeginningShown, AllShown
  <2> QED
    BY <2>2, <2>3, <2>4 DEF CatIInv
<1> QED
  BY <1>1, <1>2, <1>3, <1>4, <1>5, <1>6, <1>7, <1>8 DEF CatNext

\* Arguments, versions and what was written have the values that catURL and
\* headURL give them.
THEOREM CatTypeCorrect == CatSpec => []CatTypeOK
PROOF
<1>1. ASSUME CatIInv PROVE CatTypeOK
  <2>1. CatSetting /\ CatTypes /\ CatWritten
    BY <1>1 DEF CatIInv
  <2>2. Len(output) <= Len(catArgs)
    BY <2>1 DEF CatSetting, CatTypes, CatWritten
  <2> QED
    BY <2>1, <2>2 DEF CatSetting, CatTypes, CatTypeOK
<1> QED
  BY <1>1, CatInitOK, CatStep, PTL DEF CatSpec

\* What cat and head write for an argument is from one version, the one that
\* was asked for, and as much of it as was asked for, although others put new
\* versions between the stat and the get; or the beginning of that, from where
\* the reader of stdout has closed it, which is a success too.
THEOREM OneVersionIsShown == CatSpec => []CatShowsOneVersion
PROOF
<1>1. ASSUME CatIInv PROVE CatShowsOneVersion
  <2>1. DOMAIN output = 1..Len(output)
    BY <1>1 DEF CatIInv, CatTypes
  <2> QED
    BY <1>1, <2>1 DEF CatIInv, CatWritten, WrittenWell, CatShowsOneVersion
<1> QED
  BY <1>1, CatInitOK, CatStep, PTL DEF CatSpec

-----------------------------------------------------------------------------
(***************************************************************************)
(* Restore from tiers.                                                     *)
(***************************************************************************)
Tiers == {"cold", "asked", "back", "hot", "marker", "none"}
TierVersions == [name : RestoreNames, number : Numbers]

\* An entry of a listing of the command means one version at most.
RestoreEntry(e) ==
  \/ ~allVersions /\ e.number = 0
  \/ recursive /\ allVersions /\ e \in TierVersions

RestoreTypes ==
  /\ tier \in [TierVersions -> Tiers]
  /\ pass \in {"send", "check", "over"} /\ othersDid \in 0..MaxRestoreChanges
  /\ sent \subseteq RestoreNames /\ finished \subseteq RestoreNames
RestoreFlags ==
  /\ recursive \in BOOLEAN /\ allVersions \in BOOLEAN /\ (allVersions => recursive)
  /\ complained \in BOOLEAN /\ hasListing \in BOOLEAN

\* What is to be restored is still in the scope of the command, and, once the
\* second pass has its listing, is back or has its entry to come.
StillMeant == \A v \in toRestore : v \in TierVersions /\ InScope(v)
Awaited ==
  \/ complained
  \/ /\ pass = "check" /\ hasListing =>
          \A v \in toRestore : tier[v] = "back" \/ \E e \in toDo : v \in Means(e)
     /\ pass = "over" => \A v \in toRestore : tier[v] = "back"
ToDoEntries == \A e \in toDo : RestoreEntry(e)

\* What the server was asked to restore was counted, or an error was printed.
AskedCounted ==
  complained \/ /\ \A v \in TierVersions : tier[v] \in {"asked", "back"} => v.name \in sent
                /\ finished \subseteq sent

\* What others put has a number of its own.
NumbersFree == \A v \in TierVersions : v.number > 2 + othersDid => tier[v] = "none"

RestoreIInv ==
  /\ RestoreTypes /\ RestoreFlags /\ NumbersFree
  /\ StillMeant /\ Awaited /\ ToDoEntries /\ AskedCounted

\* The latest version of a name is unique, and so is what an entry means.
LEMMA MeansOne ==
  ASSUME RestoreTypes, NEW e, RestoreEntry(e), NEW v \in Means(e), NEW w \in Means(e)
  PROVE  v = w
PROOF
<1>1. /\ v \in TierVersions /\ w \in TierVersions /\ v.name = e.name /\ w.name = e.name
      /\ IF e.number = 0 THEN IsLatest(v) /\ IsLatest(w)
         ELSE v.number = e.number /\ w.number = e.number
  BY DEF Means, RestoreTypes
<1>2. v.number \in Nat /\ w.number \in Nat
  BY <1>1, RestoreAssumption DEF TierVersions, Numbers
<1>3. v.number = w.number
  BY <1>1, <1>2 DEF IsLatest, RestoreTypes
<1> QED
  BY <1>1, <1>3 DEF TierVersions

\* An entry means versions of its name.
LEMMA MeansVersions ==
  ASSUME RestoreTypes, NEW e, NEW v \in Means(e)
  PROVE  v \in TierVersions /\ v.name = e.name /\ v.name \in RestoreNames
PROOF
<1>1. DOMAIN tier = TierVersions
  BY DEF RestoreTypes
<1>2. v \in TierVersions /\ v.name = e.name
  BY <1>1 DEF Means
<1> QED
  BY <1>2 DEF TierVersions

\* A version in the scope of the command has an entry in its listing.
LEMMA HasEntry ==
  ASSUME RestoreTypes, RestoreFlags, NEW v \in TierVersions, InScope(v)
  PROVE  LET inList == {u \in DOMAIN tier : InScope(u)}
             entries == IF ~recursive THEN {[name |-> OneName, number |-> 0]}
                        ELSE IF allVersions THEN inList
                        ELSE {[name |-> u.name, number |-> 0] : u \in inList}
         IN \E e \in entries : v \in Means(e)
PROOF
<1> DEFINE inList == {u \in DOMAIN tier : InScope(u)}
<1>1. v \in DOMAIN tier /\ Data(v) /\ v \in inList
  BY DEF RestoreTypes, InScope
<1>2. CASE ~recursive
  <2> DEFINE e == [name |-> OneName, number |-> 0]
  <2>1. v \in Means(e)
    BY <1>1, <1>2 DEF Means, InScope, RestoreFlags
  <2> QED
    BY <1>2, <2>1
<1>3. CASE recursive /\ allVersions
  <2>1. v.number # 0
    BY RestoreAssumption DEF TierVersions, Numbers
  <2>2. v \in Means(v)
    BY <1>1, <2>1 DEF Means
  <2> QED
    BY <1>1, <1>3, <2>2
<1>4. CASE recursive /\ ~allVersions
  <2> DEFINE e == [name |-> v.name, number |-> 0]
  <2>1. v \in Means(e)
    BY <1>1, <1>4 DEF Means, InScope
  <2> QED
    BY <1>1, <1>4, <2>1
<1> QED
  BY <1>2, <1>3, <1>4 DEF RestoreFlags

\* Before the listing of the restore.
LEMMA RestoreInitOK ==
  ASSUME RestoreInit PROVE RestoreIInv
PROOF
<1>1. PICK older \in {"cold", "none"}, two \in [RestoreNames -> {"cold", "hot"}] :
        tier = [v \in TierVersions |->
                  CASE v.number = 1 -> older [] v.number = 2 -> two[v.name]
                    [] OTHER -> "none"]
  BY DEF RestoreInit, TierVersions
<1>2. \A v \in TierVersions : tier[v] \in {"cold", "hot", "none"}
  BY <1>1 DEF TierVersions
<1>3. tier \in [TierVersions -> Tiers]
  BY <1>1, <1>2 DEF Tiers
<1>4. RestoreTypes
  BY <1>3, RestoreAssumption DEF RestoreTypes, RestoreInit
<1>5. RestoreFlags
  BY DEF RestoreFlags, RestoreInit
<1>6. NumbersFree
  <2>1. \A v \in TierVersions : v.number > 2 => v.number # 1 /\ v.number # 2
    OBVIOUS
  <2>2. \A v \in TierVersions : v.number > 2 => tier[v] = "none"
    BY <1>1, <2>1
  <2> QED
    BY <2>2 DEF RestoreInit, NumbersFree
<1>7. StillMeant
  BY <1>4 DEF RestoreInit, StillMeant, RestoreTypes
<1>8. Awaited /\ ToDoEntries
  BY DEF RestoreInit, Awaited, ToDoEntries
<1>9. AskedCounted
  BY <1>2 DEF RestoreInit, AskedCounted
<1> QED
  BY <1>4, <1>5, <1>6, <1>7, <1>8, <1>9 DEF RestoreIInv

\* A version keeps its place among the others when only its tier changes, of one
\* that has data to another.
LEMMA ScopeStays ==
  ASSUME RestoreTypes, RestoreTypes', UNCHANGED <<recursive, allVersions>>,
         \A u \in TierVersions : /\ Present(u)' = Present(u)
                                 /\ Data(u)' = Data(u)
  PROVE  /\ \A u \in TierVersions : IsLatest(u)' = IsLatest(u) /\ InScope(u)' = InScope(u)
         /\ \A e : Means(e)' = Means(e)
PROOF
<1>1. DOMAIN tier = TierVersions /\ DOMAIN tier' = TierVersions
  BY DEF RestoreTypes
<1>2. \A u \in TierVersions : IsLatest(u)' = IsLatest(u)
  BY <1>1 DEF IsLatest
<1>3. \A u \in TierVersions : InScope(u)' = InScope(u)
  BY <1>2 DEF InScope
<1>4. \A e : Means(e)' = Means(e)
  BY <1>1, <1>2 DEF Means
<1> QED
  BY <1>2, <1>3, <1>4

\* The listing, the requests, the polls of waitRestoreObjects and others who
\* change the tiers keep the invariant.
LEMMA RestoreStep ==
  ASSUME RestoreIInv, [RestoreNext]_restoreVars PROVE RestoreIInv'
PROOF
<1> USE DEF RestoreIInv
<1>1. CASE RestoreList
  <2> DEFINE inList == {v \in DOMAIN tier : InScope(v)}
             entries == IF ~recursive THEN {[name |-> OneName, number |-> 0]}
                        ELSE IF allVersions THEN inList
                        ELSE {[name |-> v.name, number |-> 0] : v \in inList}
  <2>1. /\ toDo' \subseteq entries
        /\ (toDo' = entries /\ complained' = complained) \/ complained' = TRUE
        /\ hasListing' = TRUE /\ pass # "over"
        /\ UNCHANGED <<recursive, allVersions, tier, toRestore, othersDid, pass, sent, finished>>
    BY <1>1 DEF RestoreList
  <2>2. RestoreTypes' /\ StillMeant' /\ AskedCounted' /\ NumbersFree'
    BY <2>1 DEF RestoreTypes, NumbersFree, StillMeant, AskedCounted, InScope, IsLatest, Data, Present
  <2>3. RestoreFlags'
    BY <2>1 DEF RestoreFlags
  <2>4. \A e \in entries : RestoreEntry(e)
    BY DEF RestoreEntry, RestoreTypes, RestoreFlags
  <2>5. ToDoEntries'
    BY <2>1, <2>4 DEF ToDoEntries, RestoreEntry
  <2>6. \A v \in toRestore : \E e \in entries : v \in Means(e)
    BY HasEntry DEF StillMeant
  <2>7. Awaited'
    <3> HIDE DEF entries
    <3>1. \A e : Means(e)' = Means(e)
      BY <2>1 DEF Means, IsLatest, Data, Present
    <3> QED
      BY <2>1, <2>6, <3>1 DEF Awaited
  <2> QED
    BY <2>2, <2>3, <2>5, <2>7
<1>2. CASE NextPass
  <2>1. RestoreTypes' /\ StillMeant' /\ AskedCounted' /\ ToDoEntries' /\ NumbersFree'
    BY <1>2 DEF NextPass, RestoreTypes, NumbersFree, StillMeant, AskedCounted, ToDoEntries, RestoreEntry,
                InScope, IsLatest, Data, Present
  <2>2. RestoreFlags'
    BY <1>2 DEF NextPass, RestoreFlags
  <2>3. Awaited'
    BY <1>2 DEF NextPass, Awaited, RestoreTypes
  <2> QED
    BY <2>1, <2>2, <2>3
<1>3. CASE ServerRestores
  <2>1. PICK v \in TierVersions, t \in {"back", "cold"} :
          tier[v] = "asked" /\ tier' = [tier EXCEPT ![v] = t]
    BY <1>3 DEF ServerRestores, RestoreTypes
  <2>2. UNCHANGED <<recursive, allVersions, toRestore, othersDid, pass, hasListing, toDo,
                    sent, finished, complained>>
    BY <1>3 DEF ServerRestores
  <2>3. RestoreTypes' /\ NumbersFree'
    BY <2>1, <2>2 DEF RestoreTypes, Tiers, NumbersFree
  <2>4. \A u \in TierVersions : Present(u)' = Present(u) /\ Data(u)' = Data(u)
    BY <2>1 DEF RestoreTypes, Present, Data
  <2>5. /\ \A u \in TierVersions : InScope(u)' = InScope(u)
        /\ \A e : Means(e)' = Means(e)
    BY <2>2, <2>3, <2>4, ScopeStays
  <2>6. StillMeant' /\ ToDoEntries'
    BY <2>2, <2>5 DEF StillMeant, ToDoEntries, RestoreEntry
  <2>7. RestoreFlags'
    BY <2>2 DEF RestoreFlags
  <2>8. \A u \in TierVersions : tier[u] = "back" => tier'[u] = "back"
    BY <2>1 DEF RestoreTypes
  <2>9. Awaited'
    BY <2>2, <2>5, <2>8 DEF Awaited, StillMeant
  <2>10. AskedCounted'
    BY <2>1, <2>2 DEF AskedCounted, RestoreTypes
  <2> QED
    BY <2>3, <2>6, <2>7, <2>9, <2>10
<1>4. CASE OthersChange
  <2>1. PICK v \in TierVersions, t \in {"hot", "marker", "none"} :
          /\ tier' = [tier EXCEPT ![v] = t]
          /\ t = "none" \/ v.number = 2 + othersDid'
    BY <1>4 DEF OthersChange, RestoreTypes
  <2>2. /\ UNCHANGED <<recursive, allVersions, pass, hasListing, toDo, sent, finished,
                       complained>>
        /\ toRestore' = {u \in toRestore : InScope(u)'}
        /\ othersDid' = othersDid + 1 /\ othersDid < MaxRestoreChanges /\ pass # "over"
    BY <1>4 DEF OthersChange
  <2>3. RestoreTypes'
    BY <2>1, <2>2, RestoreAssumption DEF RestoreTypes, Tiers
  <2>11. NumbersFree' /\ (t = "none" \/ tier[v] = "none")
    <3>1. othersDid \in Nat /\ \A u \in TierVersions : u.number \in Nat
      BY RestoreAssumption DEF RestoreTypes, TierVersions, Numbers
    <3> QED
      BY <2>1, <2>2, <3>1 DEF RestoreTypes, NumbersFree
  <2>4. RestoreFlags'
    BY <2>2 DEF RestoreFlags
  <2>5. StillMeant' /\ ToDoEntries'
    BY <2>2 DEF StillMeant, ToDoEntries, RestoreEntry
  <2>6. AskedCounted'
    BY <2>1, <2>2 DEF AskedCounted, RestoreTypes
  <2>7. \A u \in TierVersions : Data(u)' => tier'[u] = tier[u] \/ u = v
    BY <2>1 DEF RestoreTypes
  <2>8. ASSUME NEW e \in toDo, NEW u \in toRestore', u \in Means(e)
        PROVE  u \in Means(e)'
    <3>1. u \in TierVersions /\ InScope(u)' /\ Data(u)' /\ u.name = e.name
          /\ (e.number # 0 => u.number = e.number)
      BY <2>2, <2>8 DEF StillMeant, Means, InScope
    <3>2. e.number = 0 => IsLatest(u)'
      <4>1. e.number = 0 => ~allVersions
        BY RestoreAssumption DEF ToDoEntries, RestoreEntry, TierVersions, Numbers
      <4> QED
        BY <2>2, <3>1, <4>1 DEF InScope
    <3> QED
      BY <2>3, <3>1, <3>2 DEF Means, RestoreTypes
  <2>9. ASSUME NEW u \in toRestore', tier[u] = "back" PROVE tier'[u] = "back"
    <3>1. u \in TierVersions /\ InScope(u)'
      BY <2>2 DEF StillMeant
    <3> QED
      BY <2>1, <2>9, <2>11, <3>1 DEF RestoreTypes, InScope, Data
  <2>10. Awaited'
    BY <2>2, <2>8, <2>9 DEF Awaited
  <2> QED
    BY <2>3, <2>4, <2>5, <2>6, <2>10, <2>11
<1>5. ASSUME NEW e \in toDo, SendRequest(e) PROVE RestoreIInv'
  <2>1. /\ pass = "send" /\ toDo' = toDo \ {e}
        /\ UNCHANGED <<recursive, allVersions, toRestore, othersDid, pass, hasListing,
                       finished>>
    BY <1>5 DEF SendRequest
  <2>2. /\ \/ UNCHANGED tier
           \/ \E v \in Means(e) : /\ tier[v] \in {"cold", "back"}
                                  /\ tier' = [tier EXCEPT ![v] = IF @ = "cold" THEN "asked" ELSE @]
                                  /\ v.name \in sent' \/ complained'
        /\ complained' = TRUE \/ complained' = complained
        /\ sent' = sent \/ \E v \in Means(e) : sent' = sent \cup {v.name}
    <3>1. \A v \in Means(e) : v.name = e.name
      BY DEF Means
    <3>2. CASE \E v \in Means(e) :
                /\ tier[v] \in {"cold", "back"}
                /\ tier' = [tier EXCEPT ![v] = IF @ = "cold" THEN "asked" ELSE @]
                /\ \/ sent' = sent \cup {e.name} /\ UNCHANGED complained
                   \/ "request" \in RestoreErrors /\ complained' = TRUE /\ UNCHANGED sent
      <4>1. PICK v \in Means(e) :
                /\ tier[v] \in {"cold", "back"}
                /\ tier' = [tier EXCEPT ![v] = IF @ = "cold" THEN "asked" ELSE @]
                /\ \/ sent' = sent \cup {e.name} /\ UNCHANGED complained
                   \/ complained' = TRUE /\ UNCHANGED sent
        BY <3>2
      <4>2. v.name = e.name
        BY <3>1
      <4> QED
        BY <4>1, <4>2
    <3>3. CASE complained' = TRUE /\ UNCHANGED <<tier, sent>>
      BY <3>3
    <3> QED
      BY <1>5, <3>2, <3>3 DEF SendRequest
  <2>3. \A v \in Means(e) : v \in TierVersions /\ v.name \in RestoreNames
    BY MeansVersions
  <2>4. RestoreTypes' /\ NumbersFree'
    <3>1. RestoreTypes'
      BY <2>1, <2>2, <2>3 DEF RestoreTypes, Tiers
    <3>2. NumbersFree'
      BY <2>1, <2>2, <2>3 DEF RestoreTypes, NumbersFree
    <3> QED
      BY <3>1, <3>2
  <2>5. RestoreFlags'
    BY <2>1, <2>2 DEF RestoreFlags
  <2>6. \A u \in TierVersions : Present(u)' = Present(u) /\ Data(u)' = Data(u)
    BY <2>2, <2>3 DEF RestoreTypes, Present, Data
  <2>7. \A u \in TierVersions : InScope(u)' = InScope(u)
    BY <2>1, <2>4, <2>6, ScopeStays
  <2>8. StillMeant' /\ ToDoEntries'
    BY <2>1, <2>7 DEF StillMeant, ToDoEntries, RestoreEntry
  <2>9. Awaited'
    BY <2>1 DEF Awaited
  <2>10. AskedCounted'
    BY <2>1, <2>2, <2>3 DEF AskedCounted, RestoreTypes
  <2> QED
    BY <2>4, <2>5, <2>8, <2>9, <2>10
<1>6. ASSUME NEW e \in toDo, CheckEntry(e) PROVE RestoreIInv'
  <2>1. /\ pass = "check" /\ toDo' = toDo \ {e}
        /\ UNCHANGED <<recursive, allVersions, tier, toRestore, othersDid, pass, hasListing,
                       sent>>
    BY <1>6 DEF CheckEntry
  <2>10. \/ /\ finished' = finished \cup {e.name} /\ complained' = complained
            /\ \E v \in Means(e) : tier[v] = "back"
         \/ complained' = TRUE /\ finished' = finished
    BY <1>6 DEF CheckEntry
  <2>2. \A v \in Means(e) : v \in TierVersions /\ v.name = e.name /\ v.name \in RestoreNames
    BY MeansVersions
  <2>3. RestoreTypes' /\ NumbersFree'
    BY <2>1, <2>2, <2>10 DEF RestoreTypes, NumbersFree
  <2>4. RestoreFlags'
    BY <2>1, <2>10 DEF RestoreFlags
  <2>5. StillMeant' /\ ToDoEntries'
    BY <2>1 DEF StillMeant, ToDoEntries, RestoreEntry, InScope, IsLatest, Data, Present
  <2>6. AskedCounted'
    BY <2>1, <2>2, <2>10 DEF AskedCounted
  <2>7. \A x : Means(x)' = Means(x)
    BY <2>1 DEF Means, IsLatest, Data, Present
  <2>8. complained' \/ \A v \in Means(e) : tier[v] = "back"
    <3>1. RestoreEntry(e)
      BY DEF ToDoEntries
    <3> QED
      BY <2>10, <3>1, MeansOne
  <2>9. Awaited'
    BY <2>1, <2>7, <2>8, <2>10 DEF Awaited
  <2> QED
    BY <2>3, <2>4, <2>5, <2>6, <2>9
<1>7. CASE UNCHANGED restoreVars
  <2>1. RestoreFlags'
    BY <1>7 DEF restoreVars, RestoreFlags
  <2>2. /\ RestoreTypes' /\ NumbersFree' /\ StillMeant' /\ Awaited' /\ ToDoEntries'
        /\ AskedCounted'
    BY <1>7 DEF restoreVars, RestoreTypes, NumbersFree, StillMeant, Awaited, ToDoEntries, AskedCounted,
                RestoreEntry, Means, InScope, IsLatest, Data, Present
  <2> QED
    BY <2>1, <2>2
<1> QED
  BY <1>1, <1>2, <1>3, <1>4, <1>5, <1>6, <1>7 DEF RestoreNext

\* The counters of cmd/ilm-restore.go and the tiers of the versions have the
\* values they should have.
THEOREM RestoreTypeCorrect == RestoreSpec => []RestoreTypeOK
PROOF
<1>1. ASSUME RestoreIInv PROVE RestoreTypeOK
  BY <1>1 DEF RestoreIInv, RestoreTypes, RestoreTypeOK, Tiers, TierVersions
<1> QED
  BY <1>1, RestoreInitOK, RestoreStep, PTL DEF RestoreSpec

\* The command says that objects are restored only when they are; and it counts
\* every request that it made.
THEOREM RestoreIsTold == RestoreSpec => []RestoreTold
PROOF
<1>1. ASSUME RestoreIInv PROVE RestoreTold
  BY <1>1 DEF RestoreIInv, Awaited, AskedCounted, RestoreTold
<1> QED
  BY <1>1, RestoreInitOK, RestoreStep, PTL DEF RestoreSpec

-----------------------------------------------------------------------------
(***************************************************************************)
(* Two mirrors.                                                            *)
(***************************************************************************)
TwinSizes == ObjectSizes \cup {0}
TwinObjects ==
  {o \in [content : 0..MaxUserChanges, size : TwinSizes, time : Nat, origin : Nat] :
     IF o.content = 0 THEN o = NoObject ELSE o.time >= 1}
TwinEvents ==
  {e \in [kind : {"put", "parts", "delete", "mirror"}, time : Nat, origin : Nat,
          size : TwinSizes] :
     e.kind \in {"put", "parts"} => e.time >= 1}
TwinTasks ==
  {t \in [kind : {"copy", "remove"}, time : Nat, origin : Nat, size : TwinSizes] :
     t.kind = "copy" => t.time >= 1}
TwinListings == UNION {[D -> TwinObjects] : D \in SUBSET Sites}

TwinSitesOK ==
  /\ site \in [Sites -> TwinObjects] /\ latest \in TwinObjects
  /\ \A s \in Sites : site[s].time <= clock + skew /\ site[s].content <= userChanges
TwinQueuesOK == heard \in [Sites -> Seq(TwinEvents)] /\ tasks \in [Sites -> Seq(TwinTasks)]
TwinListedOK == listed \in [Sites -> TwinListings]
TwinNumbersOK ==
  /\ skew \in Nat /\ clock \in Nat /\ userChanges \in 0..MaxUserChanges
  /\ mirrorStarts \in Nat /\ echoes \in 0..MaxEchoes /\ copies \in Nat
  /\ clash \subseteq {"change", "deletion", "size", "parts"}
TwinFlagsOK ==
  /\ up \in [Sites -> BOOLEAN] /\ comparing \in [Sites -> BOOLEAN]
  /\ skew = 0 => withMetadata = FALSE
\* A mirror that is not up has nothing to do, and one that does not compare has
\* listed nothing.
TwinIdleOK ==
  \A s \in Sites : /\ ~up[s] => ~comparing[s] /\ heard[s] = <<>> /\ tasks[s] = <<>>
                   /\ ~comparing[s] => listed[s] = <<>>
TwinOK ==
  /\ TwinSitesOK /\ TwinQueuesOK /\ TwinListedOK /\ TwinNumbersOK /\ TwinFlagsOK
  /\ TwinIdleOK

\* The two sites.
LEMMA TwoSites ==
  ASSUME NEW s \in Sites
  PROVE  /\ Other(s) \in Sites /\ Other(s) # s /\ Other(Other(s)) = s
         /\ \A x \in Sites : x = s \/ x = Other(s)
PROOF
  BY DEF Sites, Other

\* What is put, announced, copied and removed is what it should be.
LEMMA TwinData ==
  /\ NoObject \in TwinObjects /\ 0 \in TwinSizes /\ RemoveTask \in TwinTasks
  /\ \A b \in BOOLEAN : DeleteEvent(b) \in TwinEvents
  /\ \A o \in TwinObjects : o.content # 0 => /\ PutEvent(o) \in TwinEvents
                                             /\ CopyTask(o) \in TwinTasks
                                             /\ CopyTask([o EXCEPT !.origin = 0]) \in TwinTasks
  /\ \A e \in TwinEvents : e.kind \in {"put", "parts"} => CopyTask(e) \in TwinTasks
PROOF
<1>1. NoObject \in TwinObjects /\ 0 \in TwinSizes
  BY TwinAssumption DEF NoObject, TwinObjects, TwinSizes
<1>2. RemoveTask \in TwinTasks
  BY <1>1 DEF RemoveTask, TwinTasks
<1>3. \A b \in BOOLEAN : DeleteEvent(b) \in TwinEvents
  BY <1>1 DEF DeleteEvent, TwinEvents
<1>4. ASSUME NEW o \in TwinObjects, o.content # 0
      PROVE  /\ PutEvent(o) \in TwinEvents /\ CopyTask(o) \in TwinTasks
             /\ CopyTask([o EXCEPT !.origin = 0]) \in TwinTasks
  <2>1. o.size \in TwinSizes /\ o.time \in Nat /\ o.time >= 1 /\ o.origin \in Nat
        /\ o \in [content : 0..MaxUserChanges, size : TwinSizes, time : Nat, origin : Nat]
    BY <1>4 DEF TwinObjects
  <2>2. PutEvent(o) \in TwinEvents
    BY <2>1 DEF PutEvent, InParts, TwinEvents
  <2>3. CopyTask(o) \in TwinTasks
    BY <2>1 DEF CopyTask, TwinTasks
  <2>4. CopyTask([o EXCEPT !.origin = 0]) \in TwinTasks
    BY <2>1 DEF CopyTask, TwinTasks
  <2> QED
    BY <2>2, <2>3, <2>4
<1>5. ASSUME NEW e \in TwinEvents, e.kind \in {"put", "parts"} PROVE CopyTask(e) \in TwinTasks
  BY <1>5 DEF CopyTask, TwinTasks, TwinEvents
<1> QED
  BY <1>1, <1>2, <1>3, <1>4, <1>5

\* An announced event is heard by the mirror that is up.
LEMMA Announced ==
  ASSUME TwinOK, NEW s \in Sites, NEW e \in TwinEvents, Announce(s, e)
  PROVE  /\ heard' \in [Sites -> Seq(TwinEvents)]
         /\ heard'[Other(s)] = heard[Other(s)]
         /\ up[s] => heard'[s] = Append(heard[s], e)
         /\ ~up[s] => heard'[s] = heard[s]
PROOF
<1>1. heard \in [Sites -> Seq(TwinEvents)] /\ Other(s) # s /\ Other(s) \in Sites
  BY TwoSites DEF TwinOK, TwinQueuesOK
<1>2. Append(heard[s], e) \in Seq(TwinEvents)
  BY <1>1, AppendedAt
<1> QED
  BY <1>1, <1>2 DEF Announce

\* A task that is over is gone from its queue.
LEMMA OneTaskLess ==
  ASSUME TwinOK, NEW s \in Sites, NEW i \in DOMAIN tasks[s], TaskOver(s, i)
  PROVE  /\ tasks' \in [Sites -> Seq(TwinTasks)] /\ tasks'[Other(s)] = tasks[Other(s)]
         /\ tasks'[s] = Without(tasks[s], i) /\ Dropped(tasks[s], i, tasks'[s])
         /\ up[s]
PROOF
<1>1. tasks \in [Sites -> Seq(TwinTasks)] /\ Other(s) # s /\ Other(s) \in Sites
  BY TwoSites DEF TwinOK, TwinQueuesOK
<1>2. Without(tasks[s], i) \in Seq(TwinTasks) /\ Dropped(tasks[s], i, Without(tasks[s], i))
  BY <1>1, WithoutDrops
<1>3. tasks' = [tasks EXCEPT ![s] = Without(tasks[s], i)]
  BY DEF TaskOver, Without
<1>4. tasks[s] # <<>>
  BY <1>1
<1> QED
  BY <1>1, <1>2, <1>3, <1>4 DEF TwinOK, TwinIdleOK

\* The changes that users make.
LEMMA UserPutOK ==
  ASSUME TwinOK, NEW s \in Sites, NEW size \in ObjectSizes, UserPut(s, size)
  PROVE  /\ TwinOK' /\ latest' \in TwinObjects /\ latest'.content = userChanges + 1
         /\ latest'.size = size /\ latest'.origin = 0 /\ latest'.time >= clock + 1
         /\ latest'.time = clock' + (IF s = "A" THEN skew ELSE 0) /\ clock' = clock + 1
         /\ PutEvent(latest') \in TwinEvents /\ Announce(s, PutEvent(latest'))
         /\ site' = [site EXCEPT ![s] = latest']
         /\ UNCHANGED <<up, comparing, listed, tasks>>
PROOF
<1>1. /\ skew \in Nat /\ clock \in Nat /\ userChanges \in 0..MaxUserChanges
      /\ MaxUserChanges \in Nat /\ size \in Nat /\ size \in TwinSizes
  BY TwinAssumption DEF TwinOK, TwinNumbersOK, TwinSizes
<1>2. /\ userChanges' = userChanges + 1 /\ userChanges + skew < MaxUserChanges /\ clock' = clock + 1
      /\ latest' = [content |-> userChanges', size |-> size, time |-> TimeAt(s), origin |-> 0]
      /\ site' = [site EXCEPT ![s] = latest'] /\ Announce(s, PutEvent(latest'))
      /\ UNCHANGED <<skew, withMetadata, up, comparing, listed, tasks, mirrorStarts, echoes, copies>>
      /\ clash' \subseteq clash \cup {"change"}
  BY DEF UserPut, Clash
<1>3. /\ TimeAt(s) \in Nat /\ TimeAt(s) >= clock + 1 /\ TimeAt(s) <= clock' + skew
      /\ TimeAt(s) = clock' + (IF s = "A" THEN skew ELSE 0)
  BY <1>1, <1>2 DEF TimeAt
<1>4. userChanges' \in 1..MaxUserChanges
  BY <1>1, <1>2
<1>5. latest' \in TwinObjects /\ latest'.content = userChanges' /\ latest'.time = TimeAt(s)
  BY <1>1, <1>2, <1>3, <1>4 DEF TwinObjects
<1>6. PutEvent(latest') \in TwinEvents
  <2>1. latest'.content # 0
    BY <1>1, <1>4, <1>5
  <2> QED
    BY <1>5, <2>1, TwinData
<1>7. TwinSitesOK'
  <2>1. site' \in [Sites -> TwinObjects]
    BY <1>2, <1>5 DEF TwinOK, TwinSitesOK
  <2>2. ASSUME NEW x \in Sites PROVE site'[x].time <= clock' + skew' /\ site'[x].content <= userChanges'
    <3>1. CASE x = s
      BY <1>1, <1>2, <1>3, <1>4, <1>5, <3>1 DEF TwinOK, TwinSitesOK
    <3>2. CASE x # s
      <4>1. site'[x] = site[x] /\ site[x] \in TwinObjects
        BY <1>2, <3>2 DEF TwinOK, TwinSitesOK
      <4>2. site[x].time \in Nat /\ site[x].content \in 0..MaxUserChanges
        BY <4>1 DEF TwinObjects
      <4>3. site[x].time <= clock + skew /\ site[x].content <= userChanges
        BY DEF TwinOK, TwinSitesOK
      <4> QED
        BY <1>1, <1>2, <4>1, <4>2, <4>3
    <3> QED
      BY <3>1, <3>2
  <2> QED
    BY <1>5, <2>1, <2>2 DEF TwinSitesOK
<1>8. TwinQueuesOK'
  BY <1>2, <1>6, Announced DEF TwinOK, TwinQueuesOK
<1>9. TwinListedOK' /\ TwinFlagsOK'
  BY <1>2 DEF TwinOK, TwinListedOK, TwinFlagsOK
<1>10. TwinNumbersOK'
  BY <1>1, <1>2, <1>4 DEF TwinOK, TwinNumbersOK
<1>11. TwinIdleOK'
  <2>1. heard'[Other(s)] = heard[Other(s)] /\ (~up[s] => heard'[s] = heard[s])
    BY <1>2, <1>6, Announced
  <2> QED
    BY <1>2, <2>1, TwoSites DEF TwinOK, TwinIdleOK
<1> QED
  BY <1>2, <1>3, <1>5, <1>6, <1>7, <1>8, <1>9, <1>10, <1>11 DEF TwinOK

LEMMA UserDeleteOK ==
  ASSUME TwinOK, NEW s \in Sites, UserDelete(s)
  PROVE  /\ TwinOK' /\ latest' = NoObject /\ site' = [site EXCEPT ![s] = NoObject]
         /\ DeleteEvent(FALSE) \in TwinEvents /\ Announce(s, DeleteEvent(FALSE))
         /\ UNCHANGED <<up, comparing, listed, tasks>>
PROOF
<1>1. /\ skew \in Nat /\ clock \in Nat /\ userChanges \in 0..MaxUserChanges
      /\ MaxUserChanges \in Nat
  BY TwinAssumption DEF TwinOK, TwinNumbersOK
<1>2. /\ userChanges' = userChanges + 1 /\ userChanges + skew < MaxUserChanges /\ clock' = clock + 1
      /\ latest' = NoObject
      /\ site' = [site EXCEPT ![s] = NoObject] /\ Announce(s, DeleteEvent(FALSE))
      /\ UNCHANGED <<skew, withMetadata, up, comparing, listed, tasks, mirrorStarts, echoes, copies>>
      /\ clash' \subseteq clash \cup {"deletion"}
  BY DEF UserDelete, Clash
<1>3. NoObject \in TwinObjects /\ DeleteEvent(FALSE) \in TwinEvents
  BY TwinData
<1>4. userChanges' \in 1..MaxUserChanges
  BY <1>1, <1>2
<1>5. /\ heard' \in [Sites -> Seq(TwinEvents)]
      /\ heard'[Other(s)] = heard[Other(s)] /\ (~up[s] => heard'[s] = heard[s])
  BY <1>2, <1>3, Announced
<1>7. TwinSitesOK'
  <2>1. site' \in [Sites -> TwinObjects]
    BY <1>2, <1>3 DEF TwinOK, TwinSitesOK
  <2>2. ASSUME NEW x \in Sites PROVE site'[x].time <= clock' + skew' /\ site'[x].content <= userChanges'
    <3>1. CASE x = s
      BY <1>1, <1>2, <1>4, <3>1 DEF TwinOK, TwinSitesOK, NoObject
    <3>2. CASE x # s
      <4>1. site'[x] = site[x] /\ site[x] \in TwinObjects
        BY <1>2, <3>2 DEF TwinOK, TwinSitesOK
      <4>2. site[x].time \in Nat /\ site[x].content \in 0..MaxUserChanges
        BY <4>1 DEF TwinObjects
      <4>3. site[x].time <= clock + skew /\ site[x].content <= userChanges
        BY DEF TwinOK, TwinSitesOK
      <4> QED
        BY <1>1, <1>2, <4>1, <4>2, <4>3
    <3> QED
      BY <3>1, <3>2
  <2> QED
    BY <1>2, <1>3, <2>1, <2>2 DEF TwinSitesOK
<1>8. TwinQueuesOK'
  BY <1>2, <1>5 DEF TwinOK, TwinQueuesOK
<1>9. TwinListedOK' /\ TwinFlagsOK'
  BY <1>2 DEF TwinOK, TwinListedOK, TwinFlagsOK
<1>10. TwinNumbersOK'
  BY <1>1, <1>2, <1>4 DEF TwinOK, TwinNumbersOK
<1>11. TwinIdleOK'
  BY <1>2, <1>5, TwoSites DEF TwinOK, TwinIdleOK
<1> QED
  BY <1>2, <1>3, <1>7, <1>8, <1>9, <1>10, <1>11 DEF TwinOK

\* Mirrors come and go.
LEMMA ComeAndGoOK ==
  ASSUME TwinOK, NEW s \in Sites, StartTwin(s) \/ StopTwin(s) PROVE TwinOK'
PROOF
<1>1. /\ UNCHANGED <<skew, withMetadata, site, clock, latest, userChanges, echoes, copies>>
      /\ clash' \subseteq clash \cup {"deletion"}
      /\ mirrorStarts' = mirrorStarts \/ mirrorStarts' = mirrorStarts + 1
  BY DEF StartTwin, StopTwin, counters, Clash
<1>b. \E b \in BOOLEAN : up' = [up EXCEPT ![s] = b] /\ comparing' = [comparing EXCEPT ![s] = b]
  <2>1. CASE StartTwin(s)
    BY <2>1 DEF StartTwin
  <2>2. CASE StopTwin(s)
    BY <2>2 DEF StopTwin
  <2> QED
    BY <2>1, <2>2
<1>2. /\ heard' = heard \/ (heard' = [heard EXCEPT ![s] = <<>>])
      /\ tasks' = tasks \/ (tasks' = [tasks EXCEPT ![s] = <<>>])
      /\ listed' = listed \/ (listed' = [listed EXCEPT ![s] = <<>>])
  BY DEF StartTwin, StopTwin
<1>3. TwinSitesOK' /\ TwinNumbersOK'
  <2>1. TwinSitesOK'
    BY <1>1 DEF TwinOK, TwinSitesOK
  <2>2. TwinNumbersOK'
    BY <1>1 DEF TwinOK, TwinNumbersOK
  <2> QED
    BY <2>1, <2>2
<1>4. TwinQueuesOK'
  <2>1. <<>> \in Seq(TwinEvents) /\ <<>> \in Seq(TwinTasks)
    OBVIOUS
  <2>2. heard \in [Sites -> Seq(TwinEvents)] /\ tasks \in [Sites -> Seq(TwinTasks)]
    BY DEF TwinOK, TwinQueuesOK
  <2>3. heard' \in [Sites -> Seq(TwinEvents)]
    BY <1>2, <2>1, <2>2
  <2>4. tasks' \in [Sites -> Seq(TwinTasks)]
    BY <1>2, <2>1, <2>2
  <2> QED
    BY <2>3, <2>4 DEF TwinQueuesOK
<1>5. TwinListedOK'
  <2>1. <<>> \in TwinListings
    <3>1. <<>> \in [{} -> TwinObjects]
      OBVIOUS
    <3> QED
      BY <3>1 DEF TwinListings
  <2> QED
    BY <1>2, <2>1 DEF TwinOK, TwinListedOK
<1>6. TwinFlagsOK'
  BY <1>1, <1>b DEF TwinOK, TwinFlagsOK
<1>7. TwinIdleOK'
  <2>1. CASE StartTwin(s)
    <3>1. /\ up' = [up EXCEPT ![s] = TRUE] /\ comparing' = [comparing EXCEPT ![s] = TRUE]
          /\ UNCHANGED <<heard, tasks, listed>>
      BY <2>1 DEF StartTwin
    <3>2. ASSUME NEW x \in Sites
          PROVE  /\ ~up'[x] => ~comparing'[x] /\ heard'[x] = <<>> /\ tasks'[x] = <<>>
                 /\ ~comparing'[x] => listed'[x] = <<>>
      BY <3>1 DEF TwinOK, TwinIdleOK, TwinFlagsOK
    <3> QED
      BY <3>2 DEF TwinIdleOK
  <2>2. CASE StopTwin(s)
    <3>1. /\ up' = [up EXCEPT ![s] = FALSE] /\ comparing' = [comparing EXCEPT ![s] = FALSE]
          /\ heard' = [heard EXCEPT ![s] = <<>>] /\ tasks' = [tasks EXCEPT ![s] = <<>>]
          /\ listed' = [listed EXCEPT ![s] = <<>>]
      BY <2>2 DEF StopTwin
    <3>2. ASSUME NEW x \in Sites
          PROVE  /\ ~up'[x] => ~comparing'[x] /\ heard'[x] = <<>> /\ tasks'[x] = <<>>
                 /\ ~comparing'[x] => listed'[x] = <<>>
      BY <3>1 DEF TwinOK, TwinIdleOK, TwinFlagsOK, TwinQueuesOK, TwinListedOK
    <3> QED
      BY <3>2 DEF TwinIdleOK
  <2> QED
    BY <2>1, <2>2
<1> QED
  BY <1>3, <1>4, <1>5, <1>6, <1>7 DEF TwinOK

\* A mirror lists a site.
LEMMA ListSideOK ==
  ASSUME TwinOK, NEW s \in Sites, NEW side \in Sites, ListSide(s, side)
  PROVE  /\ TwinOK' /\ comparing[s]
         /\ UNCHANGED <<skew, withMetadata, site, clock, latest, up, heard, comparing, tasks,
                        counters, clash>>
         /\ listed'[Other(s)] = listed[Other(s)] /\ DOMAIN listed'[s] = DOMAIN listed[s] \cup {side}
         /\ \A x \in DOMAIN listed'[s] :
              listed'[s][x] = IF x = side THEN site[side] ELSE listed[s][x]
PROOF
<1>1. UNCHANGED <<skew, withMetadata, site, clock, latest, up, heard, comparing, tasks,
                  counters, clash>>
  BY DEF ListSide
<1>2. /\ comparing[s]
      /\ listed' = [listed EXCEPT ![s] = [x \in DOMAIN listed[s] \cup {side} |->
                                           IF x = side THEN site[side] ELSE listed[s][x]]]
  BY DEF ListSide
<1>3. listed \in [Sites -> TwinListings] /\ site[side] \in TwinObjects /\ listed[s] \in TwinListings
  BY DEF TwinOK, TwinListedOK, TwinSitesOK
<1> DEFINE f == [x \in DOMAIN listed[s] \cup {side} |->
                   IF x = side THEN site[side] ELSE listed[s][x]]
<1>4. f \in TwinListings
  <2>1. PICK D \in SUBSET Sites : listed[s] \in [D -> TwinObjects]
    BY <1>3 DEF TwinListings
  <2>2. f \in [D \cup {side} -> TwinObjects]
    BY <1>3, <2>1
  <2> QED
    BY <2>2 DEF TwinListings
<1>5. /\ DOMAIN f = DOMAIN listed[s] \cup {side}
      /\ \A x \in DOMAIN f : f[x] = IF x = side THEN site[side] ELSE listed[s][x]
  OBVIOUS
<1>6. listed' = [listed EXCEPT ![s] = f]
  BY <1>2
<1> HIDE DEF f
<1>7. listed' \in [Sites -> TwinListings] /\ listed'[s] = f /\ listed'[Other(s)] = listed[Other(s)]
      /\ \A x \in Sites : x # s => listed'[x] = listed[x]
  BY <1>3, <1>4, <1>6, TwoSites
<1>8. TwinSitesOK' /\ TwinQueuesOK' /\ TwinNumbersOK'
  BY <1>1 DEF TwinOK, TwinSitesOK, TwinQueuesOK, TwinNumbersOK, counters
<1>9. TwinFlagsOK'
  BY <1>1 DEF TwinOK, TwinFlagsOK
<1>10. TwinListedOK'
  BY <1>7 DEF TwinListedOK
<1>11. TwinIdleOK'
  BY <1>1, <1>2, <1>7 DEF TwinOK, TwinIdleOK
<1> QED
  BY <1>1, <1>2, <1>5, <1>7, <1>8, <1>9, <1>10, <1>11 DEF TwinOK

\* A mirror compares the two listings.
LEMMA CompareOK ==
  ASSUME TwinOK, NEW s \in Sites, CompareSides(s)
  PROVE  /\ TwinOK' /\ comparing[s] /\ up[s] /\ DOMAIN listed[s] = Sites
         /\ UNCHANGED <<skew, withMetadata, site, clock, latest, up, heard, counters>>
         /\ comparing' = [comparing EXCEPT ![s] = FALSE]
         /\ listed' = [listed EXCEPT ![s] = <<>>]
         /\ tasks'[Other(s)] = tasks[Other(s)]
         /\ \/ tasks' = tasks
            \/ /\ tasks'[s] = Append(tasks[s], CopyTask([listed[s][s] EXCEPT !.origin = 0]))
               /\ CopyTask([listed[s][s] EXCEPT !.origin = 0]) \in TwinTasks
PROOF
<1>1. /\ UNCHANGED <<skew, withMetadata, site, clock, latest, up, heard, counters>>
      /\ comparing[s] /\ DOMAIN listed[s] = Sites
      /\ comparing' = [comparing EXCEPT ![s] = FALSE]
      /\ listed' = [listed EXCEPT ![s] = <<>>]
      /\ clash' \subseteq clash \cup {"size"}
  BY DEF CompareSides, Clash
<1> DEFINE t == CopyTask([listed[s][s] EXCEPT !.origin = 0])
<1>2. \/ tasks' = tasks
      \/ listed[s][s].content # 0 /\ tasks' = [tasks EXCEPT ![s] = Append(tasks[s], t)]
  BY DEF CompareSides
<1>3. up[s]
  BY <1>1 DEF TwinOK, TwinIdleOK
<1>4. listed[s][s] \in TwinObjects
  <2>1. listed[s] \in TwinListings /\ s \in DOMAIN listed[s]
    BY <1>1 DEF TwinOK, TwinListedOK
  <2> QED
    BY <2>1 DEF TwinListings
<1>5. listed[s][s].content # 0 => t \in TwinTasks
  BY <1>4, TwinData
<1> HIDE DEF t
<1>6. tasks \in [Sites -> Seq(TwinTasks)] /\ Other(s) \in Sites /\ Other(s) # s
  BY TwoSites DEF TwinOK, TwinQueuesOK
<1>7. /\ tasks' \in [Sites -> Seq(TwinTasks)] /\ \A x \in Sites : x # s => tasks'[x] = tasks[x]
      /\ tasks' = tasks \/ (tasks'[s] = Append(tasks[s], t) /\ t \in TwinTasks)
  <2>1. t \in TwinTasks => Append(tasks[s], t) \in Seq(TwinTasks)
    BY <1>6, AppendedAt
  <2> QED
    BY <1>2, <1>5, <1>6, <2>1
<1>8. TwinListedOK' /\ \A x \in Sites : listed'[x] = IF x = s THEN <<>> ELSE listed[x]
  <2>1. <<>> \in TwinListings
    <3>1. <<>> \in [{} -> TwinObjects]
      OBVIOUS
    <3> QED
      BY <3>1 DEF TwinListings
  <2> QED
    BY <1>1, <2>1 DEF TwinOK, TwinListedOK
<1>9. TwinSitesOK' /\ TwinQueuesOK'
  <2>1. TwinSitesOK'
    BY <1>1 DEF TwinOK, TwinSitesOK, counters
  <2>2. heard' \in [Sites -> Seq(TwinEvents)]
    BY <1>1 DEF TwinOK, TwinQueuesOK
  <2> QED
    BY <1>7, <2>1, <2>2 DEF TwinQueuesOK
<1>10. TwinNumbersOK'
  BY <1>1 DEF TwinOK, TwinNumbersOK, counters
<1>11. TwinFlagsOK'
  BY <1>1 DEF TwinOK, TwinFlagsOK
<1>12. TwinIdleOK'
  <2>1. ASSUME NEW x \in Sites
        PROVE  /\ ~up'[x] => ~comparing'[x] /\ heard'[x] = <<>> /\ tasks'[x] = <<>>
               /\ ~comparing'[x] => listed'[x] = <<>>
    BY <1>1, <1>3, <1>7, <1>8 DEF TwinOK, TwinIdleOK, TwinFlagsOK
  <2> QED
    BY <2>1 DEF TwinIdleOK
<1> QED
  BY <1>1, <1>3, <1>6, <1>7, <1>8, <1>9, <1>10, <1>11, <1>12 DEF TwinOK, t

\* A mirror hears an event.
LEMMA HearEventOK ==
  ASSUME TwinOK, NEW s \in Sites, HearEvent(s)
  PROVE  /\ TwinOK' /\ up[s]
         /\ UNCHANGED <<skew, withMetadata, site, clock, latest, up, comparing, listed,
                        userChanges, mirrorStarts, copies>>
         /\ heard[s] \in Seq(TwinEvents) /\ heard[s] # <<>> /\ Head(heard[s]) \in TwinEvents
         /\ heard'[s] = Tail(heard[s]) /\ heard'[Other(s)] = heard[Other(s)]
         /\ tasks'[Other(s)] = tasks[Other(s)]
         /\ echoes' = IF Head(heard[s]).kind = "parts" /\ Head(heard[s]).origin # 0
                      THEN echoes + 1 ELSE echoes
         /\ Head(heard[s]).kind = "parts" /\ Head(heard[s]).origin # 0 => clash' # {}
         /\ ~Takes(Head(heard[s])) => tasks' = tasks
         /\ Takes(Head(heard[s])) =>
              LET t == IF Head(heard[s]).kind = "delete" THEN RemoveTask ELSE CopyTask(Head(heard[s]))
              IN t \in TwinTasks /\ tasks'[s] = Append(tasks[s], t)
PROOF
<1> DEFINE e == Head(heard[s])
           t == IF e.kind = "delete" THEN RemoveTask ELSE CopyTask(e)
           echo == e.kind = "parts" /\ e.origin # 0
<1>1. /\ UNCHANGED <<skew, withMetadata, site, clock, latest, up, comparing, listed, userChanges,
                     mirrorStarts, copies>>
      /\ heard[s] # <<>> /\ heard' = [heard EXCEPT ![s] = Tail(heard[s])]
      /\ clash' \subseteq clash \cup {"parts"}
      /\ echo => clash' # {}
      /\ echo => echoes < MaxEchoes
      /\ echoes' = IF echo THEN echoes + 1 ELSE echoes
      /\ tasks' = IF ~Takes(e) THEN tasks ELSE [tasks EXCEPT ![s] = Append(tasks[s], t)]
  BY DEF HearEvent, Clash
<1>2. heard \in [Sites -> Seq(TwinEvents)] /\ tasks \in [Sites -> Seq(TwinTasks)]
      /\ Other(s) \in Sites /\ Other(s) # s
  BY TwoSites DEF TwinOK, TwinQueuesOK
<1>3. e \in TwinEvents /\ Tail(heard[s]) \in Seq(TwinEvents)
  BY <1>1, <1>2, HeadTaken
<1>4. Takes(e) => t \in TwinTasks
  <2>1. e.kind \in {"put", "parts", "delete", "mirror"}
    BY <1>3 DEF TwinEvents
  <2> QED
    BY <1>3, <2>1, TwinData DEF Takes
<1>5. up[s]
  BY <1>1 DEF TwinOK, TwinIdleOK
<1> HIDE DEF t
<1>6. /\ tasks' \in [Sites -> Seq(TwinTasks)] /\ \A x \in Sites : x # s => tasks'[x] = tasks[x]
      /\ Takes(e) => tasks'[s] = Append(tasks[s], t)
  <2>1. t \in TwinTasks => Append(tasks[s], t) \in Seq(TwinTasks)
    BY <1>2, AppendedAt
  <2> QED
    BY <1>1, <1>2, <1>4, <2>1
<1>7. /\ heard' \in [Sites -> Seq(TwinEvents)] /\ heard'[s] = Tail(heard[s])
      /\ \A x \in Sites : x # s => heard'[x] = heard[x]
  BY <1>1, <1>2, <1>3
<1>8. TwinSitesOK' /\ TwinQueuesOK' /\ TwinListedOK'
  BY <1>1, <1>6, <1>7 DEF TwinOK, TwinSitesOK, TwinQueuesOK, TwinListedOK
<1>9. TwinNumbersOK'
  <2>1. echoes \in 0..MaxEchoes /\ MaxEchoes \in Nat
    BY TwinAssumption DEF TwinOK, TwinNumbersOK
  <2>2. echoes' \in 0..MaxEchoes
    BY <1>1, <2>1
  <2> QED
    BY <1>1, <2>2 DEF TwinOK, TwinNumbersOK
<1>10. TwinFlagsOK'
  BY <1>1 DEF TwinOK, TwinFlagsOK
<1>11. TwinIdleOK'
  <2>1. ASSUME NEW x \in Sites
        PROVE  /\ ~up'[x] => ~comparing'[x] /\ heard'[x] = <<>> /\ tasks'[x] = <<>>
               /\ ~comparing'[x] => listed'[x] = <<>>
    BY <1>1, <1>5, <1>6, <1>7 DEF TwinOK, TwinIdleOK
  <2> QED
    BY <2>1 DEF TwinIdleOK
<1> QED
  BY <1>1, <1>2, <1>3, <1>4, <1>5, <1>6, <1>7, <1>8, <1>9, <1>10, <1>11 DEF TwinOK, t

\* A task copies what the source holds, and as much as it says.
TwinCopy(s, t) ==
  [content |-> site[s].content, size |-> t.size, time |-> TimeAt(Other(s)),
   origin |-> IF t.origin # 0 THEN t.origin ELSE t.time]

LEMMA CopyObjectOK ==
  ASSUME TwinOK, NEW s \in Sites, NEW i \in DOMAIN tasks[s], CopyObject(s, i)
  PROVE  /\ TwinOK'
         /\ UNCHANGED <<skew, withMetadata, latest, up, comparing, listed, userChanges,
                        mirrorStarts, echoes, clash>>
         /\ tasks[s] \in Seq(TwinTasks) /\ tasks[s][i] \in TwinTasks /\ tasks[s][i].kind = "copy"
         /\ Dropped(tasks[s], i, tasks'[s]) /\ tasks'[Other(s)] = tasks[Other(s)]
         /\ \/ UNCHANGED <<site, clock, heard, copies>>
               /\ (site[s].content = 0 \/ site[s].size < tasks[s][i].size)
            \/ /\ clock' = clock + 1 /\ copies' = copies + 1
               /\ site' = [site EXCEPT ![Other(s)] = TwinCopy(s, tasks[s][i])]
               /\ TwinCopy(s, tasks[s][i]) \in TwinObjects
               /\ site[s].content # 0
               /\ Announce(Other(s), PutEvent(TwinCopy(s, tasks[s][i])))
               /\ PutEvent(TwinCopy(s, tasks[s][i])) \in TwinEvents
               /\ PutEvent(TwinCopy(s, tasks[s][i])).origin # 0
PROOF
<1> DEFINE t == tasks[s][i]
           c == TwinCopy(s, t)
<1>1. /\ UNCHANGED <<skew, withMetadata, latest, up, comparing, listed, userChanges,
                     mirrorStarts, echoes, clash>>
      /\ t.kind = "copy" /\ TaskOver(s, i)
      /\ IF site[s].content = 0 \/ site[s].size < t.size
         THEN UNCHANGED <<site, clock, heard, copies>>
         ELSE /\ clock' = clock + 1 /\ copies' = copies + 1
              /\ site' = [site EXCEPT ![Other(s)] = c]
              /\ Announce(Other(s), PutEvent(c))
  BY DEF CopyObject, TwinCopy
<1>2. /\ tasks' \in [Sites -> Seq(TwinTasks)] /\ tasks'[Other(s)] = tasks[Other(s)]
      /\ Dropped(tasks[s], i, tasks'[s]) /\ up[s]
  BY <1>1, OneTaskLess
<1>3. tasks[s] \in Seq(TwinTasks) /\ t \in TwinTasks
  BY DEF TwinOK, TwinQueuesOK
<1>4. /\ t.size \in TwinSizes /\ t.time \in Nat /\ t.time >= 1 /\ t.origin \in Nat
  BY <1>1, <1>3 DEF TwinTasks
<1>5. /\ site[s] \in TwinObjects /\ site[s].content \in 0..MaxUserChanges /\ Other(s) \in Sites
      /\ Other(Other(s)) = s /\ Other(s) # s
  BY TwoSites DEF TwinOK, TwinSitesOK, TwinObjects
<1>6. skew \in Nat /\ clock \in Nat
  BY DEF TwinOK, TwinNumbersOK
<1>7. CASE ~(site[s].content = 0 \/ site[s].size < t.size)
  <2>1. clock' = clock + 1
    BY <1>1, <1>7
  <2>2. TimeAt(Other(s)) \in Nat /\ TimeAt(Other(s)) >= 1 /\ TimeAt(Other(s)) <= clock' + skew
    BY <1>6, <2>1 DEF TimeAt
  <2>3. c \in TwinObjects /\ c.content # 0 /\ c.time = TimeAt(Other(s)) /\ c.content = site[s].content
    BY <1>4, <1>5, <1>7, <2>2 DEF TwinObjects, TwinCopy
  <2>4. PutEvent(c) \in TwinEvents
    BY <2>3, TwinData
  <2>5. PutEvent(c).origin # 0
    BY <1>4 DEF PutEvent, TwinCopy
  <2> HIDE DEF c
  <2>6. /\ copies' = copies + 1 /\ site' = [site EXCEPT ![Other(s)] = c]
        /\ Announce(Other(s), PutEvent(c))
    BY <1>1, <1>7
  <2>7. /\ heard' \in [Sites -> Seq(TwinEvents)] /\ heard'[s] = heard[s]
        /\ ~up[Other(s)] => heard'[Other(s)] = heard[Other(s)]
    BY <1>5, <2>4, <2>6, Announced
  <2>8. TwinSitesOK'
    <3>1. site' \in [Sites -> TwinObjects] /\ latest' \in TwinObjects
      BY <1>1, <2>3, <2>6 DEF TwinOK, TwinSitesOK
    <3>2. ASSUME NEW x \in Sites
          PROVE  site'[x].time <= clock' + skew' /\ site'[x].content <= userChanges'
      <4>1. site[x].time <= clock + skew /\ site[x].content <= userChanges
            /\ site[s].content <= userChanges /\ site[x] \in TwinObjects
        BY DEF TwinOK, TwinSitesOK
      <4>2. site[x].time \in Nat
        BY <4>1 DEF TwinObjects
      <4>3. CASE x = Other(s)
        <5>1. site'[x] = c
          BY <2>6, <4>3 DEF TwinOK, TwinSitesOK
        <5> QED
          BY <1>1, <2>2, <2>3, <4>1, <5>1
      <4>4. CASE x # Other(s)
        <5>1. site'[x] = site[x]
          BY <2>6, <4>4 DEF TwinOK, TwinSitesOK
        <5> QED
          BY <1>1, <1>6, <2>1, <4>1, <4>2, <5>1
      <4> QED
        BY <4>3, <4>4
    <3> QED
      BY <3>1, <3>2 DEF TwinSitesOK
  <2>9. TwinQueuesOK' /\ TwinListedOK'
    BY <1>1, <1>2, <2>7 DEF TwinOK, TwinQueuesOK, TwinListedOK
  <2>10. TwinNumbersOK'
    BY <1>1, <2>1, <2>6 DEF TwinOK, TwinNumbersOK
  <2>11. TwinFlagsOK'
    BY <1>1 DEF TwinOK, TwinFlagsOK
  <2>12. TwinIdleOK'
    <3>1. ASSUME NEW x \in Sites
          PROVE  /\ ~up'[x] => ~comparing'[x] /\ heard'[x] = <<>> /\ tasks'[x] = <<>>
                 /\ ~comparing'[x] => listed'[x] = <<>>
      BY <1>1, <1>2, <2>7, TwoSites DEF TwinOK, TwinIdleOK
    <3> QED
      BY <3>1 DEF TwinIdleOK
  <2>13. TwinOK'
    BY <2>8, <2>9, <2>10, <2>11, <2>12 DEF TwinOK
  <2> QED
    BY <1>1, <1>2, <1>3, <1>7, <2>1, <2>3, <2>4, <2>5, <2>6, <2>13 DEF c
<1>8. CASE site[s].content = 0 \/ site[s].size < t.size
  <2>1. UNCHANGED <<site, clock, heard, copies>>
    BY <1>1, <1>8
  <2>2. TwinSitesOK'
    BY <1>1, <2>1 DEF TwinOK, TwinSitesOK
  <2>3. TwinQueuesOK' /\ TwinListedOK'
    BY <1>1, <1>2, <2>1 DEF TwinOK, TwinQueuesOK, TwinListedOK
  <2>4. TwinNumbersOK'
    BY <1>1, <2>1 DEF TwinOK, TwinNumbersOK
  <2>5. TwinFlagsOK'
    BY <1>1 DEF TwinOK, TwinFlagsOK
  <2>6. TwinIdleOK'
    <3>1. ASSUME NEW x \in Sites
          PROVE  /\ ~up'[x] => ~comparing'[x] /\ heard'[x] = <<>> /\ tasks'[x] = <<>>
                 /\ ~comparing'[x] => listed'[x] = <<>>
      BY <1>1, <1>2, <2>1, TwoSites DEF TwinOK, TwinIdleOK
    <3> QED
      BY <3>1 DEF TwinIdleOK
  <2>7. TwinOK'
    BY <2>2, <2>3, <2>4, <2>5, <2>6 DEF TwinOK
  <2> QED
    BY <1>1, <1>2, <1>3, <1>8, <2>1, <2>7
<1> QED
  BY <1>7, <1>8

\* A task removes.
LEMMA RemoveObjectOK ==
  ASSUME TwinOK, NEW s \in Sites, NEW i \in DOMAIN tasks[s], RemoveObject(s, i)
  PROVE  /\ TwinOK'
         /\ UNCHANGED <<skew, withMetadata, clock, latest, up, comparing, listed, counters, clash>>
         /\ tasks[s] \in Seq(TwinTasks) /\ tasks[s][i].kind = "remove"
         /\ Dropped(tasks[s], i, tasks'[s]) /\ tasks'[Other(s)] = tasks[Other(s)]
         /\ site' = [site EXCEPT ![Other(s)] = NoObject]
         /\ DeleteEvent(TRUE) \in TwinEvents /\ Announce(Other(s), DeleteEvent(TRUE))
PROOF
<1>1. /\ UNCHANGED <<skew, withMetadata, clock, latest, up, comparing, listed, counters, clash>>
      /\ tasks[s][i].kind = "remove" /\ TaskOver(s, i)
      /\ site' = [site EXCEPT ![Other(s)] = NoObject] /\ Announce(Other(s), DeleteEvent(TRUE))
  BY DEF RemoveObject
<1>2. /\ tasks' \in [Sites -> Seq(TwinTasks)] /\ tasks'[Other(s)] = tasks[Other(s)]
      /\ Dropped(tasks[s], i, tasks'[s]) /\ up[s]
  BY <1>1, OneTaskLess
<1>3. tasks[s] \in Seq(TwinTasks)
  BY DEF TwinOK, TwinQueuesOK
<1>4. NoObject \in TwinObjects /\ DeleteEvent(TRUE) \in TwinEvents
  BY TwinData
<1>5. Other(s) \in Sites /\ Other(Other(s)) = s /\ Other(s) # s
  BY TwoSites
<1>6. /\ heard' \in [Sites -> Seq(TwinEvents)] /\ heard'[s] = heard[s]
      /\ ~up[Other(s)] => heard'[Other(s)] = heard[Other(s)]
  BY <1>1, <1>4, <1>5, Announced
<1>7. TwinSitesOK'
  <2>1. site' \in [Sites -> TwinObjects] /\ latest' \in TwinObjects
    BY <1>1, <1>4 DEF TwinOK, TwinSitesOK
  <2>2. ASSUME NEW x \in Sites
        PROVE  site'[x].time <= clock' + skew' /\ site'[x].content <= userChanges'
    <3>1. site'[x] = site[x] \/ (site'[x].time = 0 /\ site'[x].content = 0)
      BY <1>1 DEF TwinOK, TwinSitesOK, NoObject
    <3> QED
      BY <1>1, <3>1 DEF TwinOK, TwinSitesOK, TwinNumbersOK, counters
  <2> QED
    BY <2>1, <2>2 DEF TwinSitesOK
<1>8. TwinQueuesOK' /\ TwinListedOK'
  BY <1>1, <1>2, <1>6 DEF TwinOK, TwinQueuesOK, TwinListedOK
<1>9. TwinNumbersOK'
  BY <1>1 DEF TwinOK, TwinNumbersOK, counters
<1>10. TwinFlagsOK'
  BY <1>1 DEF TwinOK, TwinFlagsOK
<1>11. TwinIdleOK'
  <2>1. ASSUME NEW x \in Sites
        PROVE  /\ ~up'[x] => ~comparing'[x] /\ heard'[x] = <<>> /\ tasks'[x] = <<>>
               /\ ~comparing'[x] => listed'[x] = <<>>
    BY <1>1, <1>2, <1>6, TwoSites DEF TwinOK, TwinIdleOK
  <2> QED
    BY <2>1 DEF TwinIdleOK
<1> QED
  BY <1>1, <1>2, <1>3, <1>4, <1>7, <1>8, <1>9, <1>10, <1>11 DEF TwinOK

LEMMA TwinInitOK == TwinInit => TwinOK
PROOF
<1> SUFFICES ASSUME TwinInit PROVE TwinOK
  OBVIOUS
<1>1. NoObject \in TwinObjects
  BY TwinData
<1>2. TwinSitesOK /\ TwinNumbersOK
  <2>1. skew \in Nat /\ clock = 0 /\ userChanges = 0 /\ MaxUserChanges \in Nat /\ MaxEchoes \in Nat
    BY TwinAssumption DEF TwinInit
  <2>2. \A s \in Sites : site[s] = NoObject
    BY DEF TwinInit
  <2> QED
    BY <1>1, <2>1, <2>2 DEF TwinInit, TwinSitesOK, TwinNumbersOK, NoObject
<1>3. TwinQueuesOK
  <2>1. <<>> \in Seq(TwinEvents) /\ <<>> \in Seq(TwinTasks)
    OBVIOUS
  <2> QED
    BY <2>1 DEF TwinInit, TwinQueuesOK
<1>4. TwinListedOK
  <2>1. <<>> \in TwinListings
    <3>1. <<>> \in [{} -> TwinObjects]
      OBVIOUS
    <3> QED
      BY <3>1 DEF TwinListings
  <2> QED
    BY <2>1 DEF TwinInit, TwinListedOK
<1>5. TwinFlagsOK /\ TwinIdleOK
  BY DEF TwinInit, TwinFlagsOK, TwinIdleOK
<1> QED
  BY <1>2, <1>3, <1>4, <1>5 DEF TwinOK

LEMMA TwinStep == TwinOK /\ [TwinNext]_twinVars => TwinOK'
PROOF
<1> SUFFICES ASSUME TwinOK, [TwinNext]_twinVars PROVE TwinOK'
  OBVIOUS
<1>1. CASE UNCHANGED twinVars
  BY <1>1 DEF twinVars, mirrors, counters, TwinOK, TwinSitesOK, TwinQueuesOK, TwinListedOK,
              TwinNumbersOK, TwinFlagsOK, TwinIdleOK
<1>2. ASSUME NEW s \in Sites,
             \/ \E size \in ObjectSizes : UserPut(s, size)
             \/ UserDelete(s) \/ StartTwin(s) \/ StopTwin(s)
             \/ \E side \in Sites : ListSide(s, side)
             \/ CompareSides(s) \/ HearEvent(s)
             \/ \E i \in DOMAIN tasks[s] : CopyObject(s, i) \/ RemoveObject(s, i)
      PROVE  TwinOK'
  <2>1. ASSUME NEW size \in ObjectSizes, UserPut(s, size) PROVE TwinOK'
    BY <2>1, UserPutOK
  <2>2. ASSUME NEW side \in Sites, ListSide(s, side) PROVE TwinOK'
    BY <2>2, ListSideOK
  <2>3. ASSUME NEW i \in DOMAIN tasks[s], CopyObject(s, i) \/ RemoveObject(s, i) PROVE TwinOK'
    BY <2>3, CopyObjectOK, RemoveObjectOK
  <2> QED
    BY <1>2, <2>1, <2>2, <2>3, UserDeleteOK, ComeAndGoOK, CompareOK, HearEventOK
<1> QED
  BY <1>1, <1>2 DEF TwinNext

\* No object is newer than the clock allows, no echo is answered beyond the
\* bound, and a mirror that is not up, or does not compare, has nothing left of
\* when it did: TwinTypeOK.
THEOREM TwinTypeCorrect == TwinSpec => []TwinTypeOK
PROOF
<1>1. TwinOK => TwinTypeOK
  <2> SUFFICES ASSUME TwinOK, NEW s \in Sites
               PROVE  /\ site[s].content \in 0..MaxUserChanges
                      /\ site[s].size \in ObjectSizes \cup {0}
                      /\ site[s].time <= clock + skew
                      /\ ~up[s] => ~comparing[s] /\ <<heard[s], tasks[s]>> = <<<<>>, <<>>>>
                      /\ ~comparing[s] => listed[s] = <<>>
                      /\ echoes <= MaxEchoes /\ clash \subseteq {"change", "deletion", "size", "parts"}
    BY DEF TwinTypeOK, TwinOK, TwinNumbersOK
  <2>1. site[s] \in TwinObjects /\ site[s].time <= clock + skew
    BY DEF TwinOK, TwinSitesOK
  <2>2. site[s].content \in 0..MaxUserChanges /\ site[s].size \in ObjectSizes \cup {0}
    BY <2>1 DEF TwinObjects, TwinSizes
  <2>3. echoes <= MaxEchoes /\ clash \subseteq {"change", "deletion", "size", "parts"}
    BY TwinAssumption DEF TwinOK, TwinNumbersOK
  <2> QED
    BY <2>1, <2>2, <2>3 DEF TwinOK, TwinIdleOK
<1> QED
  BY <1>1, TwinInitOK, TwinStep, PTL DEF TwinSpec

-----------------------------------------------------------------------------
(***************************************************************************)
(* Each copy is owed to a change of a user, a start of a mirror or an echo:*)
(* what a mirror has heard and will copy, its tasks and its comparison are *)
(* copies that are still to be made.                                       *)
(***************************************************************************)
CountIn(q, T) == Cardinality({j \in DOMAIN q : q[j] \in T})

\* A queue counts one less without an element that counts, and as much without
\* another one.
LEMMA CountDropped ==
  ASSUME NEW S, NEW q \in Seq(S), NEW i \in DOMAIN q, NEW r, Dropped(q, i, r), NEW T
  PROVE  /\ CountIn(q, T) \in Nat /\ CountIn(r, T) \in Nat
         /\ CountIn(q, T) = CountIn(r, T) + (IF q[i] \in T THEN 1 ELSE 0)
PROOF
<1> DEFINE D == {j \in DOMAIN q : q[j] \in T}
           E == {j \in DOMAIN r : r[j] \in T}
           C == D \ {i}
           f == [j \in E |-> IF j < i THEN j ELSE j + 1]
<1>1. /\ Len(q) \in Nat /\ DOMAIN q = 1..Len(q) /\ i \in 1..Len(q)
      /\ Len(r) = Len(q) - 1 /\ DOMAIN r = 1..Len(r)
      /\ \A n \in 1..Len(r) : r[n] = IF n < i THEN q[n] ELSE q[n + 1]
  BY DEF Dropped
<1>2. IsFiniteSet(1..Len(q)) /\ IsFiniteSet(1..Len(r))
  <2>1. 1 \in Int /\ Len(q) \in Int /\ Len(r) \in Int
    BY <1>1
  <2> QED
    BY <2>1, FS_Interval
<1>3. IsFiniteSet(D) /\ IsFiniteSet(E) /\ IsFiniteSet(C)
  <2>1. D \subseteq 1..Len(q) /\ E \subseteq 1..Len(r) /\ C \subseteq 1..Len(q)
    BY <1>1
  <2> QED
    BY <1>2, <2>1, FS_Subset
<1>4. Cardinality(D) \in Nat /\ Cardinality(E) \in Nat /\ Cardinality(C) \in Nat
  BY <1>3, FS_CardinalityType
<1>5. f \in Bijection(E, C)
  <2>1. ASSUME NEW j \in E PROVE f[j] \in C
    <3>1. j \in 1..Len(r) /\ r[j] \in T /\ f[j] = IF j < i THEN j ELSE j + 1
      BY <1>1
    <3>2. f[j] \in 1..Len(q) /\ f[j] # i /\ q[f[j]] = r[j]
      BY <1>1, <3>1
    <3> HIDE DEF f
    <3> QED
      BY <1>1, <3>1, <3>2
  <2>2. ASSUME NEW j \in E, NEW k \in E, f[j] = f[k] PROVE j = k
    <3>1. j \in 1..Len(r) /\ k \in 1..Len(r)
      BY <1>1
    <3> QED
      BY <1>1, <2>2, <3>1
  <2>3. ASSUME NEW m \in C PROVE \E j \in E : f[j] = m
    <3>1. m \in 1..Len(q) /\ m # i /\ q[m] \in T
      BY <1>1
    <3>2. CASE m < i
      <4>1. m \in 1..Len(r) /\ r[m] = q[m]
        BY <1>1, <3>1, <3>2
      <4>2. m \in E /\ f[m] = m
        BY <1>1, <3>1, <3>2, <4>1
      <4> QED
        BY <4>2
    <3>3. CASE m > i
      <4>1. m - 1 \in 1..Len(r) /\ ~(m - 1 < i) /\ (m - 1) + 1 = m
        BY <1>1, <3>1, <3>3
      <4>2. r[m - 1] = q[m]
        BY <1>1, <4>1
      <4>3. m - 1 \in E
        BY <1>1, <3>1, <4>1, <4>2
      <4>4. f[m - 1] = m
        BY <4>1, <4>3
      <4> QED
        BY <4>3, <4>4
    <3> QED
      BY <1>1, <3>1, <3>2, <3>3
  <2>4. f \in [E -> C]
    BY <2>1
  <2> HIDE DEF f, E, C
  <2>5. f \in Injection(E, C)
    BY <2>2, <2>4 DEF Injection, IsInjective
  <2>6. f \in Surjection(E, C)
    BY <2>3, <2>4 DEF Surjection
  <2> QED
    BY <2>5, <2>6 DEF Bijection
<1>6. Cardinality(C) = Cardinality(E)
  <2>1. ExistsBijection(E, C)
    BY <1>5 DEF ExistsBijection
  <2> QED
    BY <1>3, <2>1, FS_Bijection
<1>7. Cardinality(D) = Cardinality(C) + (IF q[i] \in T THEN 1 ELSE 0)
  <2>1. CASE q[i] \in T
    <3>1. i \in D
      BY <2>1
    <3> HIDE DEF D
    <3>2. Cardinality(D \ {i}) = Cardinality(D) - 1
      BY <1>3, <3>1, FS_RemoveElement
    <3> QED
      BY <1>4, <2>1, <3>2
  <2>2. CASE q[i] \notin T
    <3>1. C = D
      BY <2>2
    <3> HIDE DEF C, D
    <3> QED
      BY <1>4, <2>2, <3>1
  <2> QED
    BY <2>1, <2>2
<1> HIDE DEF C, f
<1> QED
  BY <1>4, <1>6, <1>7 DEF CountIn

\* ... and one more with one that counts.
LEMMA CountAppended ==
  ASSUME NEW S, NEW q \in Seq(S), NEW x \in S, NEW T
  PROVE  /\ CountIn(q, T) \in Nat /\ CountIn(Append(q, x), T) \in Nat
         /\ CountIn(Append(q, x), T) = CountIn(q, T) + (IF x \in T THEN 1 ELSE 0)
PROOF
<1> DEFINE r == Append(q, x)
           n == Len(q) + 1
<1>1. /\ r \in Seq(S) /\ n \in DOMAIN r /\ r[n] = x /\ Len(q) \in Nat /\ Len(r) = n
      /\ \A k \in 1..Len(q) : r[k] = q[k]
  OBVIOUS
<1>2. Dropped(r, n, q)
  BY <1>1 DEF Dropped
<1> HIDE DEF r, n
<1>3. /\ CountIn(r, T) \in Nat /\ CountIn(q, T) \in Nat
      /\ CountIn(r, T) = CountIn(q, T) + (IF r[n] \in T THEN 1 ELSE 0)
  BY <1>1, <1>2, CountDropped
<1> QED
  BY <1>1, <1>3 DEF r

LEMMA CountNone == ASSUME NEW T PROVE CountIn(<<>>, T) = 0
PROOF
<1>1. {j \in DOMAIN <<>> : <<>>[j] \in T} = {}
  OBVIOUS
<1> QED
  BY <1>1, FS_EmptySet DEF CountIn

LEMMA CountNat == ASSUME NEW S, NEW q \in Seq(S), NEW T PROVE CountIn(q, T) \in Nat
PROOF
<1>1. 1 \in Int /\ Len(q) \in Int /\ DOMAIN q = 1..Len(q)
  OBVIOUS
<1>2. IsFiniteSet(1..Len(q))
  BY <1>1, FS_Interval
<1>3. {j \in DOMAIN q : q[j] \in T} \subseteq 1..Len(q)
  BY <1>1
<1> QED
  BY <1>2, <1>3, FS_Subset, FS_CardinalityType DEF CountIn

Pushes == {e \in TwinEvents : e.kind \in {"put", "parts"} /\ e.origin = 0}
CopyTasks == {t \in TwinTasks : t.kind = "copy"}
WillHear(s) == CountIn(heard[s], Pushes)
WillCopy(s) == CountIn(tasks[s], CopyTasks)
WillCompare(s) == IF comparing[s] THEN 1 ELSE 0
Owed(s) == WillHear(s) + WillCopy(s) + WillCompare(s)
Paid(s) == copies + Owed(s) + Owed(Other(s)) <= userChanges + mirrorStarts + echoes
CopiesOwed == \A s \in Sites : Paid(s)

LEMMA OwedNat ==
  ASSUME TwinOK, NEW s \in Sites
  PROVE  /\ WillHear(s) \in Nat /\ WillCopy(s) \in Nat /\ WillCompare(s) \in Nat /\ Owed(s) \in Nat
         /\ Owed(s) = WillHear(s) + WillCopy(s) + WillCompare(s)
PROOF
<1>1. heard[s] \in Seq(TwinEvents) /\ tasks[s] \in Seq(TwinTasks)
  BY DEF TwinOK, TwinQueuesOK
<1>2. WillHear(s) \in Nat
  BY <1>1, CountNat DEF WillHear
<1>3. WillCopy(s) \in Nat
  BY <1>1, CountNat DEF WillCopy
<1>4. WillCompare(s) \in Nat
  BY DEF WillCompare
<1> QED
  BY <1>2, <1>3, <1>4 DEF Owed

LEMMA OwedNext ==
  ASSUME TwinOK', NEW s \in Sites
  PROVE  /\ WillHear(s)' \in Nat /\ WillCopy(s)' \in Nat /\ WillCompare(s)' \in Nat
         /\ Owed(s)' \in Nat /\ Owed(s)' = WillHear(s)' + WillCopy(s)' + WillCompare(s)'
PROOF
<1>1. heard'[s] \in Seq(TwinEvents) /\ tasks'[s] \in Seq(TwinTasks)
  BY DEF TwinOK, TwinQueuesOK
<1>2. CountIn(heard'[s], Pushes) \in Nat
  BY <1>1, CountNat
<1>3. CountIn(tasks'[s], CopyTasks) \in Nat
  BY <1>1, CountNat
<1>4. WillCompare(s)' \in Nat
  BY DEF WillCompare
<1> QED
  BY <1>2, <1>3, <1>4 DEF Owed, WillHear, WillCopy

\* What is owed after a step.
LEMMA OwedThen ==
  ASSUME NEW s \in Sites
  PROVE  /\ WillHear(s)' = CountIn(heard'[s], Pushes)
         /\ WillCopy(s)' = CountIn(tasks'[s], CopyTasks)
         /\ WillCompare(s)' = IF comparing'[s] THEN 1 ELSE 0
PROOF
  BY DEF WillHear, WillCopy, WillCompare

\* A change of a user, a start or an echo pays for one copy more.
LEMMA MoreIsPaid ==
  ASSUME TwinOK, TwinOK', CopiesOwed, NEW s \in Sites, NEW paid \in Nat,
         copies' + Owed(s)' + Owed(Other(s))' <= copies + Owed(s) + Owed(Other(s)) + paid,
         userChanges' + mirrorStarts' + echoes' = userChanges + mirrorStarts + echoes + paid
  PROVE  CopiesOwed'
PROOF
<1>1. /\ Paid(s) /\ Other(s) \in Sites /\ Other(Other(s)) = s
      /\ \A x \in Sites : x = s \/ x = Other(s)
  BY TwoSites DEF CopiesOwed
<1>2. Owed(s) \in Nat /\ Owed(Other(s)) \in Nat /\ copies \in Nat
      /\ userChanges \in Nat /\ mirrorStarts \in Nat /\ echoes \in Nat
  BY <1>1, OwedNat, TwinAssumption DEF TwinOK, TwinNumbersOK
<1>4. copies' \in Nat /\ Owed(s)' \in Nat /\ Owed(Other(s))' \in Nat
  BY <1>1, OwedNext DEF TwinOK, TwinNumbersOK
<1>5. copies + Owed(s) + Owed(Other(s)) <= userChanges + mirrorStarts + echoes
  BY <1>1 DEF Paid
<1>6. copies' + Owed(s)' + Owed(Other(s))' <= userChanges' + mirrorStarts' + echoes'
  BY <1>2, <1>4, <1>5
<1>7. copies' + Owed(Other(s))' + Owed(s)' <= userChanges' + mirrorStarts' + echoes'
  BY <1>2, <1>4, <1>6
<1>8. Paid(s)' /\ Paid(Other(s))'
  BY <1>1, <1>6, <1>7 DEF Paid
<1> QED
  BY <1>1, <1>8 DEF CopiesOwed

\* What is owed are numbers.
LEMMA AllOwed ==
  ASSUME TwinOK, TwinOK', NEW s \in Sites
  PROVE  /\ copies \in Nat /\ userChanges \in Nat /\ mirrorStarts \in Nat /\ echoes \in Nat
         /\ copies' \in Nat /\ Owed(s) \in Nat /\ Owed(s)' \in Nat
         /\ Owed(Other(s)) \in Nat /\ Owed(Other(s))' \in Nat
         /\ WillHear(s) \in Nat /\ WillCopy(s) \in Nat /\ WillCompare(s) \in Nat
         /\ Owed(s) = WillHear(s) + WillCopy(s) + WillCompare(s)
         /\ WillHear(s)' \in Nat /\ WillCopy(s)' \in Nat /\ WillCompare(s)' \in Nat
         /\ Owed(s)' = WillHear(s)' + WillCopy(s)' + WillCompare(s)'
PROOF
<1>1. Other(s) \in Sites
  BY TwoSites
<1>2. Owed(Other(s))' \in Nat
  BY <1>1, OwedNext
<1> QED
  BY <1>1, <1>2, OwedNat, OwedNext, TwinAssumption DEF TwinOK, TwinNumbersOK

\* The other mirror owes what it owed when nothing of it changes.
LEMMA OtherOwes ==
  ASSUME NEW s \in Sites, heard'[s] = heard[s], tasks'[s] = tasks[s], comparing'[s] = comparing[s]
  PROVE  Owed(s)' = Owed(s)
PROOF
  BY DEF Owed, WillHear, WillCopy, WillCompare

\* An event that is announced is one more to hear, or none if it will not be
\* copied.
LEMMA HearMore ==
  ASSUME TwinOK, NEW s \in Sites, NEW e \in TwinEvents, Announce(s, e)
  PROVE  /\ WillHear(s)' \in Nat /\ WillHear(s) \in Nat
         /\ WillHear(s)' <= WillHear(s) + 1
         /\ e \notin Pushes => WillHear(s)' = WillHear(s)
PROOF
<1>1. heard[s] \in Seq(TwinEvents)
  BY DEF TwinOK, TwinQueuesOK
<1>2. heard'[s] = heard[s] \/ heard'[s] = Append(heard[s], e)
  BY Announced DEF TwinOK, TwinFlagsOK
<1> DEFINE h == CountIn(heard[s], Pushes)
           g == CountIn(Append(heard[s], e), Pushes)
           k == CountIn(heard'[s], Pushes)
<1>3. h \in Nat /\ g \in Nat /\ g = h + (IF e \in Pushes THEN 1 ELSE 0)
  BY <1>1, CountAppended
<1>4. k = h \/ k = g
  BY <1>2
<1>5. WillHear(s) = h /\ WillHear(s)' = k
  BY DEF WillHear
<1> HIDE DEF h, g, k
<1> QED
  BY <1>3, <1>4, <1>5

LEMMA PutPays ==
  ASSUME TwinOK, CopiesOwed, NEW s \in Sites, NEW size \in ObjectSizes, UserPut(s, size)
  PROVE  CopiesOwed'
PROOF
<1>1. /\ TwinOK' /\ PutEvent(latest') \in TwinEvents /\ Announce(s, PutEvent(latest'))
      /\ UNCHANGED <<up, comparing, listed, tasks>>
  BY UserPutOK
<1>2. /\ UNCHANGED <<mirrorStarts, echoes, copies>> /\ userChanges' = userChanges + 1
  BY DEF UserPut
<1>3. heard'[Other(s)] = heard[Other(s)]
  BY <1>1, Announced
<1>4. Other(s) \in Sites
  BY TwoSites
<1>5. WillHear(s)' <= WillHear(s) + 1
  BY <1>1, HearMore
<1>6. WillCopy(s)' = WillCopy(s) /\ WillCompare(s)' = WillCompare(s)
  BY <1>1 DEF WillCopy, WillCompare
<1>7. Owed(Other(s))' = Owed(Other(s))
  BY <1>1, <1>3, <1>4, OtherOwes
<1>8. copies' + Owed(s)' + Owed(Other(s))' <= copies + Owed(s) + Owed(Other(s)) + 1
  BY <1>1, <1>2, <1>5, <1>6, <1>7, AllOwed
<1>9. userChanges' + mirrorStarts' + echoes' = userChanges + mirrorStarts + echoes + 1
  BY <1>1, <1>2, AllOwed
<1> QED
  BY <1>1, <1>8, <1>9, MoreIsPaid

LEMMA DeletePays ==
  ASSUME TwinOK, CopiesOwed, NEW s \in Sites, UserDelete(s) PROVE CopiesOwed'
PROOF
<1>1. /\ TwinOK' /\ DeleteEvent(FALSE) \in TwinEvents /\ Announce(s, DeleteEvent(FALSE))
      /\ UNCHANGED <<up, comparing, listed, tasks>>
  BY UserDeleteOK
<1>2. /\ UNCHANGED <<mirrorStarts, echoes, copies>> /\ userChanges' = userChanges + 1
  BY DEF UserDelete
<1>3. heard'[Other(s)] = heard[Other(s)]
  BY <1>1, Announced
<1>4. Other(s) \in Sites
  BY TwoSites
<1>5. WillHear(s)' <= WillHear(s) + 1
  BY <1>1, HearMore
<1>6. WillCopy(s)' = WillCopy(s) /\ WillCompare(s)' = WillCompare(s)
  BY <1>1 DEF WillCopy, WillCompare
<1>7. Owed(Other(s))' = Owed(Other(s))
  BY <1>1, <1>3, <1>4, OtherOwes
<1>8. copies' + Owed(s)' + Owed(Other(s))' <= copies + Owed(s) + Owed(Other(s)) + 1
  BY <1>1, <1>2, <1>5, <1>6, <1>7, AllOwed
<1>9. userChanges' + mirrorStarts' + echoes' = userChanges + mirrorStarts + echoes + 1
  BY <1>1, <1>2, AllOwed
<1> QED
  BY <1>1, <1>8, <1>9, MoreIsPaid

LEMMA ComeAndGoPay ==
  ASSUME TwinOK, CopiesOwed, NEW s \in Sites, StartTwin(s) \/ StopTwin(s) PROVE CopiesOwed'
PROOF
<1>1. TwinOK' /\ Other(s) \in Sites /\ Other(s) # s
  BY ComeAndGoOK, TwoSites
<1>2. CASE StartTwin(s)
  <2>1. /\ UNCHANGED <<heard, tasks, userChanges, echoes, copies>>
        /\ mirrorStarts' = mirrorStarts + 1
        /\ comparing' = [comparing EXCEPT ![s] = TRUE] /\ comparing \in [Sites -> BOOLEAN]
    BY <1>2 DEF StartTwin, TwinOK, TwinFlagsOK
  <2>2. Owed(Other(s))' = Owed(Other(s))
    BY <1>1, <2>1, OtherOwes
  <2>3. WillHear(s)' = WillHear(s) /\ WillCopy(s)' = WillCopy(s)
    BY <2>1 DEF WillHear, WillCopy
  <2>4. WillCompare(s)' <= WillCompare(s) + 1
    BY DEF WillCompare
  <2>5. copies' + Owed(s)' + Owed(Other(s))' <= copies + Owed(s) + Owed(Other(s)) + 1
    BY <1>1, <2>1, <2>2, <2>3, <2>4, AllOwed
  <2>6. userChanges' + mirrorStarts' + echoes' = userChanges + mirrorStarts + echoes + 1
    BY <1>1, <2>1, AllOwed
  <2> QED
    BY <1>1, <2>5, <2>6, MoreIsPaid
<1>3. CASE StopTwin(s)
  <2>1. /\ UNCHANGED counters
        /\ heard' = [heard EXCEPT ![s] = <<>>] /\ tasks' = [tasks EXCEPT ![s] = <<>>]
        /\ comparing' = [comparing EXCEPT ![s] = FALSE]
    BY <1>3 DEF StopTwin
  <2>2. /\ heard'[s] = <<>> /\ tasks'[s] = <<>> /\ ~comparing'[s]
        /\ heard'[Other(s)] = heard[Other(s)] /\ tasks'[Other(s)] = tasks[Other(s)]
        /\ comparing'[Other(s)] = comparing[Other(s)]
    BY <1>1, <2>1 DEF TwinOK, TwinQueuesOK, TwinFlagsOK
  <2>3. Owed(Other(s))' = Owed(Other(s))
    BY <1>1, <2>2, OtherOwes
  <2>4. WillHear(s)' = 0 /\ WillCopy(s)' = 0 /\ WillCompare(s)' = 0
    <3>1. CountIn(heard'[s], Pushes) = 0 /\ CountIn(tasks'[s], CopyTasks) = 0
      BY <2>2, CountNone
    <3> QED
      BY <2>2, <3>1, OwedThen
  <2>7. UNCHANGED <<userChanges, mirrorStarts, echoes, copies>>
    BY <2>1 DEF counters
  <2>5. copies' + Owed(s)' + Owed(Other(s))' <= copies + Owed(s) + Owed(Other(s)) + 0
    BY <1>1, <2>7, <2>3, <2>4, AllOwed
  <2>6. userChanges' + mirrorStarts' + echoes' = userChanges + mirrorStarts + echoes + 0
    BY <1>1, <2>7, AllOwed
  <2> QED
    BY <1>1, <2>5, <2>6, MoreIsPaid
<1> QED
  BY <1>2, <1>3

LEMMA ListPays ==
  ASSUME TwinOK, CopiesOwed, NEW s \in Sites, NEW side \in Sites, ListSide(s, side)
  PROVE  CopiesOwed'
PROOF
<1>1. UNCHANGED <<heard, tasks, comparing, counters>>
  BY DEF ListSide
<1> QED
  BY <1>1 DEF CopiesOwed, Paid, Owed, WillHear, WillCopy, WillCompare, counters, Other

LEMMA ComparePays ==
  ASSUME TwinOK, CopiesOwed, NEW s \in Sites, CompareSides(s) PROVE CopiesOwed'
PROOF
<1> DEFINE t == CopyTask([listed[s][s] EXCEPT !.origin = 0])
<1>1. /\ TwinOK' /\ comparing[s] /\ UNCHANGED <<heard, counters>>
      /\ comparing' = [comparing EXCEPT ![s] = FALSE]
      /\ tasks'[Other(s)] = tasks[Other(s)]
      /\ tasks' = tasks \/ (tasks'[s] = Append(tasks[s], t) /\ t \in TwinTasks)
  BY CompareOK
<1> HIDE DEF t
<1>2. Other(s) \in Sites /\ Other(s) # s /\ comparing \in [Sites -> BOOLEAN]
  BY TwoSites DEF TwinOK, TwinFlagsOK
<1>3. Owed(Other(s))' = Owed(Other(s))
  BY <1>1, <1>2, OtherOwes
<1>4. WillHear(s)' = WillHear(s) /\ WillCompare(s) = 1 /\ WillCompare(s)' = 0
  BY <1>1, <1>2 DEF WillHear, WillCompare
<1>5. WillCopy(s)' <= WillCopy(s) + 1
  <2>1. tasks[s] \in Seq(TwinTasks)
    BY DEF TwinOK, TwinQueuesOK
  <2>2. t \in TwinTasks => CountIn(Append(tasks[s], t), CopyTasks) <= CountIn(tasks[s], CopyTasks) + 1
    BY <2>1, CountAppended
  <2>3. CountIn(tasks[s], CopyTasks) \in Nat
    BY <2>1, CountNat
  <2>4. tasks'[s] = tasks[s] \/ (t \in TwinTasks /\ tasks'[s] = Append(tasks[s], t))
    BY <1>1
  <2>5. CountIn(tasks'[s], CopyTasks) <= CountIn(tasks[s], CopyTasks) + 1
    <3>1. CASE tasks'[s] = tasks[s]
      BY <2>3, <3>1
    <3>2. CASE t \in TwinTasks /\ tasks'[s] = Append(tasks[s], t)
      BY <2>2, <3>2
    <3> QED
      BY <2>4, <3>1, <3>2
  <2> QED
    BY <2>5, OwedThen DEF WillCopy
<1>8. TwinOK' /\ UNCHANGED <<userChanges, mirrorStarts, echoes, copies>>
  BY <1>1 DEF counters
<1>6. copies' + Owed(s)' + Owed(Other(s))' <= copies + Owed(s) + Owed(Other(s)) + 0
  BY <1>3, <1>4, <1>5, <1>8, AllOwed
<1>7. userChanges' + mirrorStarts' + echoes' = userChanges + mirrorStarts + echoes + 0
  BY <1>8, AllOwed
<1> QED
  BY <1>1, <1>6, <1>7, MoreIsPaid

\* What is heard and copied was owed; an echo is one more.
LEMMA HearPays ==
  ASSUME TwinOK, CopiesOwed, NEW s \in Sites, HearEvent(s) PROVE CopiesOwed'
PROOF
<1> DEFINE e == Head(heard[s])
           t == IF e.kind = "delete" THEN RemoveTask ELSE CopyTask(e)
           echo == e.kind = "parts" /\ e.origin # 0
           paid == IF echo THEN 1 ELSE 0
<1>1. /\ TwinOK' /\ UNCHANGED <<comparing, userChanges, mirrorStarts, copies>>
      /\ heard[s] \in Seq(TwinEvents) /\ heard[s] # <<>> /\ e \in TwinEvents
      /\ heard'[s] = Tail(heard[s]) /\ heard'[Other(s)] = heard[Other(s)]
      /\ tasks'[Other(s)] = tasks[Other(s)]
      /\ echoes' = IF echo THEN echoes + 1 ELSE echoes
      /\ ~Takes(e) => tasks' = tasks
      /\ Takes(e) => t \in TwinTasks /\ tasks'[s] = Append(tasks[s], t)
  BY HearEventOK
<1>2. Other(s) \in Sites
  BY TwoSites
<1>3. Owed(Other(s))' = Owed(Other(s))
  BY <1>1, <1>2, OtherOwes
<1>4. WillCompare(s)' = WillCompare(s)
  BY <1>1 DEF WillCompare
<1>5. WillHear(s) = WillHear(s)' + (IF e \in Pushes THEN 1 ELSE 0)
  <2>1. Dropped(heard[s], 1, Tail(heard[s])) /\ heard[s][1] = e /\ 1 \in DOMAIN heard[s]
    BY <1>1, TailDrops
  <2>2. CountIn(heard[s], Pushes) = CountIn(Tail(heard[s]), Pushes) + (IF heard[s][1] \in Pushes THEN 1 ELSE 0)
    BY <1>1, <2>1, CountDropped
  <2> QED
    BY <1>1, <2>1, <2>2, OwedThen DEF WillHear
<1>6. WillCopy(s)' = WillCopy(s) + (IF Takes(e) /\ t.kind = "copy" THEN 1 ELSE 0)
  <2>1. tasks[s] \in Seq(TwinTasks)
    BY DEF TwinOK, TwinQueuesOK
  <2>2. CASE Takes(e)
    <3>1. t \in CopyTasks <=> t.kind = "copy"
      BY <1>1, <2>2 DEF CopyTasks
    <3>3. t \in TwinTasks /\ tasks'[s] = Append(tasks[s], t)
      BY <1>1, <2>2
    <3> HIDE DEF t, e
    <3>2. CountIn(Append(tasks[s], t), CopyTasks) = CountIn(tasks[s], CopyTasks) + (IF t \in CopyTasks THEN 1 ELSE 0)
      BY <2>1, <3>3, CountAppended
    <3> QED
      BY <2>2, <3>1, <3>2, <3>3, OwedThen DEF WillCopy
  <2>3. CASE ~Takes(e)
    <3>1. WillCopy(s)' = WillCopy(s) /\ WillCopy(s) \in Nat
      BY <1>1, <2>3, OwedNat DEF WillCopy
    <3> QED
      BY <2>3, <3>1
  <2> QED
    BY <2>2, <2>3
<1>7. Takes(e) /\ t.kind = "copy" => echo \/ e \in Pushes
  BY <1>1 DEF Takes, RemoveTask, CopyTask, TwinEvents, Pushes
<1>8. paid \in Nat /\ WillCopy(s)' + WillHear(s)' <= WillCopy(s) + WillHear(s) + paid
  <2>1. WillCopy(s) \in Nat /\ WillHear(s)' \in Nat
    BY <1>1, AllOwed
  <2> HIDE DEF e, t
  <2> QED
    BY <1>5, <1>6, <1>7, <2>1
<1>9. echoes' = echoes + paid
  BY <1>1, AllOwed
<1>12. TwinOK' /\ UNCHANGED <<userChanges, mirrorStarts, copies>>
  BY <1>1
<1> HIDE DEF paid, echo, t, e
<1>10. copies' + Owed(s)' + Owed(Other(s))' <= copies + Owed(s) + Owed(Other(s)) + paid
  BY <1>3, <1>4, <1>8, <1>12, AllOwed
<1>11. userChanges' + mirrorStarts' + echoes' = userChanges + mirrorStarts + echoes + paid
  BY <1>8, <1>9, <1>12, AllOwed
<1> QED
  BY <1>1, <1>8, <1>10, <1>11, MoreIsPaid

LEMMA CopyPays ==
  ASSUME TwinOK, CopiesOwed, NEW s \in Sites, NEW i \in DOMAIN tasks[s], CopyObject(s, i)
  PROVE  CopiesOwed'
PROOF
<1> DEFINE t == tasks[s][i]
           e == PutEvent(TwinCopy(s, t))
<1>1. /\ TwinOK' /\ UNCHANGED <<comparing, userChanges, mirrorStarts, echoes>>
      /\ tasks[s] \in Seq(TwinTasks) /\ t \in TwinTasks /\ t.kind = "copy"
      /\ Dropped(tasks[s], i, tasks'[s]) /\ tasks'[Other(s)] = tasks[Other(s)]
      /\ \/ UNCHANGED <<heard, copies>>
         \/ copies' = copies + 1 /\ e \in TwinEvents /\ e.origin # 0 /\ Announce(Other(s), e)
  BY CopyObjectOK
<1> HIDE DEF e
<1>2. Other(s) \in Sites /\ Other(Other(s)) = s
  BY TwoSites
<1>3. WillCopy(s) = WillCopy(s)' + 1
  <2>1. t \in CopyTasks
    BY <1>1 DEF CopyTasks
  <2>2. CountIn(tasks[s], CopyTasks) = CountIn(tasks'[s], CopyTasks) + (IF t \in CopyTasks THEN 1 ELSE 0)
    BY <1>1, CountDropped
  <2> QED
    BY <2>1, <2>2, OwedThen DEF WillCopy
<1>4. WillCompare(s)' = WillCompare(s)
  BY <1>1 DEF WillCompare
<1>5. /\ heard'[s] = heard[s] /\ WillHear(Other(s))' = WillHear(Other(s))
      /\ copies' = copies \/ copies' = copies + 1
  <2>1. CASE UNCHANGED <<heard, copies>>
    BY <2>1 DEF WillHear, Other
  <2>2. CASE copies' = copies + 1 /\ e \in TwinEvents /\ e.origin # 0 /\ Announce(Other(s), e)
    <3>1. e \notin Pushes
      BY <2>2 DEF Pushes
    <3>2. WillHear(Other(s))' = WillHear(Other(s))
      BY <1>2, <2>2, <3>1, HearMore
    <3>3. heard'[s] = heard[s]
      BY <1>2, <2>2, Announced
    <3> QED
      BY <2>2, <3>2, <3>3
  <2> QED
    BY <1>1, <2>1, <2>2
<1>6. WillHear(s)' = WillHear(s)
  BY <1>5 DEF WillHear
<1>7. Owed(Other(s))' = Owed(Other(s))
  <2>1. /\ WillCopy(Other(s))' = WillCopy(Other(s))
        /\ WillCompare(Other(s))' = WillCompare(Other(s))
    BY <1>1 DEF WillCopy, WillCompare, Other
  <2> QED
    BY <1>5, <2>1 DEF Owed, Other
<1>8. TwinOK' /\ UNCHANGED <<userChanges, mirrorStarts, echoes>>
  BY <1>1
<1>9. copies' + Owed(s)' + Owed(Other(s))' <= copies + Owed(s) + Owed(Other(s)) + 0
  BY <1>3, <1>4, <1>5, <1>6, <1>7, <1>8, AllOwed
<1>10. userChanges' + mirrorStarts' + echoes' = userChanges + mirrorStarts + echoes + 0
  BY <1>8, AllOwed
<1> QED
  BY <1>8, <1>9, <1>10, MoreIsPaid

LEMMA RemovePays ==
  ASSUME TwinOK, CopiesOwed, NEW s \in Sites, NEW i \in DOMAIN tasks[s], RemoveObject(s, i)
  PROVE  CopiesOwed'
PROOF
<1> DEFINE e == DeleteEvent(TRUE)
<1>1. /\ TwinOK' /\ UNCHANGED <<comparing, counters>>
      /\ tasks[s] \in Seq(TwinTasks) /\ tasks[s][i].kind = "remove"
      /\ Dropped(tasks[s], i, tasks'[s]) /\ tasks'[Other(s)] = tasks[Other(s)]
      /\ e \in TwinEvents /\ Announce(Other(s), e)
  BY RemoveObjectOK
<1>2. Other(s) \in Sites /\ Other(Other(s)) = s
  BY TwoSites
<1>3. e \notin Pushes
  BY DEF DeleteEvent, Pushes
<1> HIDE DEF e
<1>4. WillHear(Other(s))' = WillHear(Other(s)) /\ heard'[s] = heard[s]
  BY <1>1, <1>2, <1>3, HearMore, Announced
<1>5. WillCopy(s)' <= WillCopy(s)
  <2>1. /\ CountIn(tasks[s], CopyTasks) = CountIn(tasks'[s], CopyTasks) + (IF tasks[s][i] \in CopyTasks THEN 1 ELSE 0)
        /\ CountIn(tasks[s], CopyTasks) \in Nat /\ CountIn(tasks'[s], CopyTasks) \in Nat
    BY <1>1, CountDropped
  <2>2. tasks[s][i] \notin CopyTasks
    BY <1>1 DEF CopyTasks
  <2> QED
    BY <2>1, <2>2, OwedThen DEF WillCopy
<1>6. WillHear(s)' = WillHear(s) /\ WillCompare(s)' = WillCompare(s)
  BY <1>1, <1>4 DEF WillHear, WillCompare
<1>7. Owed(Other(s))' = Owed(Other(s))
  <2>1. /\ WillCopy(Other(s))' = WillCopy(Other(s))
        /\ WillCompare(Other(s))' = WillCompare(Other(s))
    BY <1>1 DEF WillCopy, WillCompare, Other
  <2> QED
    BY <1>4, <2>1 DEF Owed, Other
<1>8. TwinOK' /\ UNCHANGED <<userChanges, mirrorStarts, echoes, copies>>
  BY <1>1 DEF counters
<1>9. copies' + Owed(s)' + Owed(Other(s))' <= copies + Owed(s) + Owed(Other(s)) + 0
  BY <1>5, <1>6, <1>7, <1>8, AllOwed
<1>10. userChanges' + mirrorStarts' + echoes' = userChanges + mirrorStarts + echoes + 0
  BY <1>8, AllOwed
<1> QED
  BY <1>8, <1>9, <1>10, MoreIsPaid

LEMMA PaidStep == TwinOK /\ CopiesOwed /\ [TwinNext]_twinVars => CopiesOwed'
PROOF
<1> SUFFICES ASSUME TwinOK, CopiesOwed, [TwinNext]_twinVars PROVE CopiesOwed'
  OBVIOUS
<1>1. CASE UNCHANGED twinVars
  BY <1>1 DEF twinVars, mirrors, counters, CopiesOwed, Paid, Owed, WillHear, WillCopy,
              WillCompare, Other
<1>2. ASSUME NEW s \in Sites,
             \/ \E size \in ObjectSizes : UserPut(s, size)
             \/ UserDelete(s) \/ StartTwin(s) \/ StopTwin(s)
             \/ \E side \in Sites : ListSide(s, side)
             \/ CompareSides(s) \/ HearEvent(s)
             \/ \E i \in DOMAIN tasks[s] : CopyObject(s, i) \/ RemoveObject(s, i)
      PROVE  CopiesOwed'
  <2>1. ASSUME NEW size \in ObjectSizes, UserPut(s, size) PROVE CopiesOwed'
    BY <2>1, PutPays
  <2>2. ASSUME NEW side \in Sites, ListSide(s, side) PROVE CopiesOwed'
    BY <2>2, ListPays
  <2>3. ASSUME NEW i \in DOMAIN tasks[s], CopyObject(s, i) \/ RemoveObject(s, i) PROVE CopiesOwed'
    BY <2>3, CopyPays, RemovePays
  <2> QED
    BY <1>2, <2>1, <2>2, <2>3, DeletePays, ComeAndGoPay, ComparePays, HearPays
<1> QED
  BY <1>1, <1>2 DEF TwinNext

-----------------------------------------------------------------------------
(***************************************************************************)
(* As long as nothing clashes: one site holds what the users want, and     *)
(* what is on its way from it is that; or the object is deleted, and the   *)
(* deletion of what is left of it is on its way.                           *)
(***************************************************************************)
FreshObject(o) == o.content = latest.content /\ o.size = latest.size /\ o.time >= latest.time
StaleObject(o) == o.content # latest.content /\ o.time < latest.time

FreshAt(w) ==
  /\ latest.content # 0 /\ FreshObject(site[w])
  /\ \A s \in Sites : FreshObject(site[s]) \/ StaleObject(site[s])
FreshTasks ==
  \A s \in Sites : \A i \in DOMAIN tasks[s] :
    tasks[s][i].kind = "copy" /\ tasks[s][i].size = latest.size /\ FreshObject(site[s])
FreshEvents ==
  \A s \in Sites : \A i \in DOMAIN heard[s] :
    /\ heard[s][i].kind \in {"put", "parts"}
    /\ heard[s][i].origin = 0 => heard[s][i].size = latest.size /\ FreshObject(site[s])
FreshListed(w) ==
  \A s \in Sites : \A x \in DOMAIN listed[s] :
    /\ (FreshObject(listed[s][x]) /\ FreshObject(site[x])) \/ StaleObject(listed[s][x])
    /\ x = w => FreshObject(listed[s][x])
OnTheWay(w) ==
  comparing[w] \/ tasks[w] # <<>> \/ \E i \in DOMAIN heard[w] : heard[w][i].origin = 0
FreshComes(w) == up[w] /\ StaleObject(site[Other(w)]) => OnTheWay(w)
TwinHas(w) ==
  FreshAt(w) /\ FreshTasks /\ FreshEvents /\ FreshListed(w) /\ FreshComes(w)

WillRemove(s) ==
  \/ \E i \in DOMAIN heard[s] : heard[s][i].kind = "delete"
  \/ \E i \in DOMAIN tasks[s] : tasks[s][i].kind = "remove"
OnlyDeletions ==
  \A s \in Sites : /\ \A i \in DOMAIN heard[s] : heard[s][i].kind \in {"delete", "mirror"}
                   /\ \A i \in DOMAIN tasks[s] : tasks[s][i].kind = "remove"
NothingListed ==
  \A s \in Sites : /\ comparing[s] => \A x \in Sites : site[x].content = 0
                   /\ \A x \in DOMAIN listed[s] : listed[s][x].content = 0
DeletionComes == \A s \in Sites : site[Other(s)].content # 0 => up[s] /\ WillRemove(s)
TwinHasNot == latest = NoObject /\ OnlyDeletions /\ NothingListed /\ DeletionComes

TwinCalm == clash = {} /\ skew = 0 => TwinHasNot \/ \E w \in Sites : TwinHas(w)

\* A user puts the object while nothing is under way.
LEMMA PutIsFresh ==
  ASSUME TwinOK, skew = 0, clash' = {}, NEW s \in Sites, NEW size \in ObjectSizes,
         UserPut(s, size)
  PROVE  TwinHas(s)'
PROOF
<1> DEFINE e == PutEvent(latest')
<1>1. /\ latest'.content = userChanges + 1 /\ latest'.size = size /\ latest'.origin = 0
      /\ latest'.time = clock + 1 /\ latest' \in TwinObjects
      /\ e \in TwinEvents /\ Announce(s, e)
      /\ site' = [site EXCEPT ![s] = latest']
      /\ UNCHANGED <<up, comparing, listed, tasks>>
  BY UserPutOK DEF TwinOK, TwinNumbersOK
<1>2. NothingUnderWay
  BY DEF UserPut, Clash
<1>3. \A x \in Sites : heard[x] = <<>> /\ tasks[x] = <<>> /\ listed[x] = <<>>
  BY <1>2 DEF NothingUnderWay, TwinOK, TwinIdleOK
<1>4. clock \in Nat /\ userChanges \in Nat
  BY TwinAssumption DEF TwinOK, TwinNumbersOK
<1>5. e.kind \in {"put", "parts"} /\ e.origin = 0 /\ e.size = latest'.size
  BY <1>1 DEF PutEvent
<1> HIDE DEF e
<1>6. FreshObject(site[s])' /\ \A x \in Sites : FreshObject(site[x])' \/ StaleObject(site[x])'
  <2>1. site'[s] = latest' /\ latest'.time \in Nat
    BY <1>1 DEF TwinOK, TwinSitesOK, TwinObjects
  <2>2. FreshObject(site[s])'
    BY <2>1 DEF FreshObject
  <2>3. ASSUME NEW x \in Sites, x # s PROVE StaleObject(site[x])'
    <3>1. site'[x] = site[x] /\ site[x] \in TwinObjects
      BY <1>1, <2>3 DEF TwinOK, TwinSitesOK
    <3>2. site[x].time \in Nat /\ site[x].content \in Nat
      BY <3>1 DEF TwinObjects
    <3>3. site[x].time <= clock + 0 /\ site[x].content <= userChanges
      BY DEF TwinOK, TwinSitesOK
    <3> QED
      BY <1>1, <1>4, <3>1, <3>2, <3>3 DEF StaleObject
  <2> QED
    BY <2>2, <2>3
<1>7. FreshAt(s)'
  BY <1>1, <1>4, <1>6 DEF FreshAt
<1>8. FreshTasks' /\ FreshListed(s)'
  BY <1>1, <1>3 DEF FreshTasks, FreshListed
<1>9. /\ heard'[Other(s)] = heard[Other(s)] /\ (up[s] => heard'[s] = Append(heard[s], e))
      /\ (~up[s] => heard'[s] = heard[s])
  BY <1>1, Announced
<1>10. Append(<<>>, e) = <<e>> /\ DOMAIN <<e>> = {1} /\ <<e>>[1] = e
  OBVIOUS
<1>13. up[s] => DOMAIN heard'[s] = {1} /\ heard'[s][1] = e
  BY <1>3, <1>9, <1>10
<1>14. heard'[Other(s)] = <<>> /\ (~up[s] => heard'[s] = <<>>)
  BY <1>3, <1>9, TwoSites
<1>11. FreshEvents'
  <2>1. ASSUME NEW x \in Sites, NEW i \in DOMAIN heard'[x]
        PROVE  x = s /\ heard'[x][i] = e
    BY <1>13, <1>14, TwoSites
  <2>2. ASSUME NEW x \in Sites, NEW i \in DOMAIN heard'[x]
        PROVE  /\ heard'[x][i].kind \in {"put", "parts"}
               /\ heard'[x][i].size = latest'.size /\ FreshObject(site[x])'
    BY <1>5, <1>6, <2>1
  <2> QED
    BY <2>2 DEF FreshEvents
<1>12. FreshComes(s)'
  BY <1>1, <1>5, <1>13 DEF FreshComes, OnTheWay
<1> QED
  BY <1>7, <1>8, <1>11, <1>12 DEF TwinHas

\* A user deletes the object while nothing is under way and both mirrors are up.
LEMMA DeleteIsAbsent ==
  ASSUME TwinOK, clash' = {}, NEW s \in Sites, UserDelete(s)
  PROVE  TwinHasNot'
PROOF
<1> DEFINE e == DeleteEvent(FALSE)
<1>1. /\ latest' = NoObject /\ e \in TwinEvents /\ Announce(s, e)
      /\ site' = [site EXCEPT ![s] = NoObject]
      /\ UNCHANGED <<up, comparing, listed, tasks>>
  BY UserDeleteOK
<1>2. NothingUnderWay /\ up[s]
  BY DEF UserDelete, Clash, Sites
<1>3. \A x \in Sites : heard[x] = <<>> /\ tasks[x] = <<>> /\ listed[x] = <<>> /\ ~comparing[x]
  BY <1>2 DEF NothingUnderWay, TwinOK, TwinIdleOK
<1>4. e.kind = "delete"
  BY DEF DeleteEvent
<1> HIDE DEF e
<1>5. heard'[Other(s)] = <<>> /\ heard'[s] = Append(<<>>, e)
  BY <1>1, <1>2, <1>3, Announced, TwoSites
<1>6. Append(<<>>, e) = <<e>> /\ DOMAIN <<e>> = {1} /\ <<e>>[1] = e
  OBVIOUS
<1>7. OnlyDeletions'
  BY <1>1, <1>3, <1>4, <1>5, <1>6, TwoSites DEF OnlyDeletions
<1>8. NothingListed'
  BY <1>1, <1>3 DEF NothingListed
<1>9. DeletionComes'
  <2>1. site'[s] = NoObject
    BY <1>1 DEF TwinOK, TwinSitesOK
  <2>2. WillRemove(s)'
    BY <1>4, <1>5, <1>6 DEF WillRemove
  <2>3. ASSUME NEW x \in Sites, site'[Other(x)].content # 0 PROVE x = s
    BY <2>1, <2>3, TwoSites DEF NoObject
  <2>4. ASSUME NEW x \in Sites, (site[Other(x)].content # 0)' PROVE (up[x] /\ WillRemove(x))'
    <3>1. x = s
      BY <2>3, <2>4 DEF Other
    <3> QED
      BY <1>1, <1>2, <2>2, <3>1
  <2> QED
    BY <2>4 DEF DeletionComes
<1> QED
  BY <1>1, <1>7, <1>8, <1>9 DEF TwinHasNot

\* A mirror that starts compares; one that stops forgets what it was about.
LEMMA PresentComesAndGoes ==
  ASSUME TwinOK, NEW w \in Sites, TwinHas(w), NEW s \in Sites, StartTwin(s) \/ StopTwin(s)
  PROVE  TwinHas(w)'
PROOF
<1>1. UNCHANGED <<site, latest>>
  BY DEF StartTwin, StopTwin
<1>2. ASSUME NEW x \in Sites
      PROVE  /\ heard'[x] = heard[x] \/ heard'[x] = <<>>
             /\ tasks'[x] = tasks[x] \/ tasks'[x] = <<>>
             /\ listed'[x] = listed[x] \/ listed'[x] = <<>>
  BY DEF StartTwin, StopTwin, TwinOK, TwinQueuesOK, TwinListedOK
<1>3. FreshAt(w)'
  BY <1>1 DEF TwinHas, FreshAt, FreshObject, StaleObject
<1>4. FreshTasks'
  BY <1>1, <1>2 DEF TwinHas, FreshTasks, FreshObject
<1>5. FreshEvents'
  BY <1>1, <1>2 DEF TwinHas, FreshEvents, FreshObject
<1>6. FreshListed(w)'
  BY <1>1, <1>2 DEF TwinHas, FreshListed, FreshObject, StaleObject
<1>7. FreshComes(w)'
  <2>1. CASE s = w
    <3>1. CASE StartTwin(s)
      BY <2>1, <3>1 DEF StartTwin, FreshComes, OnTheWay, TwinOK, TwinFlagsOK
    <3>2. CASE StopTwin(s)
      BY <2>1, <3>2 DEF StopTwin, FreshComes, TwinOK, TwinFlagsOK
    <3> QED
      BY <3>1, <3>2
  <2>2. CASE s # w
    <3>1. /\ up'[w] = up[w] /\ comparing'[w] = comparing[w] /\ tasks'[w] = tasks[w]
          /\ heard'[w] = heard[w]
      BY <2>2 DEF StartTwin, StopTwin, TwinOK, TwinFlagsOK, TwinQueuesOK
    <3> QED
      BY <1>1, <3>1 DEF TwinHas, FreshComes, OnTheWay, StaleObject, Other
  <2> QED
    BY <2>1, <2>2
<1> QED
  BY <1>3, <1>4, <1>5, <1>6, <1>7 DEF TwinHas

LEMMA PresentListed ==
  ASSUME TwinOK, NEW w \in Sites, TwinHas(w), NEW s \in Sites, NEW side \in Sites,
         ListSide(s, side)
  PROVE  TwinHas(w)'
PROOF
<1>1. /\ UNCHANGED <<site, latest, up, heard, comparing, tasks>>
      /\ listed'[Other(s)] = listed[Other(s)] /\ DOMAIN listed'[s] = DOMAIN listed[s] \cup {side}
      /\ \A x \in DOMAIN listed'[s] :
           listed'[s][x] = IF x = side THEN site[side] ELSE listed[s][x]
  BY ListSideOK
<1>2. FreshAt(w)'
  BY <1>1 DEF TwinHas, FreshAt, FreshObject, StaleObject
<1>3. FreshTasks'
  BY <1>1 DEF TwinHas, FreshTasks, FreshObject
<1>4. FreshEvents'
  BY <1>1 DEF TwinHas, FreshEvents, FreshObject
<1>5. FreshComes(w)'
  BY <1>1 DEF TwinHas, FreshComes, OnTheWay, StaleObject, Other
<1>6. FreshListed(w)'
  <2>1. ASSUME NEW y \in Sites, NEW x \in DOMAIN listed'[y]
        PROVE  \/ x \in Sites /\ listed'[y][x] = site[x]
               \/ x \in DOMAIN listed[y] /\ listed'[y][x] = listed[y][x]
    <3>1. CASE y = s
      BY <1>1, <2>1, <3>1
    <3>2. CASE y = Other(s)
      BY <1>1, <2>1, <3>2
    <3> QED
      BY <3>1, <3>2, TwoSites
  <2>2. ASSUME NEW y \in Sites, NEW x \in DOMAIN listed'[y]
        PROVE  /\ (FreshObject(listed'[y][x]) /\ FreshObject(site[x])) \/ StaleObject(listed'[y][x])
               /\ x = w => FreshObject(listed'[y][x])
    <3>1. CASE x \in Sites /\ listed'[y][x] = site[x]
      BY <3>1 DEF TwinHas, FreshAt
    <3>2. CASE x \in DOMAIN listed[y] /\ listed'[y][x] = listed[y][x]
      BY <3>2 DEF TwinHas, FreshListed
    <3> QED
      BY <2>1, <2>2, <3>1, <3>2
  <2> QED
    BY <1>1, <2>2 DEF FreshListed, FreshObject, StaleObject
<1> QED
  BY <1>2, <1>3, <1>4, <1>5, <1>6 DEF TwinHas

\* The mirror from w copies what the other site lacks; the other one, nothing
\* that is not the same: it would have found sizes that differ.
LEMMA PresentCompared ==
  ASSUME TwinOK, skew = 0, clash' = {}, NEW w \in Sites, TwinHas(w), NEW s \in Sites,
         CompareSides(s)
  PROVE  TwinHas(w)'
PROOF
<1> DEFINE ours == listed[s][s]
           theirs == listed[s][Other(s)]
           t == CopyTask([ours EXCEPT !.origin = 0])
           sizes == theirs.content # 0 /\ ours.size # theirs.size
           newer == activeActiveModTimeUpdated(ours, theirs)
           copy == ours.content # 0 /\ (theirs.content = 0 \/ sizes \/ newer)
<1>1. /\ comparing[s] /\ up[s] /\ DOMAIN listed[s] = Sites
      /\ UNCHANGED <<site, latest, up, heard>>
      /\ comparing' = [comparing EXCEPT ![s] = FALSE]
      /\ listed' = [listed EXCEPT ![s] = <<>>]
      /\ tasks'[Other(s)] = tasks[Other(s)]
      /\ tasks \in [Sites -> Seq(TwinTasks)] /\ Other(s) \in Sites
  BY CompareOK, TwoSites DEF TwinOK, TwinQueuesOK
<1>2. /\ ~copy => tasks' = tasks
      /\ copy => tasks'[s] = Append(tasks[s], t)
      /\ ~(copy /\ sizes /\ ~newer)
  BY <1>1 DEF CompareSides, Clash
<1>3. /\ ours \in TwinObjects /\ theirs \in TwinObjects
      /\ t \in TwinTasks \/ ours.content = 0
  <2>1. PICK D \in SUBSET Sites : listed[s] \in [D -> TwinObjects]
    BY DEF TwinOK, TwinListedOK, TwinListings
  <2>2. ours \in TwinObjects /\ theirs \in TwinObjects
    BY <1>1, <2>1
  <2> QED
    BY <2>2, TwinData
<1>4. newer <=> ours.time > theirs.time
  BY DEF activeActiveModTimeUpdated, TwinOK, TwinFlagsOK
<1>5. t.kind = "copy" /\ t.size = ours.size
  BY <1>3 DEF CopyTask, TwinObjects
<1>6. /\ (FreshObject(ours) /\ FreshObject(site[s])) \/ StaleObject(ours)
      /\ (FreshObject(theirs) /\ FreshObject(site[Other(s)])) \/ StaleObject(theirs)
      /\ s = w => FreshObject(ours)
      /\ Other(s) = w => FreshObject(theirs)
  BY <1>1 DEF TwinHas, FreshListed
<1>7. /\ ours.time \in Nat /\ theirs.time \in Nat /\ latest.time \in Nat /\ latest.content # 0
  BY <1>3 DEF TwinOK, TwinSitesOK, TwinObjects, TwinHas, FreshAt
<1> HIDE DEF ours, theirs, t, newer
<1>8. copy => FreshObject(ours) /\ FreshObject(site[s])
  <2>1. ASSUME StaleObject(ours) PROVE ~copy
    <3>1. Other(s) = w /\ FreshObject(theirs) /\ theirs.content # 0
      BY <1>6, <1>7, <2>1, TwoSites DEF StaleObject, FreshObject
    <3>2. ~newer
      BY <1>4, <1>7, <2>1, <3>1 DEF StaleObject, FreshObject
    <3> QED
      BY <1>2, <3>1, <3>2
  <2> QED
    BY <1>6, <2>1
<1>9. s = w /\ StaleObject(site[Other(w)]) => copy
  <2>1. ASSUME s = w, StaleObject(site[Other(w)]) PROVE copy
    <3>1. FreshObject(ours) /\ StaleObject(theirs)
      BY <1>6, <2>1 DEF FreshObject, StaleObject
    <3> QED
      BY <1>4, <1>7, <3>1 DEF FreshObject, StaleObject
  <2> QED
    BY <2>1
<1>10. FreshAt(w)'
  BY <1>1 DEF TwinHas, FreshAt, FreshObject, StaleObject
<1>11. FreshEvents'
  BY <1>1 DEF TwinHas, FreshEvents, FreshObject
<1>12. FreshListed(w)'
  <2>1. \A y \in Sites : listed'[y] = listed[y] \/ listed'[y] = <<>>
    BY <1>1 DEF TwinOK, TwinListedOK
  <2> QED
    BY <1>1, <2>1 DEF TwinHas, FreshListed, FreshObject, StaleObject
<1>13. FreshTasks'
  <2>1. ASSUME NEW y \in Sites, NEW i \in DOMAIN tasks'[y]
        PROVE  tasks'[y][i].kind = "copy" /\ tasks'[y][i].size = latest.size /\ FreshObject(site[y])
    <3>1. CASE i \in DOMAIN tasks[y] /\ tasks'[y][i] = tasks[y][i]
      BY <3>1 DEF TwinHas, FreshTasks
    <3>2. CASE y = s /\ copy /\ tasks'[y][i] = t
      BY <1>5, <1>8, <3>2 DEF FreshObject
    <3>3. (i \in DOMAIN tasks[y] /\ tasks'[y][i] = tasks[y][i]) \/ (y = s /\ copy /\ tasks'[y][i] = t)
      <4>1. CASE y = s /\ copy
        <5>1. tasks[s] \in Seq(TwinTasks) /\ t \in TwinTasks
          BY <1>1, <1>3, <4>1
        <5> QED
          BY <1>2, <2>1, <4>1, <5>1, AppendedAt
      <4>2. CASE ~(y = s /\ copy)
        BY <1>1, <1>2, <2>1, <4>2, TwoSites
      <4> QED
        BY <4>1, <4>2
    <3> QED
      BY <3>1, <3>2, <3>3
  <2> QED
    BY <1>1, <2>1 DEF FreshTasks, FreshObject
<1>14. FreshComes(w)'
  <2>1. CASE s = w
    <3>1. copy => tasks'[s] # <<>>
      BY <1>1, <1>2, <1>3
    <3> QED
      BY <1>1, <1>9, <2>1, <3>1 DEF FreshComes, OnTheWay, StaleObject, Other
  <2>2. CASE s # w
    <3>1. tasks'[w] = tasks[w] /\ comparing'[w] = comparing[w]
      BY <1>1, <2>2, TwoSites DEF TwinOK, TwinFlagsOK
    <3> QED
      BY <1>1, <3>1 DEF TwinHas, FreshComes, OnTheWay, StaleObject, Other
  <2> QED
    BY <2>1, <2>2
<1> QED
  BY <1>10, <1>11, <1>12, <1>13, <1>14 DEF TwinHas

\* What is heard of w is copied; of what a mirror has copied to it, no more than
\* an echo.
LEMMA PresentHeard ==
  ASSUME TwinOK, clash' = {}, NEW w \in Sites, TwinHas(w), NEW s \in Sites, HearEvent(s)
  PROVE  TwinHas(w)'
PROOF
<1> DEFINE e == Head(heard[s])
           t == IF e.kind = "delete" THEN RemoveTask ELSE CopyTask(e)
<1>1. /\ UNCHANGED <<site, latest, up, comparing, listed>>
      /\ heard[s] \in Seq(TwinEvents) /\ heard[s] # <<>> /\ e \in TwinEvents
      /\ heard'[s] = Tail(heard[s]) /\ heard'[Other(s)] = heard[Other(s)]
      /\ tasks'[Other(s)] = tasks[Other(s)]
      /\ e.kind = "parts" /\ e.origin # 0 => clash' # {}
      /\ ~Takes(e) => tasks' = tasks
      /\ Takes(e) => t \in TwinTasks /\ tasks'[s] = Append(tasks[s], t)
  BY HearEventOK
<1>2. /\ Dropped(heard[s], 1, Tail(heard[s])) /\ heard[s][1] = e /\ 1 \in DOMAIN heard[s]
      /\ tasks[s] \in Seq(TwinTasks)
  BY <1>1, TailDrops DEF TwinOK, TwinQueuesOK
<1>3. /\ \A n \in DOMAIN heard'[s] : \E m \in DOMAIN heard[s] : heard'[s][n] = heard[s][m]
      /\ \A m \in DOMAIN heard[s] : m # 1 => \E n \in DOMAIN heard'[s] : heard'[s][n] = heard[s][m]
  <2>1. Dropped(heard[s], 1, heard'[s]) /\ 1 \in DOMAIN heard[s] /\ heard[s] \in Seq(TwinEvents)
    BY <1>1, <1>2
  <2> QED
    BY <2>1, WithoutOne
<1>4. /\ e.kind \in {"put", "parts"}
      /\ e.origin = 0 => e.size = latest.size /\ FreshObject(site[s])
  BY <1>2 DEF TwinHas, FreshEvents
<1>5. (Takes(e) <=> e.origin = 0) /\ t.kind = "copy" /\ t.size = e.size
  BY <1>1, <1>4 DEF Takes, CopyTask
<1> HIDE DEF e, t
<1>6. FreshAt(w)' /\ FreshListed(w)'
  <2>1. FreshAt(w)'
    BY <1>1 DEF TwinHas, FreshAt, FreshObject, StaleObject
  <2>2. FreshListed(w)'
    BY <1>1 DEF TwinHas, FreshListed, FreshObject, StaleObject
  <2> QED
    BY <2>1, <2>2
<1>7. FreshEvents'
  <2>1. ASSUME NEW y \in Sites, NEW n \in DOMAIN heard'[y]
        PROVE  \E m \in DOMAIN heard[y] : heard'[y][n] = heard[y][m]
    <3>1. CASE y = s
      BY <1>3, <2>1, <3>1
    <3>2. CASE y = Other(s)
      BY <1>1, <2>1, <3>2
    <3> QED
      BY <3>1, <3>2, TwoSites
  <2> QED
    BY <1>1, <2>1 DEF TwinHas, FreshEvents, FreshObject
<1>8. FreshTasks'
  <2>1. ASSUME NEW y \in Sites, NEW i \in DOMAIN tasks'[y]
        PROVE  \/ i \in DOMAIN tasks[y] /\ tasks'[y][i] = tasks[y][i]
               \/ y = s /\ Takes(e) /\ tasks'[y][i] = t
    <3>1. CASE y = s /\ Takes(e)
      BY <1>1, <1>2, <2>1, <3>1, AppendedAt
    <3>2. CASE ~(y = s /\ Takes(e))
      BY <1>1, <2>1, <3>2, TwoSites
    <3> QED
      BY <3>1, <3>2
  <2>2. ASSUME NEW y \in Sites, NEW i \in DOMAIN tasks'[y]
        PROVE  tasks'[y][i].kind = "copy" /\ tasks'[y][i].size = latest.size /\ FreshObject(site[y])
    <3>1. CASE i \in DOMAIN tasks[y] /\ tasks'[y][i] = tasks[y][i]
      BY <3>1 DEF TwinHas, FreshTasks
    <3>2. CASE y = s /\ Takes(e) /\ tasks'[y][i] = t
      BY <1>4, <1>5, <3>2
    <3> QED
      BY <2>1, <2>2, <3>1, <3>2
  <2> QED
    BY <1>1, <2>2 DEF FreshTasks, FreshObject
<1>9. FreshComes(w)'
  <2>1. OnTheWay(w) => OnTheWay(w)'
    <3>1. CASE s = w
      <4>1. Takes(e) => tasks'[w] # <<>>
        BY <1>1, <1>2, <3>1
      <4>2. ~Takes(e) => tasks'[w] = tasks[w]
        BY <1>1
      <4>3. ASSUME NEW m \in DOMAIN heard[w], heard[w][m].origin = 0
            PROVE  Takes(e) \/ \E n \in DOMAIN heard'[w] : heard'[w][n].origin = 0
        BY <1>2, <1>3, <1>5, <3>1, <4>3
      <4> QED
        BY <1>1, <4>1, <4>2, <4>3 DEF OnTheWay
    <3>2. CASE s # w
      <4>1. heard'[w] = heard[w] /\ tasks'[w] = tasks[w]
        BY <1>1, <3>2, TwoSites
      <4> QED
        BY <1>1, <4>1 DEF OnTheWay
    <3> QED
      BY <3>1, <3>2
  <2> QED
    BY <1>1, <2>1 DEF TwinHas, FreshComes, StaleObject, Other
<1> QED
  BY <1>6, <1>7, <1>8, <1>9 DEF TwinHas

\* A copy of what is fresh is fresh, and what was not is so no more.
LEMMA PresentCopied ==
  ASSUME TwinOK, skew = 0, NEW w \in Sites, TwinHas(w), NEW s \in Sites,
         NEW i \in DOMAIN tasks[s], CopyObject(s, i)
  PROVE  TwinHas(w)'
PROOF
<1> DEFINE c == TwinCopy(s, tasks[s][i])
           e == PutEvent(c)
<1>1. /\ UNCHANGED <<latest, up, comparing, listed>> /\ TwinOK'
      /\ tasks[s] \in Seq(TwinTasks)
      /\ Dropped(tasks[s], i, tasks'[s]) /\ tasks'[Other(s)] = tasks[Other(s)]
      /\ \/ site[s].content = 0 \/ site[s].size < tasks[s][i].size
         \/ /\ clock' = clock + 1 /\ site' = [site EXCEPT ![Other(s)] = c] /\ c \in TwinObjects
            /\ Announce(Other(s), e) /\ e \in TwinEvents /\ e.origin # 0
  BY CopyObjectOK
<1>2. Other(s) \in Sites /\ Other(Other(s)) = s /\ site \in [Sites -> TwinObjects]
  BY TwoSites DEF TwinOK, TwinSitesOK
<1>3. tasks[s][i].size = latest.size /\ FreshObject(site[s]) /\ latest.content # 0
  BY DEF TwinHas, FreshTasks, FreshAt
<1>4. /\ site[s].size \in Nat /\ latest.size \in Nat /\ site[s].time \in Nat /\ latest.time \in Nat
      /\ clock \in Nat /\ site[s].time <= clock + 0
  BY TwinAssumption DEF TwinOK, TwinSitesOK, TwinNumbersOK, TwinObjects, TwinSizes
<1>5. /\ clock' = clock + 1 /\ site' = [site EXCEPT ![Other(s)] = c] /\ c \in TwinObjects
      /\ Announce(Other(s), e) /\ e \in TwinEvents /\ e.origin # 0
  BY <1>1, <1>3, <1>4 DEF FreshObject
<1>6. c.content = site[s].content /\ c.size = tasks[s][i].size /\ c.time >= clock + 1
  BY <1>4, <1>5 DEF TwinCopy, TimeAt
<1>7. e.kind \in {"put", "parts"}
  BY DEF PutEvent
<1> HIDE DEF c, e
<1>8. FreshObject(c) /\ site'[Other(s)] = c /\ site'[s] = site[s]
  <2>1. c.time \in Nat
    BY <1>5 DEF TwinObjects
  <2>2. c.time >= latest.time
    BY <1>3, <1>4, <1>6, <2>1 DEF FreshObject
  <2> QED
    BY <1>2, <1>3, <1>5, <1>6, <2>2, TwoSites DEF FreshObject
<1>9. \A x \in Sites : site'[x] = site[x] \/ FreshObject(site'[x])
  BY <1>8, TwoSites
<1>10. \A x \in Sites : FreshObject(site'[x])
  BY <1>3, <1>8, TwoSites
<1>11. FreshAt(w)'
  BY <1>1, <1>3, <1>10 DEF FreshAt, FreshObject
<1>12. FreshTasks'
  <2>1. ASSUME NEW y \in Sites, NEW n \in DOMAIN tasks'[y]
        PROVE  \E m \in DOMAIN tasks[y] : tasks'[y][n] = tasks[y][m]
    <3>1. CASE y = s
      BY <1>1, <2>1, <3>1, WithoutOne
    <3>2. CASE y = Other(s)
      BY <1>1, <2>1, <3>2
    <3> QED
      BY <3>1, <3>2, TwoSites
  <2>2. ASSUME NEW y \in Sites, NEW n \in DOMAIN tasks'[y]
        PROVE  tasks'[y][n].kind = "copy" /\ tasks'[y][n].size = latest.size
    BY <2>1, <2>2 DEF TwinHas, FreshTasks
  <2> QED
    BY <1>1, <1>10, <2>2 DEF FreshTasks, FreshObject
<1>13. FreshListed(w)'
  <2>1. ASSUME NEW y \in Sites, NEW x \in DOMAIN listed[y]
        PROVE  /\ (FreshObject(listed[y][x]) /\ FreshObject(site'[x])) \/ StaleObject(listed[y][x])
               /\ x = w => FreshObject(listed[y][x])
    <3>1. PICK D \in SUBSET Sites : listed[y] \in [D -> TwinObjects]
      BY DEF TwinOK, TwinListedOK, TwinListings
    <3>2. x \in Sites
      BY <3>1
    <3> QED
      BY <1>10, <3>2 DEF TwinHas, FreshListed
  <2> QED
    BY <1>1, <2>1 DEF FreshListed, FreshObject, StaleObject
<1>14. FreshEvents'
  <2>1. heard \in [Sites -> Seq(TwinEvents)] /\ heard[Other(s)] \in Seq(TwinEvents)
    BY <1>2 DEF TwinOK, TwinQueuesOK
  <2>2. ASSUME NEW y \in Sites, NEW n \in DOMAIN heard'[y]
        PROVE  \/ n \in DOMAIN heard[y] /\ heard'[y][n] = heard[y][n]
               \/ heard'[y][n] = e
    <3>1. /\ heard'[s] = heard[s]
          /\ heard'[Other(s)] = heard[Other(s)] \/ heard'[Other(s)] = Append(heard[Other(s)], e)
      BY <1>2, <1>5, Announced
    <3>2. CASE y = s
      BY <2>2, <3>1, <3>2
    <3>3. CASE y = Other(s) /\ heard'[y] = heard[y]
      BY <2>2, <3>3
    <3>4. CASE y = Other(s) /\ heard'[y] = Append(heard[Other(s)], e)
      <4>1. \A m \in DOMAIN Append(heard[Other(s)], e) :
              \/ m \in DOMAIN heard[Other(s)] /\ Append(heard[Other(s)], e)[m] = heard[Other(s)][m]
              \/ Append(heard[Other(s)], e)[m] = e
        <5>1. e \in TwinEvents /\ heard[Other(s)] \in Seq(TwinEvents)
          BY <1>5, <2>1
        <5>2. /\ \A m \in DOMAIN heard[Other(s)] :
                   Append(heard[Other(s)], e)[m] = heard[Other(s)][m]
              /\ \A m \in DOMAIN Append(heard[Other(s)], e) :
                   m \in DOMAIN heard[Other(s)] \/ Append(heard[Other(s)], e)[m] = e
          BY <5>1, AppendedAt
        <5> QED
          BY <5>2
      <4> QED
        BY <2>2, <3>4, <4>1
    <3> QED
      BY <3>1, <3>2, <3>3, <3>4, TwoSites
  <2>3. ASSUME NEW y \in Sites, NEW n \in DOMAIN heard'[y]
        PROVE  /\ heard'[y][n].kind \in {"put", "parts"}
               /\ heard'[y][n].origin = 0 => heard'[y][n].size = latest.size
    <3>1. CASE n \in DOMAIN heard[y] /\ heard'[y][n] = heard[y][n]
      BY <3>1 DEF TwinHas, FreshEvents
    <3>2. CASE heard'[y][n] = e
      BY <1>5, <1>7, <3>2
    <3> QED
      BY <2>2, <2>3, <3>1, <3>2
  <2> QED
    BY <1>1, <1>10, <2>3 DEF FreshEvents, FreshObject
<1>15. FreshComes(w)'
  BY <1>1, <1>10, TwoSites DEF FreshComes, FreshObject, StaleObject, Other
<1> QED
  BY <1>11, <1>12, <1>13, <1>14, <1>15 DEF TwinHas

\* While the object is there, nothing removes it but a user.
LEMMA PresentNotRemoved ==
  ASSUME TwinOK, NEW w \in Sites, TwinHas(w), NEW s \in Sites, NEW i \in DOMAIN tasks[s],
         RemoveObject(s, i)
  PROVE  FALSE
PROOF
  BY DEF RemoveObject, TwinHas, FreshTasks

-----------------------------------------------------------------------------
\* Once a deletion is no longer under way, both sites are without the object.
LEMMA NoneLeft ==
  ASSUME TwinHasNot, ~DeletionUnderWay
  PROVE  \A s \in Sites : site[s].content = 0
PROOF
<1>1. \A s \in Sites : ~WillRemove(s)
  BY DEF DeletionUnderWay, WillRemove
<1>2. ASSUME NEW s \in Sites PROVE site[s].content = 0
  <2>1. Other(s) \in Sites /\ Other(Other(s)) = s
    BY TwoSites
  <2> QED
    BY <1>1, <2>1 DEF TwinHasNot, DeletionComes
<1> QED
  BY <1>2

LEMMA AbsentComesAndGoes ==
  ASSUME TwinOK, clash' = {}, TwinHasNot, NEW s \in Sites, StartTwin(s) \/ StopTwin(s)
  PROVE  TwinHasNot'
PROOF
<1>1. UNCHANGED <<site, latest>> /\ ~DeletionUnderWay
  BY DEF StartTwin, StopTwin, Clash
<1>2. \A x \in Sites : site[x].content = 0
  BY <1>1, NoneLeft
<1>3. ASSUME NEW x \in Sites
      PROVE  /\ heard'[x] = heard[x] \/ heard'[x] = <<>>
             /\ tasks'[x] = tasks[x] \/ tasks'[x] = <<>>
             /\ listed'[x] = listed[x] \/ listed'[x] = <<>>
  BY DEF StartTwin, StopTwin, TwinOK, TwinQueuesOK, TwinListedOK
<1>4. OnlyDeletions'
  BY <1>3 DEF TwinHasNot, OnlyDeletions
<1>5. NothingListed'
  BY <1>1, <1>2, <1>3 DEF TwinHasNot, NothingListed
<1>6. DeletionComes'
  <2>1. ASSUME NEW x \in Sites PROVE (site[Other(x)].content = 0)'
    BY <1>1, <1>2, TwoSites DEF Other
  <2> QED
    BY <2>1 DEF DeletionComes
<1> QED
  BY <1>1, <1>4, <1>5, <1>6 DEF TwinHasNot

LEMMA AbsentListed ==
  ASSUME TwinOK, TwinHasNot, NEW s \in Sites, NEW side \in Sites, ListSide(s, side)
  PROVE  TwinHasNot'
PROOF
<1>1. /\ UNCHANGED <<site, latest, up, heard, comparing, tasks>> /\ comparing[s]
      /\ listed'[Other(s)] = listed[Other(s)] /\ DOMAIN listed'[s] = DOMAIN listed[s] \cup {side}
      /\ \A x \in DOMAIN listed'[s] :
           listed'[s][x] = IF x = side THEN site[side] ELSE listed[s][x]
  BY ListSideOK
<1>2. OnlyDeletions'
  BY <1>1 DEF TwinHasNot, OnlyDeletions
<1>3. DeletionComes'
  BY <1>1 DEF TwinHasNot, DeletionComes, WillRemove, Other
<1>4. NothingListed'
  <2>1. site[side].content = 0
    BY <1>1 DEF TwinHasNot, NothingListed
  <2>2. ASSUME NEW y \in Sites, NEW x \in DOMAIN listed'[y] PROVE listed'[y][x].content = 0
    <3>1. CASE y = s
      BY <1>1, <2>1, <2>2, <3>1 DEF TwinHasNot, NothingListed
    <3>2. CASE y = Other(s)
      BY <1>1, <2>2, <3>2 DEF TwinHasNot, NothingListed
    <3> QED
      BY <3>1, <3>2, TwoSites
  <2> QED
    BY <1>1, <2>2 DEF TwinHasNot, NothingListed
<1> QED
  BY <1>1, <1>2, <1>3, <1>4 DEF TwinHasNot

LEMMA AbsentCompared ==
  ASSUME TwinOK, TwinHasNot, NEW s \in Sites, CompareSides(s)
  PROVE  TwinHasNot'
PROOF
<1>1. /\ UNCHANGED <<site, latest, up, heard>> /\ DOMAIN listed[s] = Sites
      /\ comparing' = [comparing EXCEPT ![s] = FALSE]
      /\ listed' = [listed EXCEPT ![s] = <<>>]
  BY CompareOK
<1>2. listed[s][s].content = 0
  BY <1>1 DEF TwinHasNot, NothingListed
<1>3. tasks' = tasks
  BY <1>2 DEF CompareSides
<1>4. OnlyDeletions'
  BY <1>1, <1>3 DEF TwinHasNot, OnlyDeletions
<1>5. DeletionComes'
  BY <1>1, <1>3 DEF TwinHasNot, DeletionComes, WillRemove, Other
<1>6. NothingListed'
  BY <1>1 DEF TwinHasNot, NothingListed, TwinOK, TwinFlagsOK, TwinListedOK
<1> QED
  BY <1>1, <1>4, <1>5, <1>6 DEF TwinHasNot

LEMMA AbsentHeard ==
  ASSUME TwinOK, TwinHasNot, NEW s \in Sites, HearEvent(s)
  PROVE  TwinHasNot'
PROOF
<1> DEFINE e == Head(heard[s])
<1>1. /\ UNCHANGED <<site, latest, up, comparing, listed>>
      /\ heard[s] \in Seq(TwinEvents) /\ heard[s] # <<>> /\ e \in TwinEvents
      /\ heard'[s] = Tail(heard[s]) /\ heard'[Other(s)] = heard[Other(s)]
      /\ tasks'[Other(s)] = tasks[Other(s)]
      /\ ~Takes(e) => tasks' = tasks
      /\ Takes(e) /\ e.kind = "delete" => tasks'[s] = Append(tasks[s], RemoveTask)
  BY HearEventOK
<1>2. /\ Dropped(heard[s], 1, heard'[s]) /\ heard[s][1] = e /\ 1 \in DOMAIN heard[s]
      /\ tasks[s] \in Seq(TwinTasks) /\ RemoveTask \in TwinTasks
  BY <1>1, TailDrops, TwinData DEF TwinOK, TwinQueuesOK
<1>3. /\ \A n \in DOMAIN heard'[s] : \E m \in DOMAIN heard[s] : heard'[s][n] = heard[s][m]
      /\ \A m \in DOMAIN heard[s] : m # 1 => \E n \in DOMAIN heard'[s] : heard'[s][n] = heard[s][m]
  <2>1. Dropped(heard[s], 1, heard'[s]) /\ 1 \in DOMAIN heard[s] /\ heard[s] \in Seq(TwinEvents)
    BY <1>1, <1>2
  <2> QED
    BY <2>1, WithoutOne
<1>4. e.kind \in {"delete", "mirror"} /\ (Takes(e) <=> e.kind = "delete")
  <2>1. e.kind \in {"delete", "mirror"}
    BY <1>2 DEF TwinHasNot, OnlyDeletions
  <2> QED
    BY <2>1 DEF Takes
<1> HIDE DEF e
<1>5. /\ \A n \in DOMAIN tasks[s] : n \in DOMAIN tasks'[s] /\ tasks'[s][n] = tasks[s][n]
      /\ \A n \in DOMAIN tasks'[s] : n \in DOMAIN tasks[s] \/ tasks'[s][n] = RemoveTask
      /\ e.kind = "delete" => \E n \in DOMAIN tasks'[s] : tasks'[s][n] = RemoveTask
  <2>1. CASE e.kind = "delete"
    <3>1. tasks'[s] = Append(tasks[s], RemoveTask)
      BY <1>1, <1>4, <2>1
    <3> QED
      BY <1>2, <3>1, AppendedAt
  <2>2. CASE e.kind # "delete"
    BY <1>1, <1>4, <2>2
  <2> QED
    BY <2>1, <2>2
<1>6. RemoveTask.kind = "remove"
  BY DEF RemoveTask
<1>7. OnlyDeletions'
  <2>1. ASSUME NEW y \in Sites
        PROVE  /\ \A n \in DOMAIN heard'[y] : heard'[y][n].kind \in {"delete", "mirror"}
               /\ \A n \in DOMAIN tasks'[y] : tasks'[y][n].kind = "remove"
    <3>1. CASE y = s
      BY <1>3, <1>5, <1>6, <3>1 DEF TwinHasNot, OnlyDeletions
    <3>2. CASE y = Other(s)
      BY <1>1, <3>2 DEF TwinHasNot, OnlyDeletions
    <3> QED
      BY <3>1, <3>2, TwoSites
  <2> QED
    BY <2>1 DEF OnlyDeletions
<1>8. NothingListed'
  BY <1>1 DEF TwinHasNot, NothingListed
<1>9. DeletionComes'
  <2>1. WillRemove(s) => WillRemove(s)'
    <3>1. ASSUME NEW m \in DOMAIN heard[s], heard[s][m].kind = "delete" PROVE WillRemove(s)'
      <4>1. CASE m = 1
        BY <1>2, <1>5, <1>6, <3>1, <4>1 DEF WillRemove
      <4>2. CASE m # 1
        BY <1>3, <3>1, <4>2 DEF WillRemove
      <4> QED
        BY <4>1, <4>2
    <3>2. ASSUME NEW m \in DOMAIN tasks[s], tasks[s][m].kind = "remove" PROVE WillRemove(s)'
      BY <1>5, <3>2 DEF WillRemove
    <3> QED
      BY <3>1, <3>2 DEF WillRemove
  <2>2. WillRemove(Other(s)) => WillRemove(Other(s))'
    BY <1>1 DEF WillRemove, Other
  <2>3. ASSUME NEW y \in Sites PROVE WillRemove(y) => WillRemove(y)'
    <3>1. CASE y = s
      BY <2>1, <3>1
    <3>2. CASE y = Other(s)
      BY <1>1, <3>2 DEF WillRemove
    <3> QED
      BY <3>1, <3>2, TwoSites
  <2> QED
    BY <1>1, <2>3 DEF TwinHasNot, DeletionComes, Other
<1> QED
  BY <1>1, <1>7, <1>8, <1>9 DEF TwinHasNot

LEMMA AbsentRemoved ==
  ASSUME TwinOK, TwinHasNot, NEW s \in Sites, NEW i \in DOMAIN tasks[s], RemoveObject(s, i)
  PROVE  TwinHasNot'
PROOF
<1> DEFINE e == DeleteEvent(TRUE)
<1>1. /\ UNCHANGED <<latest, up, comparing, listed>>
      /\ tasks[s] \in Seq(TwinTasks)
      /\ Dropped(tasks[s], i, tasks'[s]) /\ tasks'[Other(s)] = tasks[Other(s)]
      /\ site' = [site EXCEPT ![Other(s)] = NoObject]
      /\ e \in TwinEvents /\ Announce(Other(s), e)
  BY RemoveObjectOK
<1>2. /\ Other(s) \in Sites /\ Other(Other(s)) = s /\ Other(s) # s
      /\ heard[Other(s)] \in Seq(TwinEvents) /\ e.kind = "mirror"
      /\ site \in [Sites -> TwinObjects]
  BY TwoSites DEF TwinOK, TwinQueuesOK, TwinSitesOK, DeleteEvent
<1> HIDE DEF e
<1>3. /\ heard'[s] = heard[s]
      /\ heard'[Other(s)] = heard[Other(s)] \/ heard'[Other(s)] = Append(heard[Other(s)], e)
  BY <1>1, <1>2, Announced
<1>4. /\ \A n \in DOMAIN heard[Other(s)] :
           n \in DOMAIN heard'[Other(s)] /\ heard'[Other(s)][n] = heard[Other(s)][n]
      /\ \A n \in DOMAIN heard'[Other(s)] :
           n \in DOMAIN heard[Other(s)] \/ heard'[Other(s)][n] = e
  <2>1. CASE heard'[Other(s)] = heard[Other(s)]
    BY <2>1
  <2>2. CASE heard'[Other(s)] = Append(heard[Other(s)], e)
    <3>1. e \in TwinEvents /\ heard[Other(s)] \in Seq(TwinEvents)
      BY <1>1, <1>2
    <3>2. /\ \A n \in DOMAIN heard[Other(s)] :
                 /\ n \in DOMAIN Append(heard[Other(s)], e)
                 /\ Append(heard[Other(s)], e)[n] = heard[Other(s)][n]
          /\ \A n \in DOMAIN Append(heard[Other(s)], e) :
                 n \in DOMAIN heard[Other(s)] \/ Append(heard[Other(s)], e)[n] = e
      BY <3>1, AppendedAt
    <3> QED
      BY <2>2, <3>2
  <2> QED
    BY <1>3, <2>1, <2>2
<1>5. \A n \in DOMAIN tasks'[s] : \E m \in DOMAIN tasks[s] : tasks'[s][n] = tasks[s][m]
  BY <1>1, WithoutOne
<1>6. OnlyDeletions'
  <2>1. ASSUME NEW y \in Sites
        PROVE  /\ \A n \in DOMAIN heard'[y] : heard'[y][n].kind \in {"delete", "mirror"}
               /\ \A n \in DOMAIN tasks'[y] : tasks'[y][n].kind = "remove"
    <3>1. CASE y = s
      BY <1>3, <1>5, <3>1 DEF TwinHasNot, OnlyDeletions
    <3>2. CASE y = Other(s)
      BY <1>1, <1>2, <1>4, <3>2 DEF TwinHasNot, OnlyDeletions
    <3> QED
      BY <3>1, <3>2, TwoSites
  <2> QED
    BY <2>1 DEF OnlyDeletions
<1>7. site'[Other(s)].content = 0 /\ site'[s] = site[s]
  BY <1>1, <1>2 DEF NoObject
<1>8. NothingListed'
  <2>1. \A x \in Sites : site[x].content = 0 => site'[x].content = 0
    BY <1>7, TwoSites
  <2> QED
    BY <1>1, <2>1 DEF TwinHasNot, NothingListed
<1>9. DeletionComes'
  <2>1. WillRemove(Other(s)) => WillRemove(Other(s))'
    <3>1. (\E n \in DOMAIN heard[Other(s)] : heard[Other(s)][n].kind = "delete") =>
             \E n \in DOMAIN heard'[Other(s)] : heard'[Other(s)][n].kind = "delete"
      BY <1>4
    <3> QED
      BY <1>1, <3>1 DEF WillRemove, Other
  <2>2. ASSUME NEW y \in Sites, y = s \/ y = Other(s), (site[Other(y)].content # 0)'
        PROVE  (up[y] /\ WillRemove(y))'
    <3>1. y = Other(s)
      BY <1>7, <2>2 DEF Other
    <3>2. site[Other(y)].content # 0
      BY <1>2, <1>7, <2>2, <3>1 DEF Other
    <3>3. up[y] /\ WillRemove(Other(s))
      BY <3>1, <3>2 DEF TwinHasNot, DeletionComes
    <3>4. WillRemove(Other(s))' /\ up'[y]
      BY <1>1, <2>1, <3>3
    <3> QED
      BY <3>1, <3>4 DEF WillRemove
  <2> QED
    BY <2>2, TwoSites DEF DeletionComes
<1> QED
  BY <1>1, <1>6, <1>8, <1>9 DEF TwinHasNot

-----------------------------------------------------------------------------
\* What has clashed has clashed, and the clocks stay as they are.
LEMMA ClashStays == [TwinNext]_twinVars => clash \subseteq clash' /\ skew' = skew
PROOF
  BY DEF TwinNext, twinVars, UserPut, UserDelete, StartTwin, StopTwin, ListSide, CompareSides,
         HearEvent, CopyObject, RemoveObject, Clash

LEMMA CalmAtFirst == TwinInit => TwinCalm
PROOF
<1> SUFFICES ASSUME TwinInit PROVE TwinHasNot
  BY DEF TwinCalm
<1>1. OnlyDeletions /\ NothingListed
  BY DEF TwinInit, OnlyDeletions, NothingListed
<1>2. \A s \in Sites : site[Other(s)].content = 0
  BY TwoSites DEF TwinInit, NoObject
<1> QED
  BY <1>1, <1>2 DEF TwinInit, TwinHasNot, DeletionComes

LEMMA CalmStep == TwinOK /\ TwinCalm /\ [TwinNext]_twinVars => TwinCalm'
PROOF
<1> SUFFICES ASSUME TwinOK, TwinCalm, [TwinNext]_twinVars, clash' = {}, skew' = 0
             PROVE  TwinHasNot' \/ \E w \in Sites : TwinHas(w)'
  BY DEF TwinCalm
<1>1. clash = {} /\ skew = 0
  BY ClashStays
<1>2. CASE UNCHANGED twinVars
  <2>1. UNCHANGED <<site, latest, up, heard, comparing, listed, tasks>>
    BY <1>2 DEF twinVars, mirrors
  <2>2. TwinHasNot => TwinHasNot'
    BY <2>1 DEF TwinHasNot, OnlyDeletions, NothingListed, DeletionComes, WillRemove, Other
  <2>3. ASSUME NEW w \in Sites, TwinHas(w) PROVE TwinHas(w)'
    BY <2>1, <2>3 DEF TwinHas, FreshAt, FreshTasks, FreshEvents, FreshListed, FreshComes,
                      OnTheWay, FreshObject, StaleObject, Other
  <2> QED
    BY <1>1, <2>2, <2>3 DEF TwinCalm
<1>3. ASSUME NEW s \in Sites,
             \/ \E size \in ObjectSizes : UserPut(s, size)
             \/ UserDelete(s) \/ StartTwin(s) \/ StopTwin(s)
             \/ \E side \in Sites : ListSide(s, side)
             \/ CompareSides(s) \/ HearEvent(s)
             \/ \E i \in DOMAIN tasks[s] : CopyObject(s, i) \/ RemoveObject(s, i)
      PROVE  TwinHasNot' \/ \E w \in Sites : TwinHas(w)'
  <2>1. ASSUME NEW size \in ObjectSizes, UserPut(s, size) PROVE TwinHas(s)'
    BY <1>1, <2>1, PutIsFresh
  <2>2. CASE UserDelete(s)
    BY <2>2, DeleteIsAbsent
  <2>3. ASSUME TwinHasNot, ~UserDelete(s), \A size \in ObjectSizes : ~UserPut(s, size) PROVE TwinHasNot'
    <3>1. ASSUME NEW side \in Sites, ListSide(s, side) PROVE TwinHasNot'
      BY <2>3, <3>1, AbsentListed
    <3>2. ASSUME NEW i \in DOMAIN tasks[s], CopyObject(s, i) PROVE TwinHasNot'
      BY <2>3, <3>2 DEF TwinHasNot, OnlyDeletions, CopyObject
    <3>3. ASSUME NEW i \in DOMAIN tasks[s], RemoveObject(s, i) PROVE TwinHasNot'
      BY <2>3, <3>3, AbsentRemoved
    <3> QED
      BY <1>3, <2>3, <3>1, <3>2, <3>3, AbsentComesAndGoes, AbsentCompared, AbsentHeard
  <2>4. ASSUME NEW w \in Sites, TwinHas(w), ~UserDelete(s),
               \A size \in ObjectSizes : ~UserPut(s, size)
        PROVE  TwinHas(w)'
    <3>1. ASSUME NEW side \in Sites, ListSide(s, side) PROVE TwinHas(w)'
      BY <2>4, <3>1, PresentListed
    <3>2. ASSUME NEW i \in DOMAIN tasks[s], CopyObject(s, i) PROVE TwinHas(w)'
      BY <1>1, <2>4, <3>2, PresentCopied
    <3>3. ASSUME NEW i \in DOMAIN tasks[s], RemoveObject(s, i) PROVE TwinHas(w)'
      BY <2>4, <3>3, PresentNotRemoved
    <3>4. CASE StartTwin(s) \/ StopTwin(s)
      BY <2>4, <3>4, PresentComesAndGoes
    <3>5. CASE CompareSides(s)
      BY <1>1, <2>4, <3>5, PresentCompared
    <3>6. CASE HearEvent(s)
      BY <2>4, <3>6, PresentHeard
    <3> QED
      BY <1>3, <2>4, <3>1, <3>2, <3>3, <3>4, <3>5, <3>6
  <2> QED
    BY <1>1, <2>1, <2>2, <2>3, <2>4 DEF TwinCalm
<1> QED
  BY <1>2, <1>3 DEF TwinNext

LEMMA NothingOwedAtFirst == TwinInit => CopiesOwed
PROOF
<1> SUFFICES ASSUME TwinInit PROVE CopiesOwed
  OBVIOUS
<1>1. \A s \in Sites : Owed(s) = 0
  <2>1. ASSUME NEW s \in Sites PROVE heard[s] = <<>> /\ tasks[s] = <<>> /\ ~comparing[s]
    BY DEF TwinInit
  <2> QED
    BY <2>1, CountNone DEF Owed, WillHear, WillCopy, WillCompare
<1> QED
  BY <1>1, TwoSites DEF TwinInit, CopiesOwed, Paid

\* SitesAgree: every copy is paid for, so that two mirrors do not answer each
\* other for ever; and when both are up, have compared and have nothing left to
\* do, both sites have what the users want, unless something clashed.
THEOREM TwinsAgree == TwinSpec => []SitesAgree
PROOF
<1>1. TwinOK /\ CopiesOwed => copies <= userChanges + mirrorStarts + echoes
  <2> SUFFICES ASSUME TwinOK, CopiesOwed PROVE copies <= userChanges + mirrorStarts + echoes
    OBVIOUS
  <2>1. "A" \in Sites /\ Other("A") \in Sites
    BY DEF Sites, Other
  <2>2. Owed("A") \in Nat /\ Owed(Other("A")) \in Nat /\ copies \in Nat
        /\ userChanges \in Nat /\ mirrorStarts \in Nat /\ echoes \in Nat
    BY <2>1, OwedNat, TwinAssumption DEF TwinOK, TwinNumbersOK
  <2>3. copies + Owed("A") + Owed(Other("A")) <= userChanges + mirrorStarts + echoes
    BY <2>1 DEF CopiesOwed, Paid
  <2> QED
    BY <2>2, <2>3
<1>2. TwinOK /\ TwinCalm /\ clash = {} /\ skew = 0 /\ NothingUnderWay /\ up["A"] /\ up["B"]
        => \A s \in Sites : Same(site[s], latest)
  <2> SUFFICES ASSUME TwinOK, TwinCalm, clash = {}, skew = 0, NothingUnderWay, up["A"], up["B"],
                      NEW s \in Sites
               PROVE  Same(site[s], latest)
    OBVIOUS
  <2>1. CASE TwinHasNot
    <3>1. \A x \in Sites : site[x].content = 0
      <4>1. ~DeletionUnderWay
        BY DEF NothingUnderWay, DeletionUnderWay
      <4> QED
        BY <2>1, <4>1, NoneLeft
    <3>2. site[s] = NoObject
      BY <3>1 DEF TwinOK, TwinSitesOK, TwinObjects
    <3> QED
      BY <2>1, <3>2 DEF TwinHasNot, Same
  <2>2. ASSUME NEW w \in Sites, TwinHas(w) PROVE Same(site[s], latest)
    <3>1. up[w] /\ ~OnTheWay(w)
      BY DEF NothingUnderWay, OnTheWay, Sites
    <3>2. ~StaleObject(site[Other(w)]) /\ ~StaleObject(site[w])
      BY <2>2, <3>1 DEF TwinHas, FreshComes, FreshAt, FreshObject, StaleObject
    <3>3. s = w \/ s = Other(w)
      BY TwoSites
    <3>4. FreshObject(site[s])
      BY <2>2, <3>2, <3>3 DEF TwinHas, FreshAt
    <3> QED
      BY <3>4 DEF FreshObject, Same
  <2> QED
    BY <2>1, <2>2 DEF TwinCalm
<1>3. TwinOK /\ CopiesOwed /\ TwinCalm => SitesAgree
  BY <1>1, <1>2 DEF SitesAgree
<1>4. TwinInit => TwinOK /\ CopiesOwed /\ TwinCalm
  BY TwinInitOK, NothingOwedAtFirst, CalmAtFirst
<1>5. TwinOK /\ CopiesOwed /\ TwinCalm /\ [TwinNext]_twinVars => (TwinOK /\ CopiesOwed /\ TwinCalm)'
  BY TwinStep, PaidStep, CalmStep
<1> QED
  BY <1>3, <1>4, <1>5, PTL DEF TwinSpec

===============================================================================
