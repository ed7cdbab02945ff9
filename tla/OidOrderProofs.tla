--------------------------- MODULE OidOrderProofs ---------------------------
(***************************************************************************)
(* The mathematics of the order and the kinship of OIDs, for sequences of  *)
(* integers of any length: the order is strict and total, a subtree has no *)
(* gaps, and a finite set can be sorted.                                   *)
(***************************************************************************)
EXTENDS OidOrder, FiniteSetTheorems, WellFoundedInduction, TLAPS

\* Every set of numbers that is not empty has a least one.
LEMMA LeastNumber ==
  ASSUME NEW S \in SUBSET Nat, S # {}
  PROVE  \E m \in S : \A k \in S : m <= k
<1> DEFINE R == OpToRel(<, Nat)
<1>1. IsWellFoundedOn(R, Nat)
  BY NatLessThanWellFounded, Zenon
<1>2. PICK m \in S : \A k \in S : ~(<<k, m>> \in R)
  <2> HIDE DEF R
  <2> QED
    BY <1>1, WFMin
<1>3. ASSUME NEW k \in S PROVE m <= k
  <2>1. <<k, m>> \notin {ss \in Nat \X Nat : ss[1] < ss[2]}
    BY <1>2, Zenon DEF OpToRel
  <2> QED
    BY <2>1
<1> QED
  BY <1>3

\* The places of the elements of a concatenation.
LEMMA ConcatPlaces ==
  ASSUME NEW a \in Seq(Int), NEW b \in Seq(Int)
  PROVE  /\ a \o b \in Seq(Int)
         /\ Len(a \o b) = Len(a) + Len(b)
         /\ \A i \in 1..Len(a) : (a \o b)[i] = a[i]
         /\ \A i \in 1..Len(b) : (a \o b)[Len(a) + i] = b[i]
  OBVIOUS

\* An element of a sequence.
LEMMA ElementOf ==
  ASSUME NEW S, NEW s \in Seq(S), NEW i \in DOMAIN s
  PROVE  s[i] \in S
  OBVIOUS

-----------------------------------------------------------------------------
\* The order

\* An OID is smaller than each of its children.
THEOREM ParentIsSmaller ==
  ASSUME NEW root \in Seq(Int), NEW a \in Seq(Int), IsChildOf(a, root)
  PROVE  Less(root, a)
<1>1. Len(root) + 1 \in DOMAIN a /\ \A k \in 1..(Len(root) + 1 - 1) : root[k] = a[k]
  BY DEF IsChildOf
<1> QED
  BY <1>1 DEF Less

\* No OID is smaller than itself.
LEMMA LessIrreflexive ==
  ASSUME NEW a \in Seq(Int)
  PROVE  ~Less(a, a)
BY DEF Less

\* The order is transitive.
LEMMA LessTransitive ==
  ASSUME NEW a \in Seq(Int), NEW b \in Seq(Int), NEW c \in Seq(Int), Less(a, b), Less(b, c)
  PROVE  Less(a, c)
<1>1. PICK i \in DOMAIN b :
        /\ i = Len(a) + 1 \/ (i \in DOMAIN a /\ a[i] < b[i])
        /\ \A k \in 1..(i - 1) : a[k] = b[k]
  BY DEF Less
<1>2. PICK j \in DOMAIN c :
        /\ j = Len(b) + 1 \/ (j \in DOMAIN b /\ b[j] < c[j])
        /\ \A k \in 1..(j - 1) : b[k] = c[k]
  BY DEF Less
<1>3. CASE i < j
  <2>1. i \in DOMAIN c /\ i \in 1..(j - 1) /\ \A k \in 1..(i - 1) : k \in 1..(j - 1)
    BY <1>3
  <2>2. b[i] = c[i] /\ \A k \in 1..(i - 1) : a[k] = c[k]
    BY <1>1, <1>2, <2>1, Zenon
  <2> QED
    BY <1>1, <2>1, <2>2 DEF Less
<1>4. CASE j <= i
  <2>1. j \in DOMAIN b /\ b[j] < c[j] /\ \A k \in 1..(j - 1) : k \in 1..(i - 1)
    BY <1>2, <1>4
  <2>2. \A k \in 1..(j - 1) : a[k] = c[k]
    BY <1>1, <1>2, <2>1, Zenon
  <2>3. CASE j = i
    <3>1. j \in DOMAIN a => a[j] \in Int /\ b[j] \in Int /\ c[j] \in Int
      BY <2>1
    <3>2. j = Len(a) + 1 \/ (j \in DOMAIN a /\ a[j] < c[j])
      BY <1>1, <2>1, <2>3, <3>1
    <3> QED
      BY <2>2, <3>2 DEF Less
  <2>4. CASE j < i
    <3>1. j \in 1..(i - 1) /\ j \in DOMAIN a
      <4>1. i \in Nat /\ j \in Nat /\ 1 <= j /\ Len(a) \in Nat /\ DOMAIN a = 1..Len(a)
        OBVIOUS
      <4>2. i <= Len(a) + 1
        BY <1>1, <4>1
      <4> QED
        BY <2>4, <4>1, <4>2
    <3>2. a[j] < c[j]
      BY <1>1, <2>1, <3>1
    <3> QED
      BY <2>2, <3>1, <3>2 DEF Less
  <2> QED
    BY <1>4, <2>3, <2>4
<1> QED
  BY <1>3, <1>4

\* Of two OIDs that differ, one is smaller.
LEMMA LessTotal ==
  ASSUME NEW a \in Seq(Int), NEW b \in Seq(Int), a # b
  PROVE  Less(a, b) \/ Less(b, a)
<1> DEFINE differ(i) == i \in DOMAIN a /\ i \in DOMAIN b => a[i] # b[i]
<1> DEFINE S == {i \in Nat : (i \in DOMAIN a \/ i \in DOMAIN b) /\ differ(i)}
<1>1. S # {}
  <2>1. CASE Len(a) = Len(b)
    <3>1. PICK i \in 1..Len(a) : a[i] # b[i]
      BY <2>1
    <3>2. i \in S
      BY <2>1, <3>1
    <3> QED
      BY <3>2
  <2>2. CASE Len(a) < Len(b)
    <3>1. Len(a) + 1 \in S
      BY <2>2
    <3> QED
      BY <3>1
  <2>3. CASE Len(b) < Len(a)
    <3>1. Len(b) + 1 \in S
      BY <2>3
    <3> QED
      BY <3>1
  <2> QED
    BY <2>1, <2>2, <2>3
<1>2. PICK i \in S : \A k \in S : i <= k
  <2>1. S \in SUBSET Nat
    OBVIOUS
  <2> HIDE DEF S
  <2> QED
    BY <1>1, <2>1, LeastNumber
<1>3. \A k \in 1..(i - 1) : k \in DOMAIN a /\ k \in DOMAIN b /\ a[k] = b[k]
  <2> SUFFICES ASSUME NEW k \in 1..(i - 1) PROVE k \in DOMAIN a /\ k \in DOMAIN b /\ a[k] = b[k]
    OBVIOUS
  <2>1. k \in Nat /\ k \notin S /\ (k \in DOMAIN a \/ k \in DOMAIN b)
    BY <1>2
  <2> QED
    BY <2>1
<1>4. CASE i \in DOMAIN a /\ i \in DOMAIN b
  BY <1>3, <1>4 DEF Less
<1>5. CASE i \notin DOMAIN a
  <2>1. i \in DOMAIN b /\ i = Len(a) + 1
    BY <1>2, <1>3, <1>5
  <2> QED
    BY <1>3, <2>1 DEF Less
<1>6. CASE i \notin DOMAIN b
  <2>1. i \in DOMAIN a /\ i = Len(b) + 1
    BY <1>2, <1>3, <1>6
  <2> QED
    BY <1>3, <2>1 DEF Less
<1> QED
  BY <1>4, <1>5, <1>6

\* What follows an OID in the order without being its child follows all of its
\* children: a walk which stops there has seen all of them.
THEOREM ChildrenAreContiguous ==
  ASSUME NEW root \in Seq(Int), NEW a \in Seq(Int), NEW b \in Seq(Int),
         IsChildOf(a, root), Less(root, b), ~IsChildOf(b, root)
  PROVE  Less(a, b)
<1>1. PICK i \in DOMAIN b :
        /\ i = Len(root) + 1 \/ (i \in DOMAIN root /\ root[i] < b[i])
        /\ \A k \in 1..(i - 1) : root[k] = b[k]
  BY DEF Less
<1>2. Len(root) < Len(a) /\ root # <<>> /\ \A k \in DOMAIN root : a[k] = root[k]
  BY DEF IsChildOf
<1>3. i # Len(root) + 1
  <2> SUFFICES ASSUME i = Len(root) + 1 PROVE FALSE
    OBVIOUS
  <2>1. Len(root) < Len(b) /\ \A k \in DOMAIN root : k \in 1..(i - 1)
    OBVIOUS
  <2> QED
    BY <1>1, <1>2, <2>1, Zenon DEF IsChildOf
<1>4. i \in DOMAIN a /\ a[i] < b[i]
  BY <1>1, <1>2, <1>3
<1>5. \A k \in 1..(i - 1) : a[k] = b[k]
  <2>1. \A k \in 1..(i - 1) : k \in DOMAIN root
    BY <1>1, <1>3
  <2> QED
    BY <1>1, <1>2, <2>1, Zenon
<1> QED
  BY <1>4, <1>5 DEF Less

-----------------------------------------------------------------------------
\* Sorted sets

\* How many elements of S are at most o.
Rank(S, o) == Cardinality({p \in S : Less(p, o)}) + 1

\* The ranks of the elements of a finite set are the numbers from 1 to its size, and the
\* order of the ranks is the order of the elements.
LEMMA Ranks ==
  ASSUME NEW S \in SUBSET Seq(Int), IsFiniteSet(S)
  PROVE  /\ Cardinality(S) \in Nat
         /\ \A o \in S : Rank(S, o) \in 1..Cardinality(S)
         /\ \A o, p \in S : Less(o, p) <=> Rank(S, o) < Rank(S, p)
         /\ \A k \in 1..Cardinality(S) : \E o \in S : Rank(S, o) = k
<1> DEFINE below(o) == {p \in S : Less(p, o)}
<1>1. Cardinality(S) \in Nat /\ \A o \in S : IsFiniteSet(below(o)) /\ Cardinality(below(o)) \in Nat
  BY FS_Subset, FS_CardinalityType
<1>2. ASSUME NEW o \in S PROVE Rank(S, o) \in 1..Cardinality(S)
  <2>1. o \notin below(o) /\ below(o) \in SUBSET S
    BY LessIrreflexive
  <2>2. Cardinality(below(o)) # Cardinality(S) /\ Cardinality(below(o)) <= Cardinality(S)
    <3> HIDE DEF below
    <3> QED
      BY <2>1, FS_Subset
  <2>3. Cardinality(below(o)) \in Nat
    BY <1>1
  <2>4. Rank(S, o) = Cardinality(below(o)) + 1
    BY DEF Rank
  <2> HIDE DEF below
  <2> QED
    BY <1>1, <2>2, <2>3, <2>4
<1>3. ASSUME NEW o \in S, NEW p \in S, Less(o, p) PROVE Rank(S, o) < Rank(S, p)
  <2>1. below(o) \in SUBSET below(p) /\ o \in below(p) /\ o \notin below(o)
    BY <1>3, LessTransitive, LessIrreflexive
  <2>2. IsFiniteSet(below(p)) /\ Cardinality(below(o)) \in Nat /\ Cardinality(below(p)) \in Nat
    BY <1>1
  <2>3. Cardinality(below(o)) <= Cardinality(below(p)) /\ Cardinality(below(o)) # Cardinality(below(p))
    <3> HIDE DEF below
    <3> QED
      BY <2>1, <2>2, FS_Subset
  <2> QED
    BY <2>2, <2>3 DEF Rank
<1>4. \A o, p \in S : Less(o, p) <=> Rank(S, o) < Rank(S, p)
  <2> SUFFICES ASSUME NEW o \in S, NEW p \in S, Rank(S, o) < Rank(S, p) PROVE Less(o, p)
    BY <1>3
  <2>1. Rank(S, o) \in Nat /\ Rank(S, p) \in Nat
    BY <1>2
  <2>2. o # p /\ ~Less(p, o)
    BY <1>3, <2>1
  <2> QED
    BY <2>2, LessTotal
<1>5. ASSUME NEW k \in 1..Cardinality(S) PROVE \E o \in S : Rank(S, o) = k
  <2> DEFINE T == 1..Cardinality(S)
             f == [o \in S |-> Rank(S, o)]
  <2>1. f \in [S -> T]
    BY <1>2
  <2>2. \A o, p \in S : f[o] = f[p] => o = p
    <3> SUFFICES ASSUME NEW o \in S, NEW p \in S, Rank(S, o) = Rank(S, p), o # p PROVE FALSE
      OBVIOUS
    <3>1. Rank(S, o) \in Nat
      BY <1>2
    <3> QED
      BY <1>3, <3>1, LessTotal
  <2>3. IsFiniteSet(T) /\ Cardinality(T) = Cardinality(S)
    BY <1>1, FS_Interval
  <2>4. f \in Surjection(S, T)
    <3>1. f \in Injection(S, T)
      BY <2>1, <2>2 DEF Injection, IsInjective
    <3> HIDE DEF f, T
    <3> QED
      BY <2>3, <3>1, FS_Injection
  <2> QED
    BY <2>4 DEF Surjection
<1> QED
  BY <1>1, <1>2, <1>4, <1>5

\* Sorted lists the elements of a finite set, each once, from the least one on.
THEOREM SortedIsSorted ==
  ASSUME NEW S \in SUBSET Seq(Int), IsFiniteSet(S)
  PROVE  /\ Sorted(S) \in Seq(S) /\ Len(Sorted(S)) = Cardinality(S)
         /\ \A o \in S : \E k \in 1..Cardinality(S) : Sorted(S)[k] = o
         /\ \A j, k \in 1..Cardinality(S) : j < k => Less(Sorted(S)[j], Sorted(S)[k])
<1> DEFINE n == Cardinality(S)
<1>1. ASSUME NEW k \in 1..n PROVE Sorted(S)[k] \in S /\ Rank(S, Sorted(S)[k]) = k
  <2>1. PICK o \in S : Rank(S, o) = k
    BY Ranks
  <2>2. Cardinality({p \in S : Less(p, o)}) = k - 1
    <3>1. IsFiniteSet({p \in S : Less(p, o)})
      BY FS_Subset
    <3>2. Cardinality({p \in S : Less(p, o)}) \in Nat
      BY <3>1, FS_CardinalityType
    <3> QED
      BY <2>1, <3>2 DEF Rank
  <2>3. Sorted(S)[k] = CHOOSE q \in S : Cardinality({p \in S : Less(p, q)}) = k - 1
    BY DEF Sorted
  <2>4. Sorted(S)[k] \in S /\ Cardinality({p \in S : Less(p, Sorted(S)[k])}) = k - 1
    BY <2>2, <2>3
  <2> QED
    BY <2>4 DEF Rank
<1>2. n \in Nat
  BY Ranks
<1>3. Sorted(S) \in Seq(S) /\ Len(Sorted(S)) = n
  <2> DEFINE kth(k) == CHOOSE o \in S : Cardinality({p \in S : Less(p, o)}) = k - 1
  <2>1. Sorted(S) = [k \in 1..n |-> kth(k)]
    BY Zenon DEF Sorted
  <2> HIDE DEF kth
  <2>2. \A k \in 1..n : kth(k) \in S
    BY <1>1, <2>1
  <2> QED
    BY <1>2, <2>1, <2>2
<1>4. ASSUME NEW o \in S PROVE \E k \in 1..n : Sorted(S)[k] = o
  <2> DEFINE k == Rank(S, o)
  <2>1. k \in 1..n
    BY Ranks
  <2>2. Sorted(S)[k] \in S /\ Rank(S, Sorted(S)[k]) = k
    BY <1>1, <2>1
  <2>3. ~Less(o, Sorted(S)[k]) /\ ~Less(Sorted(S)[k], o)
    BY <2>1, <2>2, Ranks
  <2>4. Sorted(S)[k] = o
    BY <2>2, <2>3, LessTotal
  <2> QED
    BY <2>1, <2>4
<1>5. \A j, k \in 1..n : j < k => Less(Sorted(S)[j], Sorted(S)[k])
  BY <1>1, Ranks
<1> QED
  BY <1>3, <1>4, <1>5
=============================================================================
