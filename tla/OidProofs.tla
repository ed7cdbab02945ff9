----------------------------- MODULE OidProofs -----------------------------
(***************************************************************************)
(* What the text, the order, the kinship and the names of OIDs have to do  *)
(* with each other, for OIDs of any length, integers of any width and any  *)
(* MIB modules.                                                            *)
(***************************************************************************)
EXTENDS MibLookup, OidOrderProofs, SequenceTheorems

-----------------------------------------------------------------------------
\* Text

\* What is read of a number is an oid.
LEMMA AtoiType ==
  ASSUME NEW n \in Nat
  PROVE  Atoi(n) \in OidValues
<1> DEFINE m == IF n < HalfOid THEN n ELSE HalfOid - 1
<1> DEFINE low == m % (2 * HalfInt)
<1>1. m \in Int /\ 2 * HalfInt \in Int /\ 2 * HalfInt > 0
  BY WidthAssumption
<1>2. low \in 0..(2 * HalfInt - 1)
  <2> HIDE DEF m
  <2> QED
    BY <1>1
<1> HIDE DEF low
<1>3. Atoi(n) = IF low < HalfInt THEN low ELSE low + 2 * HalfOid - 2 * HalfInt
  BY DEF Atoi, low
<1> QED
  BY <1>2, <1>3, WidthAssumption DEF OidValues

\* A number that fits an int is read as it is.
LEMMA AtoiExact ==
  ASSUME NEW n \in Nat, n < HalfInt
  PROVE  Atoi(n) = n
<1>1. n < HalfOid /\ 2 * HalfInt \in Nat \ {0} /\ n < 2 * HalfInt
  BY WidthAssumption
<1>2. n % (2 * HalfInt) = n
  <2> SUFFICES ASSUME NEW w \in Nat \ {0}, n < w PROVE n % w = n
    BY <1>1
  <2> QED
    OBVIOUS
<1> QED
  BY <1>1, <1>2 DEF Atoi

\* The loop reads n numbers if it comes to the n-th one and not to the next one.
LEMMA ReadsExactly ==
  ASSUME NEW s \in Seq(Int), NEW n \in Nat, n <= Len(s),
         \A k \in 1..n : Readable(s, k), ~Readable(s, n + 1)
  PROVE  Reads(s) = n
<1> DEFINE S == {k \in 1..Len(s) : \A j \in 1..k : Readable(s, j)}
<1>1. S = 1..n
  <2>1. ASSUME NEW k \in S PROVE k \in 1..n
    <3>1. k \in Nat /\ 1 <= k /\ \A j \in 1..k : Readable(s, j)
      OBVIOUS
    <3>2. CASE k <= n
      BY <3>1, <3>2
    <3>3. CASE n + 1 <= k
      <4>1. n + 1 \in 1..k
        BY <3>1, <3>3
      <4> QED
        BY <3>1, <4>1, Zenon
    <3> QED
      BY <3>1, <3>2, <3>3
  <2>2. ASSUME NEW k \in 1..n PROVE k \in S
    <3>1. k \in 1..Len(s)
      OBVIOUS
    <3>2. \A j \in 1..k : j \in 1..n
      OBVIOUS
    <3> QED
      BY <3>1, <3>2, Zenon
  <2> QED
    BY <2>1, <2>2, Zenon
<1>2. Cardinality(1..n) = n
  BY FS_Interval
<1> QED
  BY <1>1, <1>2 DEF Reads

\* The loop comes to each of the numbers it reads.
LEMMA ReadsReadable ==
  ASSUME NEW s \in Seq(Int)
  PROVE  Reads(s) \in Nat /\ \A k \in 1..Reads(s) : Readable(s, k)
<1> DEFINE S == {k \in 1..Len(s) : \A j \in 1..k : Readable(s, j)}
<1>1. IsFiniteSet(1..Len(s)) /\ S \subseteq 1..Len(s)
  BY FS_Interval
<1>2. IsFiniteSet(S) /\ Cardinality(S) \in Nat
  BY <1>1, FS_Subset, FS_CardinalityType
<1>3. ASSUME NEW k \in 1..Cardinality(S), ~Readable(s, k) PROVE FALSE
  <2>1. S \subseteq 1..(k - 1)
    <3> SUFFICES ASSUME NEW i \in S PROVE i \in 1..(k - 1)
      OBVIOUS
    <3>1. i \in Nat /\ 1 <= i /\ \A j \in 1..i : Readable(s, j)
      OBVIOUS
    <3>2. k \notin 1..i
      BY <3>1, <1>3, Zenon
    <3> QED
      BY <1>2, <3>1, <3>2
  <2>2. IsFiniteSet(1..(k - 1)) /\ Cardinality(1..(k - 1)) = k - 1
    <3>1. 1 \in Int /\ k - 1 \in Int /\ (1 > k - 1 <=> k = 1) /\ k - 1 - 1 + 1 = k - 1
      BY <1>2
    <3> QED
      BY <3>1, FS_Interval
  <2>3. Cardinality(S) <= k - 1
    BY <2>1, <2>2, FS_Subset
  <2> QED
    BY <1>2, <2>3
<1> QED
  BY <1>2, <1>3 DEF Reads

\* Whatever text is read, the result is a sequence of oids.
LEMMA ValuesType ==
  ASSUME NEW s \in Texts
  PROVE  ValuesOf(s) \in Seq(OidValues)
<1>1. s \in Seq({Dot, Junk} \cup Numbers)
  <2>1. s \in UNION {[1..m -> {Dot, Junk} \cup Numbers] : m \in 0..MaxTokens}
    BY DEF Texts, BoundedSeq, SeqOf
  <2>2. PICK m \in 0..MaxTokens : s \in [1..m -> {Dot, Junk} \cup Numbers]
    BY <2>1
  <2>3. m \in Nat
    BY BoundsAssumption
  <2> QED
    BY <2>2, <2>3
<1>2. s \in Seq(Int)
  <2>1. {Dot, Junk} \cup Numbers \subseteq Int
    BY ValuesAssumption DEF Dot, Junk
  <2> QED
    BY <1>1, <2>1
<1>3. ASSUME NEW k \in 1..Reads(s) PROVE Atoi(s[Place(s, k)]) \in OidValues
  <2>1. Readable(s, k) /\ k \in Nat /\ 1 <= k
    BY <1>2, ReadsReadable
  <2>2. Place(s, k) \in 1..Len(s) /\ s[Place(s, k)] \notin {Dot, Junk}
    BY <1>2, <2>1 DEF Readable, Place
  <2>3. s[Place(s, k)] \in Numbers
    BY <1>1, <2>2
  <2> QED
    BY <2>3, AtoiType, ValuesAssumption
<1> QED
  BY <1>2, <1>3, ReadsReadable DEF ValuesOf

\* A text that starts with the numbers of o, each with a dot in front of it except
\* perhaps the first one, and that does not go on with a number, is read as o.
LEMMA ReadsNumbers ==
  ASSUME NEW o \in Seq(Nat), NEW s \in Seq(Int), NEW n \in Nat, NEW c \in 0..1,
         n = Len(o), 1 <= n, c + 2 * n - 1 <= Len(s),
         \A k \in 1..n : o[k] < HalfInt,
         \A k \in 1..n : s[c + 2 * k - 1] = o[k],
         \A k \in 1..n : c = 1 \/ k # 1 => s[c + 2 * k - 2] = Dot,
         Len(s) <= c + 2 * n + 1, Len(s) = c + 2 * n + 1 => s[c + 2 * n + 1] \in {Dot, Junk}
  PROVE  ValuesOf(s) = o
<1>1. Len(s) \in Nat /\ 1 <= Len(s) /\ c \in Int
  OBVIOUS
<1>2. s # <<>>
  BY <1>1
<1>3. s[1] = Dot <=> c = 1
  <2>1. 1 \in 1..n
    OBVIOUS
  <2>2. CASE c = 1
    <3>1. c = 1 => s[c + 2 * 1 - 2] = Dot
      BY <2>1
    <3>2. c + 2 * 1 - 2 = 1
      BY <2>2
    <3> QED
      BY <2>2, <3>1, <3>2
  <2>3. CASE c = 0
    <3>1. s[c + 2 * 1 - 1] = o[1] /\ o[1] \in Nat
      BY <2>1
    <3>2. c + 2 * 1 - 1 = 1
      BY <2>3
    <3>3. o[1] # Dot
      BY <3>1 DEF Dot
    <3> QED
      BY <2>3, <3>1, <3>2, <3>3
  <2> QED
    BY <1>1, <2>2, <2>3
<1>4. ASSUME NEW k \in Nat PROVE Place(s, k) = c + 2 * k - 1
  <2>1. Place(s, k) = (IF s[1] = Dot THEN 2 ELSE 1) + 2 * (k - 1)
    BY <1>2, Zenon DEF Place
  <2> QED
    BY <1>1, <1>3, <2>1
<1>5. ASSUME NEW k \in 1..n PROVE Readable(s, k)
  <2>1. k \in Nat /\ 1 <= k /\ k <= n
    OBVIOUS
  <2>2. Place(s, k) = c + 2 * k - 1
    BY <1>4, <2>1
  <2>3. Place(s, k) <= Len(s)
    BY <1>1, <2>1, <2>2
  <2>4. s[Place(s, k)] \notin {Dot, Junk}
    <3>1. s[c + 2 * k - 1] = o[k] /\ o[k] \in Nat
      OBVIOUS
    <3> QED
      BY <2>2, <3>1 DEF Dot, Junk
  <2>5. k = 1 \/ s[Place(s, k) - 1] = Dot
    <3>1. Place(s, k) - 1 = c + 2 * k - 2
      BY <1>1, <2>1, <2>2
    <3> QED
      BY <3>1
  <2> QED
    BY <2>3, <2>4, <2>5, Zenon DEF Readable
<1>6. ~Readable(s, n + 1)
  <2>1. Place(s, n + 1) = c + 2 * n + 1
    <3>1. n + 1 \in Nat /\ c + 2 * (n + 1) - 1 = c + 2 * n + 1
      BY <1>1
    <3> QED
      BY <1>4, <3>1
  <2>2. c + 2 * n + 1 <= Len(s) => s[c + 2 * n + 1] \in {Dot, Junk}
    BY <1>1
  <2> QED
    BY <2>1, <2>2, Zenon DEF Readable
<1>7. Reads(s) = n
  <2>1. n <= Len(s)
    BY <1>1
  <2> QED
    BY <1>5, <1>6, <2>1, ReadsExactly
<1>8. ASSUME NEW k \in 1..n PROVE Atoi(s[Place(s, k)]) = o[k]
  <2>1. Place(s, k) = c + 2 * k - 1
    BY <1>4
  <2>2. o[k] \in Nat /\ o[k] < HalfInt
    OBVIOUS
  <2> QED
    BY <2>1, <2>2, AtoiExact
<1>9. o = [k \in 1..n |-> o[k]]
  OBVIOUS
<1> QED
  BY <1>7, <1>8, <1>9, Zenon DEF ValuesOf

\* The places of the dots and numbers in the text of an OID.
LEMMA TextPlaces ==
  ASSUME NEW o \in Seq(Nat), NEW n \in Nat, n = Len(o)
  PROVE  /\ ToStr(o) \in Seq(Int) /\ Len(ToStr(o)) = 2 * n
         /\ \A k \in 1..n : ToStr(o)[2 * k - 1] = Dot
         /\ \A k \in 1..n : ToStr(o)[2 * k] = o[k]
<1>1. ASSUME NEW k \in 1..(2 * n), k % 2 # 1 PROVE o[k \div 2] \in Int
  <2>1. k \div 2 \in 1..n
    BY <1>1
  <2> QED
    BY <2>1
<1>2. ToStr(o) \in [1..(2 * n) -> Int]
  BY <1>1 DEF ToStr, Dot
<1>3. ASSUME NEW k \in 1..n
      PROVE  ToStr(o)[2 * k - 1] = Dot /\ ToStr(o)[2 * k] = o[k]
  <2>1. /\ 2 * k - 1 \in 1..(2 * n) /\ (2 * k - 1) % 2 = 1
        /\ 2 * k \in 1..(2 * n) /\ (2 * k) % 2 = 0 /\ (2 * k) \div 2 = k
    OBVIOUS
  <2> QED
    BY <2>1 DEF ToStr
<1>4. ToStr(o) \in Seq(Int) /\ Len(ToStr(o)) = 2 * n
  BY <1>2
<1> QED
  BY <1>3, <1>4

\* The text of an OID whose values fit an int, with or without its first dot and
\* followed by something that is not the rest of it, is read as the same OID.
LEMMA ReadsBack ==
  ASSUME NEW o \in Seq(Nat), NEW n \in Nat, n = Len(o), 1 <= n, \A k \in 1..n : o[k] < HalfInt,
         NEW rest \in Seq(Int), Len(rest) <= 2, \A i \in 1..Len(rest) : rest[i] \in {Dot, Junk}
  PROVE  ValuesOf(ToStr(o) \o rest) = o /\ ValuesOf(Tail(ToStr(o)) \o rest) = o
<1> DEFINE text == ToStr(o)
<1>1. /\ text \in Seq(Int) /\ Len(text) = 2 * n
      /\ \A k \in 1..n : text[2 * k - 1] = Dot
      /\ \A k \in 1..n : text[2 * k] = o[k]
  BY TextPlaces
<1> HIDE DEF text
<1>2. ValuesOf(text \o rest) = o
  <2> DEFINE s == text \o rest
  <2>1. /\ s \in Seq(Int) /\ Len(s) = 2 * n + Len(rest)
        /\ \A i \in 1..(2 * n) : s[i] = text[i]
        /\ \A i \in 1..Len(rest) : s[2 * n + i] = rest[i]
    <3>1. /\ s \in Seq(Int) /\ Len(s) = Len(text) + Len(rest)
          /\ \A i \in 1..Len(text) : s[i] = text[i]
          /\ \A i \in 1..Len(rest) : s[Len(text) + i] = rest[i]
      BY <1>1, ConcatPlaces, Zenon
    <3> HIDE DEF s
    <3> QED
      BY <1>1, <3>1
  <2>2. \A k \in 1..n : s[1 + 2 * k - 1] = o[k] /\ s[1 + 2 * k - 2] = Dot
    <3> SUFFICES ASSUME NEW k \in 1..n
                 PROVE  s[1 + 2 * k - 1] = o[k] /\ s[1 + 2 * k - 2] = Dot
      OBVIOUS
    <3>1. /\ 1 + 2 * k - 1 = 2 * k /\ 1 + 2 * k - 2 = 2 * k - 1
          /\ 2 * k \in 1..(2 * n) /\ 2 * k - 1 \in 1..(2 * n)
      OBVIOUS
    <3> HIDE DEF s
    <3> QED
      BY <1>1, <2>1, <3>1
  <2> HIDE DEF s
  <2>3. Len(rest) \in Nat
    OBVIOUS
  <2>4. Len(s) = 1 + 2 * n + 1 => s[1 + 2 * n + 1] \in {Dot, Junk}
    <3> HAVE Len(s) = 1 + 2 * n + 1
    <3>1. 2 \in 1..Len(rest) /\ 1 + 2 * n + 1 = 2 * n + 2
      BY <2>1, <2>3
    <3> QED
      BY <2>1, <3>1
  <2>5. 1 + 2 * n - 1 <= Len(s) /\ Len(s) <= 1 + 2 * n + 1
    BY <2>1, <2>3
  <2> QED
    <3>1. 1 \in 0..1 /\ 1 + 2 * n - 1 <= Len(s) /\ Len(s) <= 1 + 2 * n + 1
      BY <2>5
    <3>2. \A k \in 1..n : 1 = 1 \/ k # 1 => s[1 + 2 * k - 2] = Dot
      BY <2>2
    <3>3. \A k \in 1..n : s[1 + 2 * k - 1] = o[k]
      BY <2>2
    <3>4. ValuesOf(s) = o
      BY <2>1, <2>4, <3>1, <3>2, <3>3, ReadsNumbers, Zenon
    <3> QED
      BY <3>4 DEF s
<1>3. ValuesOf(Tail(text) \o rest) = o
  <2> DEFINE t == Tail(text)
             s == t \o rest
  <2>1. t \in Seq(Int) /\ Len(t) = 2 * n - 1 /\ \A i \in 1..(2 * n - 1) : t[i] = text[i + 1]
    <3>1. Len(text) \in Nat /\ 1 <= Len(text)
      BY <1>1
    <3>2. text # <<>>
      BY <3>1
    <3>3. /\ t \in Seq(Int) /\ Len(t) = Len(text) - 1
          /\ \A i \in 1..Len(t) : t[i] = text[i + 1]
      BY <1>1, <3>2, HeadTailProperties, Zenon
    <3> HIDE DEF t
    <3> QED
      BY <1>1, <3>3
  <2> HIDE DEF t
  <2>2. /\ s \in Seq(Int) /\ Len(s) = 2 * n - 1 + Len(rest)
        /\ \A i \in 1..(2 * n - 1) : s[i] = t[i]
        /\ \A i \in 1..Len(rest) : s[2 * n - 1 + i] = rest[i]
    <3>1. /\ s \in Seq(Int) /\ Len(s) = Len(t) + Len(rest)
          /\ \A i \in 1..Len(t) : s[i] = t[i]
          /\ \A i \in 1..Len(rest) : s[Len(t) + i] = rest[i]
      BY <2>1, ConcatPlaces, Zenon
    <3> HIDE DEF s
    <3> QED
      BY <2>1, <3>1
  <2> HIDE DEF s
  <2>3. \A k \in 1..n : s[0 + 2 * k - 1] = o[k]
    <3> SUFFICES ASSUME NEW k \in 1..n PROVE s[0 + 2 * k - 1] = o[k]
      OBVIOUS
    <3>1. 0 + 2 * k - 1 = 2 * k - 1 /\ 2 * k - 1 \in 1..(2 * n - 1) /\ 2 * k - 1 + 1 = 2 * k
      OBVIOUS
    <3> QED
      BY <1>1, <2>1, <2>2, <3>1
  <2>4. \A k \in 1..n : k # 1 => s[0 + 2 * k - 2] = Dot
    <3> SUFFICES ASSUME NEW k \in 1..n, k # 1 PROVE s[0 + 2 * k - 2] = Dot
      OBVIOUS
    <3>1. 0 + 2 * k - 2 = 2 * k - 2 /\ 2 * k - 2 \in 1..(2 * n - 1) /\ 2 * k - 2 + 1 = 2 * k - 1
      OBVIOUS
    <3>2. s[2 * k - 2] = text[2 * k - 1] /\ text[2 * k - 1] = Dot
      BY <1>1, <2>1, <2>2, <3>1
    <3> QED
      BY <3>1, <3>2
  <2>5. Len(rest) \in Nat
    OBVIOUS
  <2>6. Len(s) = 0 + 2 * n + 1 => s[0 + 2 * n + 1] \in {Dot, Junk}
    <3> HAVE Len(s) = 0 + 2 * n + 1
    <3>1. 2 \in 1..Len(rest) /\ 0 + 2 * n + 1 = 2 * n - 1 + 2
      BY <2>2, <2>5
    <3> QED
      BY <2>2, <3>1
  <2>7. 0 + 2 * n - 1 <= Len(s) /\ Len(s) <= 0 + 2 * n + 1
    BY <2>2, <2>5
  <2> QED
    <3>1. 0 \in 0..1
      OBVIOUS
    <3>2. \A k \in 1..n : 0 = 1 \/ k # 1 => s[0 + 2 * k - 2] = Dot
      BY <2>4
    <3>3. ValuesOf(s) = o
      BY <2>2, <2>3, <2>6, <2>7, <3>1, <3>2, ReadsNumbers, Zenon
    <3> QED
      BY <3>3 DEF s, t
<1> QED
  BY <1>2, <1>3 DEF text

-----------------------------------------------------------------------------
\* The invariant: the type of every OID, and the bound on its length.

Bounded == \A x \in Objects : Len(oid[x]) <= MaxLen

IInv == TypeOK /\ Bounded

\* An OID changed to one of the right type and length keeps the invariant.
LEMMA BecomeKeeps ==
  ASSUME IInv, NEW x \in Objects, NEW o \in Seq(OidValues), Become(x, o)
  PROVE  IInv'
BY DEF IInv, TypeOK, Bounded, Become

LEMMA NextKeepsType ==
  ASSUME IInv, [Next]_oid
  PROVE  IInv'
<1>1. ASSUME NEW x \in Objects, NEW n \in Values, AppendValue(x, n) PROVE IInv'
  <2>1. Append(oid[x], n) \in Seq(OidValues)
    BY <1>1, ValuesAssumption DEF IInv, TypeOK
  <2> QED
    BY <1>1, <2>1, BecomeKeeps DEF AppendValue
<1>2. ASSUME NEW x \in Objects, NEW s \in Texts, AppendText(x, s) \/ SetText(x, s) PROVE IInv'
  <2>1. ValuesOf(s) \in Seq(OidValues)
    BY ValuesType
  <2>2. oid[x] \o ValuesOf(s) \in Seq(OidValues)
    BY <2>1 DEF IInv, TypeOK
  <2> QED
    BY <1>2, <2>1, <2>2, BecomeKeeps DEF AppendText, SetText
<1>3. ASSUME NEW x \in Objects, NEW y \in Objects, SetOid(x, y) PROVE IInv'
  BY <1>3, BecomeKeeps DEF SetOid, IInv, TypeOK
<1>4. ASSUME NEW x \in Objects, NEW y \in Objects, NEW level \in 0..(MaxLen + 1), SetParent(x, y, level)
      PROVE  IInv'
  <2>1. Parent(oid[y], level) \in Seq(OidValues)
    <3>1. oid[y] \in Seq(OidValues) /\ level \in Nat
      BY BoundsAssumption DEF IInv, TypeOK
    <3> QED
      BY <3>1 DEF Parent
  <2> QED
    BY <1>4, <2>1, BecomeKeeps DEF SetParent
<1>5. ASSUME NEW x \in Objects, ClearOid(x) PROVE IInv'
  BY <1>5, BecomeKeeps, EmptySeq DEF ClearOid
<1>6. CASE UNCHANGED oid
  BY <1>6 DEF IInv, TypeOK, Bounded
<1> QED
  BY <1>1, <1>2, <1>3, <1>4, <1>5, <1>6 DEF Next

LEMMA Inductive == Spec => []IInv
<1>1. Init => IInv
  BY BoundsAssumption DEF Init, IInv, TypeOK, Bounded
<1>2. IInv /\ [Next]_oid => IInv'
  BY NextKeepsType
<1> QED
  BY <1>1, <1>2, PTL DEF Spec

\* Every value of every OID is an oid, whatever texts it was read from: the negative
\* and the saturated results of atoi included.
THEOREM TypeCorrect == Spec => []TypeOK
<1>1. IInv => TypeOK
  BY DEF IInv
<1> QED
  BY <1>1, Inductive, PTL

\* An OID whose values fit an int survives the trip through its text, whatever its
\* length and the width of the integers.
THEOREM RoundTrip == Spec => []TextRoundTrip
<1>1. IInv => TextRoundTrip
  <2> SUFFICES ASSUME IInv, NEW x \in Objects, oid[x] # <<>>, FitsInt(oid[x]),
                      NEW rest \in {<<>>, <<Dot>>, <<Junk>>, <<Dot, Dot>>, <<Dot, Junk>>}
               PROVE  /\ ValuesOf(ToStr(oid[x]) \o rest) = oid[x]
                      /\ ValuesOf(Tail(ToStr(oid[x])) \o rest) = oid[x]
    BY DEF TextRoundTrip
  <2> DEFINE o == oid[x]
  <2>1. o \in Seq(OidValues) /\ OidValues \subseteq Nat
    BY WidthAssumption DEF IInv, TypeOK, OidValues
  <2>2. o \in Seq(Nat) /\ Len(o) \in Nat /\ 1 <= Len(o)
    <3>1. o \in Seq(Nat)
      BY <2>1, SeqMonotonic, Zenon
    <3>2. Len(o) \in Nat \ {0}
      BY <3>1, EmptySeq, Zenon
    <3> QED
      BY <3>1, <3>2
  <2>3. \A k \in 1..Len(o) : o[k] < HalfInt
    BY <2>1 DEF FitsInt
  <2>4. rest \in Seq(Int) /\ Len(rest) <= 2 /\ \A i \in 1..Len(rest) : rest[i] \in {Dot, Junk}
    <3>1. CASE rest = <<>>
      BY <3>1, EmptySeq
    <3>2. Dot \in Int /\ Junk \in Int
      BY DEF Dot, Junk
    <3>3. \A d \in Int : <<d>> \in Seq(Int) /\ Len(<<d>>) = 1 /\ <<d>>[1] = d
      OBVIOUS
    <3>4. \A d, e \in Int :
            <<d, e>> \in Seq(Int) /\ Len(<<d, e>>) = 2 /\ <<d, e>>[1] = d /\ <<d, e>>[2] = e
      OBVIOUS
    <3>5. CASE rest = <<Dot>> \/ rest = <<Junk>>
      <4>1. rest \in Seq(Int) /\ Len(rest) = 1 /\ rest[1] \in {Dot, Junk}
        BY <3>2, <3>3, <3>5, Zenon
      <4> QED
        BY <4>1
    <3>6. CASE rest = <<Dot, Dot>> \/ rest = <<Dot, Junk>>
      <4>1. PICK e \in {Dot, Junk} : rest = <<Dot, e>>
        BY <3>6, Zenon
      <4>2. e \in Int
        BY <3>2
      <4>3. rest \in Seq(Int) /\ Len(rest) = 2 /\ rest[1] = Dot /\ rest[2] = e
        BY <3>2, <3>4, <4>1, <4>2, Zenon
      <4> QED
        BY <4>3
    <3> QED
      BY <3>1, <3>5, <3>6
  <2> HIDE DEF o
  <2>5. ValuesOf(ToStr(o) \o rest) = o /\ ValuesOf(Tail(ToStr(o)) \o rest) = o
    BY <2>2, <2>3, <2>4, ReadsBack
  <2> QED
    BY <2>5 DEF o
<1> QED
  BY <1>1, Inductive, PTL

\* What parent() of a level returns.
LEMMA ParentIs ==
  ASSUME NEW a \in Seq(Int), NEW b \in Seq(Int), NEW level \in Nat, 1 <= level, 1 <= Len(b)
  PROVE  Parent(a, level) = b <=> Len(b) = Len(a) - level /\ \A k \in 1..Len(b) : a[k] = b[k]
<1>1. Len(a) \in Nat /\ Len(b) \in Nat /\ Len(<<>>) = 0
  OBVIOUS
<1>2. CASE level >= Len(a)
  <2>1. Parent(a, level) = <<>>
    BY <1>2, Zenon DEF Parent
  <2>2. <<>> # b
    BY <1>1
  <2> QED
    BY <1>1, <1>2, <2>1, <2>2
<1>3. CASE ~(level >= Len(a))
  <2> DEFINE n == Len(a) - level
  <2>1. n \in Nat /\ 1 <= n /\ n <= Len(a)
    BY <1>1, <1>3
  <2>2. Parent(a, level) = SubSeq(a, 1, n)
    BY <1>3, Zenon DEF Parent
  <2>3. SubSeq(a, 1, n) = [k \in 1..n |-> a[k]]
    BY <2>1
  <2>4. b = [k \in 1..Len(b) |-> b[k]]
    OBVIOUS
  <2>5. Len([k \in 1..n |-> a[k]]) = n
    BY <2>1
  <2> HIDE DEF n
  <2>6. (\A k \in 1..n : a[k] = b[k]) <=> [k \in 1..n |-> a[k]] = [k \in 1..n |-> b[k]]
    BY <2>1
  <2>7. CASE Len(b) = n
    BY <2>2, <2>3, <2>4, <2>6, <2>7 DEF n
  <2>8. CASE Len(b) # n
    BY <2>2, <2>3, <2>5, <2>8 DEF n
  <2> QED
    BY <2>7, <2>8
<1> QED
  BY <1>2, <1>3

\* The children of an OID are the OIDs it is an ancestor of.
THEOREM KinshipIsATree == Spec => []OneTree
<1>1. IInv => OneTree
  <2> SUFFICES ASSUME IInv, NEW x \in Objects, NEW y \in Objects
               PROVE  /\ IsChildOf(oid[x], oid[y]) <=>
                           oid[y] # <<>> /\ \E level \in 1..MaxLen : Parent(oid[x], level) = oid[y]
                      /\ IsImmediateChildOf(oid[x], oid[y]) <=>
                           oid[y] # <<>> /\ oid[x] # <<>> /\ Parent(oid[x], 1) = oid[y]
    BY Zenon DEF OneTree
  <2> DEFINE a == oid[x]
             b == oid[y]
  <2>1. a \in Seq(Int) /\ b \in Seq(Int) /\ Len(a) <= MaxLen
    <3>1. a \in Seq(OidValues) /\ b \in Seq(OidValues) /\ Len(a) <= MaxLen /\ OidValues \subseteq Int
      BY DEF IInv, TypeOK, Bounded, OidValues
    <3> QED
      BY <3>1, SeqMonotonic, Zenon
  <2>2. /\ Len(a) \in Nat /\ Len(b) \in Nat /\ MaxLen \in Nat
        /\ DOMAIN b = 1..Len(b) /\ (b # <<>> <=> 1 <= Len(b)) /\ (a # <<>> <=> 1 <= Len(a))
    BY <2>1, BoundsAssumption
  <2> HIDE DEF a, b
  <2>3. IsChildOf(a, b) <=> b # <<>> /\ Len(b) < Len(a) /\ \A k \in 1..Len(b) : a[k] = b[k]
    BY <2>2, Zenon DEF IsChildOf
  <2>4. CASE b = <<>>
    BY <2>3, <2>4, Zenon DEF a, b, IsImmediateChildOf
  <2>5. CASE b # <<>>
    <3>1. 1 <= Len(b)
      BY <2>2, <2>5, Zenon
    <3>2. \A level \in 1..MaxLen :
            Parent(a, level) = b <=> Len(b) = Len(a) - level /\ \A k \in 1..Len(b) : a[k] = b[k]
      <4> SUFFICES ASSUME NEW level \in 1..MaxLen
                   PROVE  Parent(a, level) = b
                            <=> Len(b) = Len(a) - level /\ \A k \in 1..Len(b) : a[k] = b[k]
        OBVIOUS
      <4>1. level \in Nat /\ 1 <= level
        OBVIOUS
      <4> QED
        BY <2>1, <3>1, <4>1, ParentIs, Zenon
    <3>3. (\E level \in 1..MaxLen : Len(b) = Len(a) - level) <=> Len(b) < Len(a)
      <4>1. ASSUME Len(b) < Len(a) PROVE \E level \in 1..MaxLen : Len(b) = Len(a) - level
        <5>1. Len(a) - Len(b) \in 1..MaxLen /\ Len(b) = Len(a) - (Len(a) - Len(b))
          BY <2>1, <2>2, <3>1, <4>1
        <5> QED
          BY <5>1
      <4> QED
        BY <2>2, <4>1
    <3>4. (\E level \in 1..MaxLen : Parent(a, level) = b) <=> IsChildOf(a, b)
      BY <2>3, <2>5, <3>2, <3>3, Zenon
    <3>5. Parent(a, 1) = b <=> Len(b) = Len(a) - 1 /\ \A k \in 1..Len(b) : a[k] = b[k]
      <4>1. 1 \in Nat /\ 1 <= 1
        OBVIOUS
      <4> QED
        BY <2>1, <3>1, <4>1, ParentIs, Zenon
    <3>6. /\ Len(b) = Len(a) - 1 <=> Len(a) = Len(b) + 1 /\ Len(b) < Len(a)
          /\ Len(b) = Len(a) - 1 => 1 <= Len(a)
      BY <2>2
    <3>7. IsImmediateChildOf(a, b) <=> a # <<>> /\ Parent(a, 1) = b
      BY <2>2, <2>3, <2>5, <3>5, <3>6, Zenon DEF IsImmediateChildOf
    <3> QED
      BY <2>5, <3>4, <3>7, Zenon DEF a, b
  <2> QED
    BY <2>4, <2>5
<1> QED
  BY <1>1, Inductive, PTL

\* A subtree is contiguous in the order of OIDs of any length.
THEOREM WalksMayStop == Spec => []SubtreesAreContiguous
<1>1. IInv => SubtreesAreContiguous
  <2> SUFFICES ASSUME IInv, NEW x \in Objects, NEW y \in Objects, NEW level \in 1..MaxLen,
                      NEW root, root = Parent(oid[x], level), root # <<>>
               PROVE  /\ Less(root, oid[x])
                      /\ Less(root, oid[y]) /\ ~IsChildOf(oid[y], root) => Less(oid[x], oid[y])
    BY Zenon DEF SubtreesAreContiguous
  <2>1. oid[x] \in Seq(Int) /\ oid[y] \in Seq(Int)
    <3>1. oid[x] \in Seq(OidValues) /\ oid[y] \in Seq(OidValues) /\ OidValues \subseteq Int
      BY DEF IInv, TypeOK, OidValues
    <3> QED
      BY <3>1, SeqMonotonic, Zenon
  <2>2. level \in Nat /\ 1 <= level /\ Len(oid[x]) \in Nat
    BY <2>1
  <2>3. ~(level >= Len(oid[x]))
    BY Zenon DEF Parent
  <2>4. root = SubSeq(oid[x], 1, Len(oid[x]) - level)
    BY <2>3, Zenon DEF Parent
  <2> DEFINE a == oid[x]
             n == Len(a) - level
  <2>5. n \in Nat /\ 1 <= n /\ n < Len(a)
    BY <2>2, <2>3
  <2>6. root \in Seq(Int) /\ Len(root) = n /\ \A k \in 1..n : a[k] = root[k]
    BY <2>1, <2>4, <2>5
  <2>7. IsChildOf(a, root)
    BY <2>5, <2>6 DEF IsChildOf
  <2> QED
    BY <2>1, <2>6, <2>7, ParentIsSmaller, ChildrenAreContiguous
<1> QED
  BY <1>1, Inductive, PTL

-----------------------------------------------------------------------------
\* The tree of the loaded modules: it has no node without its parent.

Rooted == \A node \in Tree : Len(node) = 1 \/ Parent(node, 1) \in Tree

\* The OIDs do not notice that modules are loaded.
LEMMA LoadingIsUnnoticed == MibSpec => Spec
<1>1. MibInit => Init
  BY DEF MibInit
<1>2. [MibNext]_<<oid, loaded>> => [Next]_oid
  BY DEF MibNext, LoadModule
<1> QED
  BY <1>1, <1>2, PTL DEF MibSpec, Spec

LEMMA RootedIsInductive == MibSpec => []Rooted
<1>1. MibInit => Rooted
  BY DEF MibInit, Rooted, Tree
<1>2. ASSUME Rooted, [MibNext]_<<oid, loaded>> PROVE Rooted'
  <2>1. CASE UNCHANGED loaded
    BY <1>2, <2>1 DEF Rooted, Tree
  <2>2. CASE \E m \in {ModuleOf[node] : node \in Nodes} : LoadModule(m)
    <3>1. PICK m : LoadModule(m)
      BY <2>2
    <3>2. /\ loaded' = loaded \cup {m}
          /\ \A node \in Nodes :
               ModuleOf[node] = m /\ Len(node) > 1 => ModuleOf[Parent(node, 1)] \in loaded \cup {m}
      BY <3>1, Zenon DEF LoadModule
    <3> SUFFICES ASSUME NEW node \in Tree', Len(node) # 1
                 PROVE  Parent(node, 1) \in Tree'
      BY DEF Rooted
    <3>3. node \in Nodes /\ Parent(node, 1) \in Nodes
      BY NodesAssumption, Zenon DEF Tree
    <3>4. CASE node \in Tree
      <4>1. Parent(node, 1) \in Tree
        BY <1>2, <3>4 DEF Rooted
      <4> QED
        BY <3>2, <4>1 DEF Tree
    <3>5. CASE node \notin Tree
      <4>1. ModuleOf[node] = m
        BY <3>2, <3>3, <3>5 DEF Tree
      <4>2. Len(node) > 1
        <5>1. node \in Seq(OidValues) /\ node # <<>>
          BY <3>3, NodesAssumption, Zenon
        <5>2. Len(node) \in Nat \ {0}
          BY <5>1, EmptySeq, Zenon
        <5>3. \A k \in Nat \ {0} : k # 1 => k > 1
          OBVIOUS
        <5> QED
          BY <5>2, <5>3, Zenon
      <4> QED
        BY <3>2, <3>3, <4>1, <4>2 DEF Tree
    <3> QED
      BY <3>4, <3>5
  <2> QED
    BY <1>2, <2>1, <2>2 DEF MibNext
<1> QED
  BY <1>1, <1>2, PTL DEF MibSpec

\* The beginnings of a sequence.
LEMMA Beginnings ==
  ASSUME NEW S, NEW o \in Seq(S), NEW k \in 0..Len(o)
  PROVE  /\ SubSeq(o, 1, k) \in Seq(S) /\ Len(SubSeq(o, 1, k)) = k
         /\ SubSeq(o, 1, Len(o)) = o
         /\ SubSeq(o, 1, 0) = <<>>
         /\ \A i \in 1..k : SubSeq(o, 1, k)[i] = o[i]
         /\ \A i \in 1..k : SubSeq(SubSeq(o, 1, k), 1, i) = SubSeq(o, 1, i)
<1>1. /\ Len(o) \in Nat /\ k \in Nat /\ k <= Len(o)
  OBVIOUS
<1>2. SubSeq(o, 1, k) = [i \in 1..k |-> o[i]]
  BY <1>1
<1>3. SubSeq(o, 1, k) \in Seq(S) /\ Len(SubSeq(o, 1, k)) = k
  BY <1>1
<1>4. SubSeq(o, 1, Len(o)) = o
  BY <1>1
<1>5. SubSeq(o, 1, 0) = <<>>
  BY <1>1
<1>6. \A i \in 1..k : SubSeq(o, 1, k)[i] = o[i]
  BY <1>2
<1>7. ASSUME NEW i \in 1..k PROVE SubSeq(SubSeq(o, 1, k), 1, i) = SubSeq(o, 1, i)
  <2> DEFINE p == SubSeq(o, 1, k)
  <2>1. i \in Nat /\ i <= k /\ \A j \in 1..i : p[j] = o[j]
    BY <1>6
  <2>2. p \in Seq(S) /\ Len(p) = k
    BY <1>3
  <2> HIDE DEF p
  <2>3. SubSeq(p, 1, i) = [j \in 1..i |-> p[j]]
    BY <1>1, <2>1, <2>2
  <2>4. SubSeq(o, 1, i) = [j \in 1..i |-> o[j]]
    BY <1>1, <2>1
  <2>5. [j \in 1..i |-> p[j]] = [j \in 1..i |-> o[j]]
    BY <2>1, Zenon
  <2> QED
    BY <2>3, <2>4, <2>5, Zenon DEF p
<1> QED
  BY <1>3, <1>4, <1>5, <1>6, <1>7, Zenon

\* With a node, its ancestors are in the tree.
LEMMA AncestorsAreKnown ==
  ASSUME Rooted, NEW node \in Tree, NEW k \in 1..Len(node)
  PROVE  SubSeq(node, 1, k) \in Tree
<1>1. node \in Seq(OidValues) /\ Len(node) \in Nat
  <2>1. node \in Seq(OidValues)
    BY NodesAssumption DEF Tree
  <2> QED
    BY <2>1
<1> DEFINE S == {j \in 0..(Len(node) - 1) : SubSeq(node, 1, Len(node) - j) \notin Tree}
<1>2. S = {}
  <2> SUFFICES ASSUME S # {} PROVE FALSE
    OBVIOUS
  <2>1. S \in SUBSET Nat
    OBVIOUS
  <2>2. PICK j \in S : \A i \in S : j <= i
    <3> HIDE DEF S
    <3> QED
      BY <2>1, LeastNumber, Zenon
  <2>3. j \in 0..(Len(node) - 1) /\ SubSeq(node, 1, Len(node) - j) \notin Tree
    BY <2>2
  <2>4. j # 0
    <3>1. SubSeq(node, 1, Len(node)) = node /\ Len(node) - 0 = Len(node)
      BY <1>1
    <3> QED
      BY <2>3, <3>1
  <2> DEFINE p == SubSeq(node, 1, Len(node) - (j - 1))
  <2>5. p \in Tree
    <3>1. j - 1 \notin S
      BY <1>1, <2>2, <2>3
    <3>2. j - 1 \in 0..(Len(node) - 1)
      BY <1>1, <2>3, <2>4
    <3> QED
      BY <3>1, <3>2
  <2>6. /\ Len(node) - (j - 1) \in 0..Len(node)
        /\ Len(node) - j \in 1..(Len(node) - (j - 1))
        /\ Len(node) - (j - 1) - 1 = Len(node) - j
        /\ Len(node) - (j - 1) > 1
    BY <1>1, <2>3, <2>4
  <2>7. Len(p) = Len(node) - (j - 1) /\ SubSeq(p, 1, Len(node) - j) = SubSeq(node, 1, Len(node) - j)
    BY <1>1, <2>6, Beginnings, Zenon
  <2> HIDE DEF p
  <2>8. Parent(p, 1) = SubSeq(node, 1, Len(node) - j) /\ Len(p) # 1
    <3>1. ~(1 >= Len(p)) /\ Len(p) - 1 = Len(node) - j /\ Len(p) # 1
      BY <1>1, <2>6, <2>7
    <3> QED
      BY <2>7, <3>1, Zenon DEF Parent
  <2> QED
    BY <2>3, <2>5, <2>8 DEF Rooted
<1>3. Len(node) - k \in 0..(Len(node) - 1) /\ Len(node) - (Len(node) - k) = k
  BY <1>1
<1> QED
  BY <1>2, <1>3

\* What is known of an OID is a beginning of it, and get_tree finds all of that.
LEMMA GetTreeIs ==
  ASSUME Rooted, NEW o \in Seq(OidValues)
  PROVE  \E m \in 0..Len(o) :
           /\ GetTree(o) = SubSeq(o, 1, m)
           /\ \A k \in 1..Len(o) : SubSeq(o, 1, k) \in Tree <=> k <= m
<1> DEFINE matches == {k \in 1..Len(o) : SubSeq(o, 1, k) \in Tree}
           n == Len(o)
<1>1. n \in Nat
  OBVIOUS
<1>2. CASE matches = {}
  <2>1. GetTree(o) = <<>> /\ SubSeq(o, 1, 0) = <<>>
    BY <1>2 DEF GetTree
  <2>2. 0 \in 0..n /\ \A k \in 1..n : ~(k <= 0)
    BY <1>1
  <2> QED
    BY <1>2, <2>1, <2>2
<1>3. CASE matches # {}
  <2> DEFINE S == {j \in 0..n : n - j \in matches}
  <2>1. S # {} /\ S \in SUBSET Nat
    <3>1. PICK k \in matches : TRUE
      BY <1>3
    <3>2. k \in 1..n
      BY <3>1
    <3>3. n - k \in 0..n /\ n - (n - k) = k
      BY <1>1, <3>2
    <3>4. n - k \in S
      BY <3>1, <3>3, Zenon
    <3>5. S \in SUBSET Nat
      OBVIOUS
    <3> QED
      BY <3>4, <3>5, Zenon
  <2>2. PICK j \in S : \A i \in S : j <= i
    <3> HIDE DEF S
    <3> QED
      BY <2>1, LeastNumber, Zenon
  <2> DEFINE m == n - j
  <2>3. m \in matches /\ m \in 1..n
    BY <2>2
  <2>4. ASSUME NEW k \in matches PROVE k <= m
    <3>1. k \in 1..n
      OBVIOUS
    <3>2. n - k \in 0..n /\ n - (n - k) = k
      BY <1>1, <3>1
    <3>3. j <= n - k
      BY <2>2, <3>2
    <3> QED
      BY <1>1, <2>2, <3>1, <3>3
  <2> HIDE DEF m
  <2>5. Max(matches) = m
    <3>1. \A y \in matches : y \in Int /\ m >= y
      BY <2>3, <2>4
    <3>2. \A x \in matches : (\A y \in matches : x >= y) => x = m
      <4> SUFFICES ASSUME NEW x \in matches, \A y \in matches : x >= y PROVE x = m
        OBVIOUS
      <4>1. x >= m /\ m >= x /\ x \in Int /\ m \in Int
        BY <2>3, <3>1, Zenon
      <4> QED
        BY <4>1
    <3> HIDE DEF matches
    <3> QED
      BY <2>3, <3>1, <3>2, Zenon DEF Max
  <2>6. GetTree(o) = SubSeq(o, 1, m)
    BY <1>3, <2>5, Zenon DEF GetTree
  <2>7. ASSUME NEW k \in 1..n PROVE SubSeq(o, 1, k) \in Tree <=> k <= m
    <3>1. ASSUME k <= m PROVE SubSeq(o, 1, k) \in Tree
      <4>1. SubSeq(o, 1, m) \in Tree /\ m \in 0..n /\ k \in 1..m
        BY <2>3, <3>1
      <4>2. Len(SubSeq(o, 1, m)) = m /\ SubSeq(SubSeq(o, 1, m), 1, k) = SubSeq(o, 1, k)
        BY <4>1, Beginnings, Zenon
      <4> QED
        BY <4>1, <4>2, AncestorsAreKnown
    <3> QED
      BY <2>4, <3>1
  <2> QED
    BY <2>3, <2>6, <2>7
<1> QED
  BY <1>2, <1>3

\* The same with the beginnings named: an OID is known when all of it is found.
LEMMA Found ==
  ASSUME Rooted, NEW o \in Seq(OidValues)
  PROVE  /\ GetTree(o) \in Seq(OidValues) /\ Len(GetTree(o)) \in 0..Len(o)
         /\ \A k \in 1..Len(o) : SubSeq(o, 1, k) \in Tree <=> k <= Len(GetTree(o))
         /\ \A k \in 1..Len(GetTree(o)) : SubSeq(GetTree(o), 1, k) = SubSeq(o, 1, k)
         /\ GetTree(o) = o <=> Len(GetTree(o)) = Len(o)
<1>1. PICK m \in 0..Len(o) :
        /\ GetTree(o) = SubSeq(o, 1, m)
        /\ \A k \in 1..Len(o) : SubSeq(o, 1, k) \in Tree <=> k <= m
  BY GetTreeIs, Zenon
<1>2. /\ SubSeq(o, 1, m) \in Seq(OidValues) /\ Len(SubSeq(o, 1, m)) = m
      /\ SubSeq(o, 1, Len(o)) = o
      /\ \A k \in 1..m : SubSeq(SubSeq(o, 1, m), 1, k) = SubSeq(o, 1, k)
  BY Beginnings, Zenon
<1> QED
  BY <1>1, <1>2, Zenon

\* A number that fits the buffer is printed as it is.
LEMMA PrintedInFull ==
  ASSUME NEW n \in OidValues, Fits(n)
  PROVE  Printed(n) = Number(n)
<1>1. n < HalfOid /\ NumDigits(n) \in 1..NumberChars
  BY Zenon DEF Fits
<1> DEFINE size == NumDigits(n)
           text == Digits(n)
<1>2. size \in Nat /\ size <= NumberChars
  BY <1>1, BufferAssumption
<1>3. text = [k \in 1..size |-> (n \div 10^(size - k)) % 10]
  BY Zenon DEF Digits
<1> HIDE DEF size, text
<1>4. Len(text) = size /\ SubSeq(text, 1, size) = text
  <2> DEFINE S == {text[k] : k \in 1..size}
  <2>1. DOMAIN text = 1..size /\ text \in [1..size -> S]
    BY <1>3
  <2> HIDE DEF S
  <2>2. text \in Seq(S) /\ Len(text) = size
    BY <1>2, <2>1
  <2> QED
    BY <1>2, <2>2
<1>5. (IF Len(text) < NumberChars THEN Len(text) ELSE NumberChars) = size
  BY <1>2, <1>4, BufferAssumption
<1> QED
  BY <1>1, <1>4, <1>5, Zenon DEF Printed, Number, text

\* Which parts of the name are labels.
LEMMA LabelsAreDescribed ==
  ASSUME Rooted, NEW o \in Seq(OidValues), NEW lookup \in Lookups, NEW k \in 1..Len(o)
  PROVE  LET found == GetTree(Parent(o, IF lookup = "kInverted" THEN 1 ELSE 0))
             wanted == CASE lookup = "kFull" -> 1..Len(o)
                         [] lookup = "kInverted" -> 1..(Len(o) - 1)
                         [] OTHER -> {Len(o)}
         IN  /\ /\ k <= Len(found)
                /\ lookup \in {"kInverted", "kFull"} \/ (Len(found) = Len(o) /\ k = Len(o))
                <=> k \in wanted /\ SubSeq(o, 1, k) \in Tree
             /\ k <= Len(found) => SubSeq(found, 1, k) = SubSeq(o, 1, k)
<1> DEFINE n == Len(o)
           p == Parent(o, IF lookup = "kInverted" THEN 1 ELSE 0)
           found == GetTree(p)
           wanted == CASE lookup = "kFull" -> 1..Len(o)
                       [] lookup = "kInverted" -> 1..(Len(o) - 1)
                       [] OTHER -> {Len(o)}
           m == Len(found)
           size == IF lookup = "kInverted" THEN n - 1 ELSE n
<1>1. n \in Nat /\ k \in Nat /\ 1 <= k /\ k <= n
  OBVIOUS
<1>2. size \in 0..n /\ p = SubSeq(o, 1, size)
  <2> HIDE DEF n
  <2>1. n = 0 \/ n = 1 \/ (~(1 >= n) /\ n - 1 \in 0..n)
    BY <1>1
  <2>2. ~(0 >= n) /\ n - 0 = n /\ n \in 0..n /\ 0 \in 0..n /\ n # 0 /\ 1 - 1 = 0 /\ 1 >= 1
    BY <1>1
  <2>3. SubSeq(o, 1, 0) = <<>>
    OBVIOUS
  <2>4. CASE lookup = "kInverted"
    <3>1. p = Parent(o, 1) /\ size = n - 1
      BY <2>4
    <3> HIDE DEF p, size
    <3>2. CASE n = 1
      <4>1. Parent(o, 1) = <<>> /\ size = 0
        BY <2>2, <3>1, <3>2, Zenon DEF Parent, n
      <4> QED
        BY <2>2, <2>3, <3>1, <4>1, Zenon
    <3>3. CASE n # 1
      <4>1. Parent(o, 1) = SubSeq(o, 1, n - 1)
        BY <2>1, <2>2, <3>3, Zenon DEF Parent, n
      <4> QED
        BY <2>1, <2>2, <3>1, <3>3, <4>1, Zenon
    <3> QED
      BY <3>2, <3>3
  <2>5. CASE lookup # "kInverted"
    <3>1. p = Parent(o, 0) /\ size = n
      BY <2>5
    <3> HIDE DEF p, size
    <3>2. Parent(o, 0) = SubSeq(o, 1, n)
      BY <2>2, Zenon DEF Parent, n
    <3> QED
      BY <2>2, <3>1, <3>2, Zenon
  <2> QED
    BY <2>4, <2>5
<1> HIDE DEF p, size, found
<1>3. /\ p \in Seq(OidValues) /\ Len(p) = size
      /\ \A i \in 1..size : SubSeq(p, 1, i) = SubSeq(o, 1, i)
  BY <1>2, Beginnings, Zenon
<1>4. /\ m \in 0..size
      /\ \A i \in 1..size : SubSeq(p, 1, i) \in Tree <=> i <= m
      /\ \A i \in 1..m : SubSeq(found, 1, i) = SubSeq(p, 1, i)
  BY <1>3, Found, Zenon DEF found
<1> HIDE DEF m, n
<1>5. /\ \A i \in 1..size : SubSeq(o, 1, i) \in Tree <=> i <= m
      /\ \A i \in 1..m : i \in 1..size /\ SubSeq(found, 1, i) = SubSeq(o, 1, i)
  <2>1. \A i \in 1..m : i \in 1..size
    BY <1>1, <1>2, <1>4
  <2> QED
    BY <1>3, <1>4, <2>1, Zenon
<1>6. k <= m => SubSeq(found, 1, k) = SubSeq(o, 1, k)
  <2>1. k <= m => k \in 1..m
    BY <1>1, <1>2, <1>4
  <2> QED
    BY <1>5, <2>1, Zenon
<1>7. k <= m /\ (lookup \in {"kInverted", "kFull"} \/ (m = n /\ k = n))
      <=> k \in wanted /\ SubSeq(o, 1, k) \in Tree
  <2>1. CASE lookup = "kFull"
    <3>1. wanted = 1..n /\ size = n
      BY <2>1 DEF n, size
    <3> QED
      BY <1>1, <1>5, <2>1, <3>1
  <2>2. CASE lookup = "kInverted"
    <3>1. wanted = 1..(n - 1) /\ size = n - 1
      BY <2>2 DEF n, size
    <3>2. k <= m => k \in 1..(n - 1)
      BY <1>1, <1>2, <1>4, <3>1
    <3> QED
      BY <1>5, <2>2, <3>1, <3>2, Zenon
  <2>3. CASE lookup \in {"kLeafOnly", "kPartial"}
    <3>1. wanted = {n} /\ size = n /\ lookup \notin {"kInverted", "kFull"}
      BY <2>3 DEF n, size
    <3>2. n \in 1..size
      BY <1>1, <3>1
    <3>3. n <= m <=> m = n
      BY <1>1, <1>4, <3>1
    <3> HIDE DEF wanted
    <3> QED
      BY <1>5, <3>1, <3>2, <3>3
  <2> QED
    BY <2>1, <2>2, <2>3 DEF Lookups
<1> QED
  BY <1>6, <1>7 DEF m, n, found, p

\* The name is the one described, for OIDs of any length and any tree whose modules are
\* loaded after those they import from.
THEOREM NamesAreRight == MibSpec => []NamesAreAsDescribed
<1>1. IInv /\ Rooted => NamesAreAsDescribed
  <2> SUFFICES ASSUME IInv, Rooted, NEW x \in Objects, NEW lookup \in Lookups,
                      \A k \in DOMAIN oid[x] : Fits(oid[x][k])
               PROVE  NameFromMib(oid[x], lookup) = Described(oid[x], lookup)
    BY Zenon DEF NamesAreAsDescribed
  <2> DEFINE o == oid[x]
             found == GetTree(Parent(o, IF lookup = "kInverted" THEN 1 ELSE 0))
             named(k) ==
               /\ k <= Len(found)
               /\ lookup \in {"kInverted", "kFull"} \/ (Len(found) = Len(o) /\ k = Len(o))
             wanted == CASE lookup = "kFull" -> 1..Len(o)
                         [] lookup = "kInverted" -> 1..(Len(o) - 1)
                         [] OTHER -> {Len(o)}
             name(k) == IF named(k) THEN Label(SubSeq(found, 1, k)) ELSE Printed(o[k])
             part(k) == IF k \in wanted /\ SubSeq(o, 1, k) \in Tree
                        THEN Label(SubSeq(o, 1, k)) ELSE Number(o[k])
             vstr == [k \in 1..Len(o) |-> name(k)]
  <2>1. o \in Seq(OidValues) /\ Len(o) \in Nat /\ DOMAIN o = 1..Len(o)
    BY DEF IInv, TypeOK
  <2>2. NameFromMib(o, lookup) = IF lookup = "kLeafOnly" /\ o # <<>> THEN <<vstr[Len(o)]>> ELSE vstr
    BY Zenon DEF NameFromMib
  <2>3. Described(o, lookup) = IF lookup = "kLeafOnly" /\ o # <<>> THEN <<part(Len(o))>>
                               ELSE [k \in 1..Len(o) |-> part(k)]
    BY Zenon DEF Described
  <2>4. \A k \in DOMAIN o : Fits(o[k])
    OBVIOUS
  <2> HIDE DEF o
  <2>5. ASSUME NEW k \in 1..Len(o) PROVE name(k) = part(k)
    <3>1. /\ named(k) <=> k \in wanted /\ SubSeq(o, 1, k) \in Tree
          /\ named(k) => SubSeq(found, 1, k) = SubSeq(o, 1, k)
      <4> HIDE DEF wanted, found
      <4> QED
        BY <2>1, LabelsAreDescribed, Zenon DEF wanted, found
    <3>2. Printed(o[k]) = Number(o[k])
      <4>1. o[k] \in OidValues
        BY <2>1, ElementOf, Zenon
      <4> QED
        BY <2>1, <2>4, <4>1, PrintedInFull, Zenon
    <3> HIDE DEF wanted, named, found
    <3> QED
      BY <3>1, <3>2, Zenon
  <2> HIDE DEF name, part
  <2>6. vstr = [k \in 1..Len(o) |-> part(k)]
    BY <2>5, Zenon
  <2>7. o # <<>> => vstr[Len(o)] = part(Len(o))
    <3>1. o # <<>> => Len(o) \in 1..Len(o)
      BY <2>1
    <3> QED
      BY <2>6, <3>1, Zenon
  <2> HIDE DEF vstr
  <2>8. NameFromMib(o, lookup) = Described(o, lookup)
    <3>1. CASE lookup = "kLeafOnly" /\ o # <<>>
      <4>1. NameFromMib(o, lookup) = <<vstr[Len(o)]>> /\ Described(o, lookup) = <<part(Len(o))>>
        BY <2>2, <2>3, <3>1
      <4> QED
        BY <2>7, <3>1, <4>1, Zenon
    <3>2. CASE ~(lookup = "kLeafOnly" /\ o # <<>>)
      <4>1. NameFromMib(o, lookup) = vstr /\ Described(o, lookup) = [k \in 1..Len(o) |-> part(k)]
        BY <2>2, <2>3, <3>2, Zenon
      <4> QED
        BY <2>6, <4>1, Zenon
    <3> QED
      BY <3>1, <3>2
  <2> QED
    BY <2>8, Zenon DEF o
<1> QED
  BY <1>1, Inductive, LoadingIsUnnoticed, RootedIsInductive, PTL

\* An exact lookup finds the module of the OID itself and any other lookup one of its
\* ancestors, in any such tree.
THEOREM ModulesAreRight == MibSpec => []ModulesAreExact
<1>1. IInv /\ Rooted => ModulesAreExact
  <2> SUFFICES ASSUME IInv, Rooted, NEW x \in Objects, NEW o, o = oid[x]
               PROVE  /\ ModulesOf(o, TRUE) = {ModuleOf[node] : node \in Tree \cap {o}}
                      /\ ModulesOf(o, TRUE) \subseteq ModulesOf(o, FALSE)
                      /\ ModulesOf(o, FALSE) = {} <=> \A node \in Tree : node # o /\ ~IsChildOf(o, node)
    BY Zenon DEF ModulesAreExact
  <2> DEFINE found == GetTree(o)
             m == Len(found)
  <2>1. o \in Seq(OidValues) /\ Len(o) \in Nat /\ (o = <<>> <=> Len(o) = 0)
    BY DEF IInv, TypeOK
  <2>2. /\ found \in Seq(OidValues) /\ m \in 0..Len(o)
        /\ \A k \in 1..Len(o) : SubSeq(o, 1, k) \in Tree <=> k <= m
        /\ found = o <=> m = Len(o)
        /\ SubSeq(o, 1, Len(o)) = o
    <3>1. Len(o) \in 0..Len(o)
      BY <2>1
    <3> QED
      BY <2>1, <3>1, Found, Beginnings, Zenon
  <2>3. found = <<>> <=> m = 0
    <3> HIDE DEF found
    <3> QED
      BY <2>2
  <2> HIDE DEF found, m
  <2>4. o # <<>> => (found = o <=> o \in Tree)
    <3> HAVE o # <<>>
    <3>1. Len(o) \in 1..Len(o) /\ (Len(o) <= m <=> m = Len(o))
      BY <2>1, <2>2
    <3> QED
      BY <2>2, <3>1, Zenon
  <2>5. <<>> \notin Tree
    BY NodesAssumption, Zenon DEF Tree
  <2>6. /\ TreeOf(o, TRUE) = IF found # o THEN <<>> ELSE found
        /\ TreeOf(o, FALSE) = found
    BY Zenon DEF TreeOf, found
  <2>7. ModulesOf(o, TRUE) = {ModuleOf[node] : node \in Tree \cap {o}}
    <3>1. {TreeOf(o, TRUE)} \ {<<>>} = Tree \cap {o}
      BY <2>4, <2>5, <2>6
    <3> QED
      BY <3>1, Zenon DEF ModulesOf
  <2>8. ModulesOf(o, TRUE) \subseteq ModulesOf(o, FALSE)
    <3>1. {TreeOf(o, TRUE)} \ {<<>>} \subseteq {TreeOf(o, FALSE)} \ {<<>>}
      BY <2>6
    <3> QED
      BY <3>1, Zenon DEF ModulesOf
  <2>9. ModulesOf(o, FALSE) = {} <=> m = 0
    <3>1. ModulesOf(o, FALSE) = {} <=> found = <<>>
      BY <2>6 DEF ModulesOf
    <3> QED
      BY <2>3, <3>1
  <2>10. ASSUME m = 0, NEW node \in Tree PROVE node # o /\ ~IsChildOf(o, node)
    <3>1. \A k \in 1..Len(o) : SubSeq(o, 1, k) \notin Tree
      <4>1. \A k \in 1..Len(o) : ~(k <= 0)
        BY <2>1
      <4> QED
        BY <2>2, <2>10, <4>1, Zenon
    <3>2. node \in Seq(OidValues) /\ node # <<>>
      BY NodesAssumption, Zenon DEF Tree
    <3>3. Len(node) \in Nat \ {0}
      BY <3>2, EmptySeq, Zenon
    <3>4. node # o
      <4>1. node = o => Len(o) \in 1..Len(o)
        BY <3>3
      <4> QED
        BY <2>2, <2>10, <3>1, <4>1, Zenon
    <3>5. ASSUME IsChildOf(o, node) PROVE FALSE
      <4>1. Len(node) < Len(o) /\ \A i \in 1..Len(node) : o[i] = node[i]
        BY <3>2, <3>5 DEF IsChildOf
      <4>2. Len(node) \in 1..Len(o) /\ Len(node) \in 0..Len(o)
        BY <2>1, <3>3, <4>1
      <4> DEFINE k == Len(node)
      <4>3. k \in 0..Len(o)
        BY <4>2
      <4> HIDE DEF k
      <4>4. /\ SubSeq(o, 1, k) \in Seq(OidValues) /\ Len(SubSeq(o, 1, k)) = k
            /\ \A i \in 1..k : SubSeq(o, 1, k)[i] = o[i]
        BY <2>1, <4>3, Beginnings, Zenon
      <4>5. SubSeq(o, 1, k) = node
        BY <3>2, <4>1, <4>4, SeqEqual, Zenon DEF k
      <4> QED
        BY <3>1, <4>2, <4>5, Zenon DEF k
    <3> QED
      BY <3>4, <3>5
  <2>11. ASSUME m # 0 PROVE \E node \in Tree : node = o \/ IsChildOf(o, node)
    <3>1. m \in 1..Len(o) /\ m <= m /\ Len(o) \in Nat
      BY <2>1, <2>2, <2>11
    <3>2. SubSeq(o, 1, m) \in Tree
      BY <2>2, <3>1, Zenon
    <3>3. CASE m = Len(o)
      BY <2>2, <3>2, <3>3, Zenon
    <3>4. CASE m # Len(o)
      <4> DEFINE p == SubSeq(o, 1, m)
      <4>1. p \in Seq(OidValues) /\ Len(p) = m /\ \A i \in 1..m : p[i] = o[i]
        BY <2>1, <2>2, Beginnings, Zenon
      <4> HIDE DEF p
      <4>2. m < Len(o) /\ DOMAIN p = 1..m /\ p # <<>>
        BY <3>1, <3>4, <4>1
      <4>3. IsChildOf(o, p)
        BY <4>1, <4>2, Zenon DEF IsChildOf
      <4> QED
        BY <3>2, <4>3, Zenon DEF p
    <3> QED
      BY <3>3, <3>4
  <2> QED
    BY <2>7, <2>8, <2>9, <2>10, <2>11, Zenon
<1> QED
  BY <1>1, Inductive, LoadingIsUnnoticed, RootedIsInductive, PTL

\* What holds of the OIDs alone holds of them while modules are loaded.
THEOREM OidsAmongMibs ==
  MibSpec => [](TypeOK /\ TextRoundTrip /\ OneTree /\ SubtreesAreContiguous)
BY LoadingIsUnnoticed, TypeCorrect, RoundTrip, KinshipIsATree, WalksMayStop, PTL
=============================================================================
