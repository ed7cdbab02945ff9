----------------------------- MODULE WalkProofs -----------------------------
(***************************************************************************)
(* That a walk skips nothing, for any objects, any numbers of repetitions  *)
(* and non-repeaters, and responses of any length.                         *)
(***************************************************************************)
EXTENDS Walk, OidOrderProofs

Places == Oids \cup {Root}
UpTo(a, b) == a = b \/ Less(a, b)

\* What the walk looks for.
Sought == {o \in lasting : IsChildOf(o, Root)}

TypeOK ==
  /\ objects \in SUBSET Oids
  /\ lasting \in SUBSET objects
  /\ pdu \in [type : {"kGetNext", "kGetBulk", "kResponse"}, oids : Seq(Places) \ {<<>>}]
  /\ asked \in Seq(Places)
  /\ read \in SUBSET Places

\* The walk never comes before its beginning.
InOrder == \A p \in Range(pdu.oids) \cup Range(asked) : UpTo(Root, p)

\* Everything up to each OID of the response has been read: also up to the last one of a
\* response that was cut, which getNext goes on from.
ReadUpTo(p) == \A o \in Sought : UpTo(o, p) => o \in read
Behind == \A p \in Range(pdu.oids) : ReadUpTo(p)

\* Where a response starts where its request did, the agent had nothing behind it.
AtTheEnd == asked # <<>> /\ ~Less(Least(asked), Least(pdu.oids)) => Sought \subseteq read

IInv == TypeOK /\ InOrder /\ Behind /\ AtTheEnd

-----------------------------------------------------------------------------
\* The operators of the specification

LEMMA PlacesAreOids ==
  /\ Places \subseteq Seq(Int)
  /\ IsFiniteSet(Places)
<1>1. IsFiniteSet({Root})
  BY FS_Singleton
<1> QED
  BY <1>1, OidsAssumption, FS_Union DEF Places

\* The OIDs of a list are finitely many.
LEMMA RangeOfList ==
  ASSUME NEW s \in Seq(Places)
  PROVE  /\ Range(s) \in SUBSET Places /\ IsFiniteSet(Range(s)) /\ Range(s) \in SUBSET Seq(Int)
         /\ \A i \in 1..Len(s) : s[i] \in Range(s)
<1>1. Range(s) \in SUBSET Places
  BY DEF Range
<1>2. \A i \in 1..Len(s) : s[i] \in Range(s)
  BY DEF Range
<1> QED
  BY <1>1, <1>2, PlacesAreOids, FS_Subset

\* GetOids sorts a list.
LEMMA GetOidsSorts ==
  ASSUME NEW s \in Seq(Places), s # <<>>
  PROVE  /\ GetOids(s) \in Seq(Places) \ {<<>>}
         /\ Range(GetOids(s)) \subseteq Range(s)
         /\ Least(s) \in Range(s)
         /\ \A p \in Range(s) : UpTo(Least(s), p)
<1> DEFINE S == Range(s)
           n == Cardinality(S)
<1>1. S \in SUBSET Seq(Int) /\ IsFiniteSet(S) /\ S \subseteq Places /\ S # {}
  <2>1. 1 \in 1..Len(s)
    OBVIOUS
  <2> QED
    BY <2>1, RangeOfList
<1> HIDE DEF S
<1>2. /\ Sorted(S) \in Seq(S) /\ Len(Sorted(S)) = n
      /\ \A o \in S : \E k \in 1..n : Sorted(S)[k] = o
      /\ \A j, k \in 1..n : j < k => Less(Sorted(S)[j], Sorted(S)[k])
  BY <1>1, SortedIsSorted
<1>3. GetOids(s) = Sorted(S) /\ Least(s) = Sorted(S)[1]
  BY DEF GetOids, Least, S
<1>4. n \in Nat /\ 1 \in 1..n
  BY <1>1, <1>2
<1>5. GetOids(s) \in Seq(Places) \ {<<>>}
  BY <1>1, <1>2, <1>3, <1>4
<1>6. Range(GetOids(s)) \subseteq S
  BY <1>2, <1>3 DEF Range
<1>7. ASSUME NEW p \in S PROVE UpTo(Least(s), p)
  <2>1. PICK k \in 1..n : Sorted(S)[k] = p
    BY <1>2
  <2>2. k = 1 \/ 1 < k
    BY <1>4
  <2> QED
    BY <1>2, <1>3, <1>4, <2>1, <2>2 DEF UpTo
<1> QED
  BY <1>2, <1>3, <1>4, <1>5, <1>6, <1>7 DEF S

\* The n-th object after o, and what lies between.
LEMMA NthAfterProperties ==
  ASSUME objects \in SUBSET Oids, NEW n \in Nat \ {0}, NEW o \in Places
  PROVE  /\ NthAfter(n, o) \in Places
         /\ UpTo(o, NthAfter(n, o))
         /\ (\E q \in objects : Less(o, q)) => Less(o, NthAfter(n, o))
         /\ \A q \in objects : Less(o, q) /\ UpTo(q, NthAfter(n, o)) =>
              \E j \in 1..n : q = NthAfter(j, o)
<1> DEFINE later == {q \in objects : Less(o, q)}
           c == Cardinality(later)
           at(k) == IF k < c THEN k ELSE c
<1>1. later \in SUBSET Seq(Int) /\ IsFiniteSet(later) /\ later \subseteq Oids
  <2>1. later \in SUBSET Oids
    OBVIOUS
  <2> HIDE DEF later
  <2> QED
    BY <2>1, OidsAssumption, FS_Subset
<1>2. \A k \in Nat : NthAfter(k, o) = IF later = {} THEN o ELSE Sorted(later)[at(k)]
  BY DEF NthAfter
<1>3. CASE later = {}
  BY <1>2, <1>3 DEF UpTo
<1>4. CASE later # {}
  <2>1. /\ Sorted(later) \in Seq(later) /\ Len(Sorted(later)) = c
        /\ \A q \in later : \E k \in 1..c : Sorted(later)[k] = q
        /\ \A j, k \in 1..c : j < k => Less(Sorted(later)[j], Sorted(later)[k])
    <3> HIDE DEF later
    <3> QED
      BY <1>1, SortedIsSorted
  <2>2. c \in Nat /\ 1 <= c
    <3>1. c \in Nat
      BY <2>1
    <3>2. c # 0
      BY <1>4, <2>1, <3>1
    <3> QED
      BY <3>1, <3>2
  <2>3. at(n) \in 1..c /\ at(n) <= n
    BY <2>2
  <2>4. NthAfter(n, o) = Sorted(later)[at(n)] /\ NthAfter(n, o) \in later
    <3>1. NthAfter(n, o) = Sorted(later)[at(n)]
      BY <1>2, <1>4
    <3> HIDE DEF at, later
    <3> QED
      BY <2>1, <2>3, <3>1
  <2>5. ASSUME NEW q \in objects, Less(o, q), UpTo(q, NthAfter(n, o))
        PROVE  \E j \in 1..n : q = NthAfter(j, o)
    <3>1. q \in later
      BY <2>5
    <3>2. PICK k \in 1..c : Sorted(later)[k] = q
      <4> HIDE DEF later
      <4> QED
        BY <2>1, <3>1
    <3>3. k <= at(n)
      <4> SUFFICES ASSUME at(n) < k PROVE FALSE
        BY <2>2, <2>3
      <4>1. Less(NthAfter(n, o), q)
        BY <2>1, <2>3, <2>4, <3>2
      <4>2. q \in Seq(Int) /\ NthAfter(n, o) \in Seq(Int)
        BY <1>1, <2>4, <3>1
      <4> QED
        BY <2>5, <4>1, <4>2, LessIrreflexive, LessTransitive DEF UpTo
    <3>4. k \in 1..n /\ at(k) = k
      BY <2>2, <2>3, <3>3
    <3>5. NthAfter(k, o) = Sorted(later)[k]
      <4>1. k \in Nat
        OBVIOUS
      <4> QED
        BY <1>2, <1>4, <3>4, <4>1
    <3> QED
      BY <3>2, <3>4, <3>5
  <2> QED
    BY <2>4, <2>5 DEF UpTo, Places
<1> QED
  BY <1>3, <1>4

\* What the agent may answer: with each object it has passed the ones before it.
Answers(oids, request) ==
  /\ oids \in Seq(Places) \ {<<>>}
  /\ \A k \in 1..Len(oids) : \E n \in Nat \ {0}, i \in 1..Len(request) :
       /\ oids[k] = NthAfter(n, request[i])
       /\ \A j \in 1..n : \E m \in 1..Len(oids) : oids[m] = NthAfter(j, request[i])

\* The answers to getNext are such.
LEMMA NextAnswers ==
  ASSUME objects \in SUBSET Oids, NEW request \in Seq(Places) \ {<<>>}
  PROVE  Answers([i \in DOMAIN request |-> NextIn(request[i])], request)
<1> DEFINE oids == [i \in DOMAIN request |-> NextIn(request[i])]
<1>1. \A i \in 1..Len(request) : oids[i] = NthAfter(1, request[i]) /\ oids[i] \in Places
  BY NthAfterProperties DEF NextIn
<1>2. oids \in Seq(Places) \ {<<>>} /\ Len(oids) = Len(request)
  <2>1. \A i \in 1..Len(request) : NextIn(request[i]) \in Places
    BY NthAfterProperties DEF NextIn
  <2>2. Len(request) \in Nat \ {0} /\ DOMAIN request = 1..Len(request)
    OBVIOUS
  <2> QED
    BY <2>1, <2>2
<1>3. ASSUME NEW k \in 1..Len(oids)
      PROVE  \E n \in Nat \ {0}, i \in 1..Len(request) :
               /\ oids[k] = NthAfter(n, request[i])
               /\ \A j \in 1..n : \E m \in 1..Len(oids) : oids[m] = NthAfter(j, request[i])
  <2>1. k \in 1..Len(request) /\ oids[k] = NthAfter(1, request[k])
    BY <1>1, <1>2
  <2>2. \A j \in 1..1 : j = 1
    OBVIOUS
  <2>3. 1 \in Nat \ {0}
    OBVIOUS
  <2> QED
    BY <2>1, <2>2, <2>3, Zenon
<1>4. Answers(oids, request)
  <2> HIDE DEF oids
  <2> QED
    BY <1>2, <1>3, Zenon DEF Answers
<1> QED
  BY <1>4

\* Division with a remainder.
LEMMA Division ==
  ASSUME NEW x \in Nat, NEW d \in Nat \ {0}
  PROVE  /\ x \div d \in Nat /\ (x % d) \in 0..(d - 1)
         /\ x = d * (x \div d) + (x % d)
OBVIOUS

LEMMA DivisionIsUnique ==
  ASSUME NEW q \in Nat, NEW d \in Nat \ {0}, NEW r \in 0..(d - 1)
  PROVE  (d * q + r) \div d = q /\ (d * q + r) % d = r
OBVIOUS

LEMMA ProductBounds ==
  ASSUME NEW a \in Nat, NEW b \in Nat, NEW d \in Nat \ {0}
  PROVE  /\ d * a \in Nat
         /\ a <= b => d * a <= d * b
         /\ a # 0 => a * d >= 1
OBVIOUS

\* The whole answer to getBulk is in turns: an object comes after those which are before it
\* behind the same OID.
LEMMA BulkAnswers ==
  ASSUME objects \in SUBSET Oids, NEW request \in Seq(Places) \ {<<>>},
         NEW non \in 0..Len(request), NEW k \in 1..Len(BulkAnswer(request, non))
  PROVE  /\ BulkAnswer(request, non) \in Seq(Places) \ {<<>>}
         /\ \E n \in Nat \ {0}, i \in 1..Len(request) :
              /\ BulkAnswer(request, non)[k] = NthAfter(n, request[i])
              /\ \A j \in 1..n : \E m \in 1..k : BulkAnswer(request, non)[m] = NthAfter(j, request[i])
<1> DEFINE answer == BulkAnswer(request, non)
           d == Len(request) - non
           size == non + Repetitions * d
           turn(m) == 1 + ((m - non - 1) \div d)
           place(m) == non + 1 + ((m - non - 1) % d)
<1>1. /\ non \in Nat /\ d \in Nat /\ Repetitions \in Nat \ {0}
      /\ non + d = Len(request) /\ Len(request) \in Nat \ {0}
  BY BulkAssumption
<1> HIDE DEF d
<1>2. size \in Nat /\ 1 <= size /\ (d = 0 => size = non)
  <2>1. CASE d = 0
    BY <1>1, <2>1
  <2>2. CASE d # 0
    <3>1. Repetitions * d >= 1 /\ d * Repetitions \in Nat
      BY <1>1, <2>2, ProductBounds
    <3> QED
      BY <1>1, <2>2, <3>1
  <2> QED
    BY <2>1, <2>2
<1>3. answer = [m \in 1..size |-> IF m <= non THEN NextIn(request[m]) ELSE NthAfter(turn(m), request[place(m)])]
  BY Zenon DEF BulkAnswer, d
<1>4. ASSUME NEW m \in 1..size, ~(m <= non)
      PROVE  /\ d \in Nat \ {0} /\ turn(m) \in Nat \ {0} /\ place(m) \in (non + 1)..Len(request)
             /\ m = non + d * (turn(m) - 1) + (place(m) - non)
  <2> DEFINE x == m - non - 1
  <2> HIDE DEF size
  <2>1. d # 0 /\ x \in Nat
    BY <1>1, <1>2, <1>4
  <2>2. x \div d \in Nat /\ (x % d) \in 0..(d - 1) /\ x = d * (x \div d) + (x % d)
    <3> HIDE DEF x
    <3> QED
      BY <1>1, <2>1, Division
  <2>3. turn(m) = 1 + (x \div d) /\ place(m) = non + 1 + (x % d)
    OBVIOUS
  <2>4. m = non + 1 + x
    BY <1>1
  <2> DEFINE q == x \div d
             rest == x % d
  <2> HIDE DEF x, turn, place, q, rest
  <2>5. q \in Nat /\ rest \in 0..(d - 1) /\ x = d * q + rest /\ d * q \in Nat
    BY <1>1, <2>1, <2>2, ProductBounds DEF q, rest
  <2>6. turn(m) = 1 + q /\ place(m) = non + 1 + rest
    BY <2>3 DEF q, rest
  <2>7. turn(m) - 1 = q /\ place(m) - non = 1 + rest
    BY <1>1, <2>5, <2>6
  <2>8. m = non + d * q + (1 + rest)
    BY <1>1, <2>4, <2>5
  <2> QED
    BY <1>1, <2>1, <2>5, <2>6, <2>7, <2>8
<1>5. \A i \in 1..Len(request) : request[i] \in Places
  OBVIOUS
<1>6. ASSUME NEW m \in 1..size PROVE answer[m] \in Places
  <2>1. CASE m <= non
    <3>1. answer[m] = NthAfter(1, request[m]) /\ m \in 1..Len(request)
      BY <1>1, <1>3, <2>1 DEF NextIn
    <3> QED
      BY <1>5, <3>1, NthAfterProperties
  <2>2. CASE ~(m <= non)
    <3>1. answer[m] = NthAfter(turn(m), request[place(m)])
      BY <1>3, <2>2
    <3>2. turn(m) \in Nat \ {0} /\ place(m) \in 1..Len(request)
      <4> HIDE DEF turn, place, size
      <4> QED
        BY <1>1, <1>4, <2>2
    <3> HIDE DEF turn, place, answer
    <3> QED
      BY <1>5, <3>1, <3>2, NthAfterProperties
  <2> QED
    BY <2>1, <2>2
<1>7. answer \in Seq(Places) \ {<<>>} /\ Len(answer) = size
  <2>1. DOMAIN answer = 1..size
    BY <1>3, Zenon
  <2>2. answer = [m \in 1..size |-> answer[m]]
    BY <1>3, <2>1, Zenon
  <2> HIDE DEF answer, size
  <2> QED
    BY <1>2, <1>6, <2>2
<1>8. k \in 1..size
  BY <1>7
<1>9. CASE k <= non
  <2>1. answer[k] = NthAfter(1, request[k]) /\ k \in 1..Len(request)
    BY <1>1, <1>3, <1>8, <1>9 DEF NextIn
  <2>2. 1 \in Nat \ {0} /\ k \in 1..k /\ \A j \in 1..1 : j = 1
    OBVIOUS
  <2> HIDE DEF answer
  <2>3. \A j \in 1..1 : \E m \in 1..k : answer[m] = NthAfter(j, request[k])
    BY <2>1, <2>2, Zenon
  <2> QED
    BY <1>7, <2>1, <2>2, <2>3, Zenon DEF answer
<1>10. CASE ~(k <= non)
  <2> DEFINE n == turn(k)
             i == place(k)
  <2>1. /\ d \in Nat \ {0} /\ n \in Nat \ {0} /\ i \in (non + 1)..Len(request)
        /\ k = non + d * (n - 1) + (i - non)
    BY <1>4, <1>8, <1>10
  <2>2. answer[k] = NthAfter(n, request[i])
    BY <1>3, <1>8, <1>10
  <2>3. ASSUME NEW j \in 1..n PROVE \E m \in 1..k : answer[m] = NthAfter(j, request[i])
    <3> DEFINE m == non + d * (j - 1) + (i - non)
               r == i - non - 1
    <3> HIDE DEF n, i
    <3>1. r \in 0..(d - 1) /\ j - 1 \in Nat
      BY <1>1, <2>1
    <3>2. d * (j - 1) \in Nat /\ d * (j - 1) <= d * (n - 1)
      <4>1. n - 1 \in Nat /\ j - 1 <= n - 1
        BY <2>1
      <4> QED
        BY <2>1, <3>1, <4>1, ProductBounds
    <3>3. m \in 1..k /\ ~(m <= non)
      BY <1>1, <2>1, <3>1, <3>2
    <3>4. m - non - 1 = d * (j - 1) + r
      BY <1>1, <2>1, <3>1, <3>2
    <3>5. turn(m) = j /\ place(m) = i
      <4>1. (m - non - 1) \div d = j - 1 /\ (m - non - 1) % d = r
        <5> HIDE DEF m, r
        <5>1. (d * (j - 1) + r) \div d = j - 1 /\ (d * (j - 1) + r) % d = r
          BY <2>1, <3>1, DivisionIsUnique
        <5> QED
          BY <3>4, <5>1
      <4> HIDE DEF m
      <4> QED
        BY <1>1, <2>1, <4>1
    <3>6. m \in 1..size
      <4> HIDE DEF m, size
      <4> QED
        BY <1>2, <1>8, <3>3
    <3>7. answer[m] = NthAfter(j, request[i])
      <4> HIDE DEF m, turn, place, answer, size
      <4> QED
        BY <1>3, <3>3, <3>5, <3>6
    <3> QED
      BY <3>3, <3>7
  <2>4. i \in 1..Len(request)
    <3> HIDE DEF i
    <3> QED
      BY <1>1, <2>1
  <2> HIDE DEF answer, n, i
  <2> QED
    BY <1>7, <2>1, <2>2, <2>3, <2>4, Zenon DEF answer
<1> QED
  BY <1>9, <1>10

\* Wherever the packet ends, the response is an answer.
LEMMA CutAnswers ==
  ASSUME objects \in SUBSET Oids, NEW request \in Seq(Places) \ {<<>>},
         NEW non \in 0..Len(request), NEW oids \in Cut(BulkAnswer(request, non))
  PROVE  Answers(oids, request)
<1> DEFINE answer == BulkAnswer(request, non)
<1>1. PICK n \in 1 .. IF Len(answer) < MaxVars THEN Len(answer) ELSE MaxVars : oids = SubSeq(answer, 1, n)
  BY Zenon DEF Cut
<1>2. answer \in Seq(Places) \ {<<>>}
  <2>1. CASE 1 \in 1..Len(answer)
    BY <2>1, BulkAnswers
  <2>2. CASE Len(answer) < 1
    BY <1>1, <2>2, BulkAssumption
  <2> QED
    BY <1>1, <2>1, <2>2, BulkAssumption
<1>3. /\ \A k \in 1..Len(answer) : \E p \in Nat \ {0}, i \in 1..Len(request) :
            /\ answer[k] = NthAfter(p, request[i])
            /\ \A j \in 1..p : \E m \in 1..k : answer[m] = NthAfter(j, request[i])
  BY BulkAnswers
<1> HIDE DEF answer
<1>4. /\ oids \in Seq(Places) \ {<<>>} /\ Len(oids) = n /\ n <= Len(answer) /\ n \in Nat
      /\ \A k \in 1..n : oids[k] = answer[k]
  BY <1>1, <1>2, BulkAssumption
<1>5. ASSUME NEW k \in 1..Len(oids)
      PROVE  \E p \in Nat \ {0}, i \in 1..Len(request) :
               /\ oids[k] = NthAfter(p, request[i])
               /\ \A j \in 1..p : \E m \in 1..Len(oids) : oids[m] = NthAfter(j, request[i])
  <2>1. k \in 1..Len(answer) /\ oids[k] = answer[k]
    BY <1>4
  <2>2. PICK p \in Nat \ {0}, i \in 1..Len(request) :
          /\ answer[k] = NthAfter(p, request[i])
          /\ \A j \in 1..p : \E m \in 1..k : answer[m] = NthAfter(j, request[i])
    BY <1>3, <2>1, Zenon
  <2>3. ASSUME NEW j \in 1..p PROVE \E m \in 1..Len(oids) : oids[m] = NthAfter(j, request[i])
    <3>1. PICK m \in 1..k : answer[m] = NthAfter(j, request[i])
      BY <2>2, Zenon
    <3>2. m \in 1..n /\ m \in 1..Len(oids)
      BY <1>4
    <3> QED
      BY <1>4, <3>1, <3>2, Zenon
  <2> QED
    BY <2>1, <2>2, <2>3, Zenon
<1> QED
  BY <1>4, <1>5, Zenon DEF Answers

-----------------------------------------------------------------------------
\* The invariant

LEMMA InitOK == Init => IInv
<1> SUFFICES ASSUME Init PROVE IInv
  OBVIOUS
<1>1. Root \in Places /\ Root \in Seq(Int)
  BY OidsAssumption DEF Places
<1>2. pdu.oids = <<Root>> /\ asked = <<>> /\ read = {} /\ lasting = objects /\ objects \in SUBSET Oids
  BY DEF Init
<1>3. TypeOK
  <2>1. <<Root>> \in Seq(Places) \ {<<>>} /\ <<>> \in Seq(Places)
    BY <1>1
  <2>2. pdu \in [type : {"kGetNext", "kGetBulk", "kResponse"}, oids : Seq(Places) \ {<<>>}]
    <3>1. PICK t \in {"kGetNext", "kGetBulk"} : pdu = [type |-> t, oids |-> <<Root>>]
      BY DEF Init
    <3> QED
      BY <2>1, <3>1
  <2> QED
    BY <1>2, <2>1, <2>2 DEF TypeOK
<1>4. Range(pdu.oids) = {Root} /\ Range(asked) = {}
  BY <1>2 DEF Range
<1>5. Behind
  <2> SUFFICES ASSUME NEW o \in Sought, UpTo(o, Root) PROVE FALSE
    BY <1>4 DEF Behind, ReadUpTo
  <2>1. o \in Seq(Int) /\ IsChildOf(o, Root)
    BY <1>2, OidsAssumption DEF Sought
  <2>2. Less(Root, o)
    BY <1>1, <2>1, ParentIsSmaller
  <2> QED
    BY <1>1, <2>1, <2>2, LessIrreflexive, LessTransitive DEF UpTo
<1> QED
  BY <1>2, <1>3, <1>4, <1>5 DEF IInv, InOrder, AtTheEnd, UpTo

\* UpTo is a total order.
LEMMA UpToOrder ==
  ASSUME NEW a \in Seq(Int), NEW b \in Seq(Int), NEW c \in Seq(Int)
  PROVE  /\ UpTo(a, b) /\ UpTo(b, c) => UpTo(a, c)
         /\ UpTo(a, b) /\ Less(b, c) => Less(a, c)
         /\ Less(a, b) /\ UpTo(b, c) => Less(a, c)
         /\ UpTo(a, b) \/ Less(b, a)
         /\ ~(Less(a, b) /\ UpTo(b, a))
BY LessIrreflexive, LessTransitive, LessTotal DEF UpTo

\* A request for what follows OIDs of the response, and its answer, keep the invariant.
LEMMA RespondOK ==
  ASSUME IInv, NEW request \in Seq(Places) \ {<<>>}, Range(request) \subseteq Range(pdu.oids),
         NEW oids, Answers(oids, request), Respond(request, oids)
  PROVE  IInv'
<1>1. /\ objects \in SUBSET Oids /\ lasting \in SUBSET objects /\ pdu.oids \in Seq(Places)
      /\ read \in SUBSET Places
  BY DEF IInv, TypeOK
<1>2. /\ asked' = request /\ pdu' = [type |-> "kResponse", oids |-> oids]
      /\ read' = read \cup Range(oids) /\ objects' = objects /\ lasting' = lasting
      /\ pdu'.oids = oids
  BY DEF Respond
<1>3. oids \in Seq(Places) \ {<<>>}
  BY DEF Answers
<1>4. TypeOK'
  <2>1. Range(oids) \subseteq Places
    BY <1>3, RangeOfList
  <2> QED
    BY <1>1, <1>2, <1>3, <2>1 DEF TypeOK
<1>5. \A r \in Range(request) : r \in Places /\ r \in Seq(Int) /\ UpTo(Root, r) /\ ReadUpTo(r)
  BY RangeOfList, PlacesAreOids DEF IInv, InOrder, Behind
<1>6. ASSUME NEW p \in Range(oids)
      PROVE  /\ p \in Places /\ p \in Seq(Int) /\ UpTo(Root, p) /\ ReadUpTo(p)'
             /\ \E r \in Range(request), n \in Nat \ {0} : p = NthAfter(n, r)
  <2>1. PICK k \in 1..Len(oids) : p = oids[k]
    BY <1>3 DEF Range
  <2>2. PICK n \in Nat \ {0}, i \in 1..Len(request) :
          /\ p = NthAfter(n, request[i])
          /\ \A j \in 1..n : \E m \in 1..Len(oids) : oids[m] = NthAfter(j, request[i])
    BY <2>1, Zenon DEF Answers
  <2> DEFINE r == request[i]
  <2>3. r \in Range(request)
    BY RangeOfList
  <2>4. r \in Places /\ r \in Seq(Int) /\ UpTo(Root, r) /\ ReadUpTo(r)
    BY <1>5, <2>3
  <2> HIDE DEF r
  <2>5. /\ p \in Places /\ UpTo(r, p)
        /\ \A q \in objects : Less(r, q) /\ UpTo(q, p) => \E j \in 1..n : q = NthAfter(j, r)
    BY <1>1, <2>2, <2>4, NthAfterProperties DEF r
  <2>6. p \in Seq(Int) /\ UpTo(Root, p)
    BY <2>4, <2>5, PlacesAreOids, OidsAssumption, UpToOrder
  <2>7. ASSUME NEW o \in Sought, UpTo(o, p) PROVE o \in read'
    <3>1. o \in objects /\ o \in Seq(Int)
      BY <1>1, OidsAssumption DEF Sought
    <3>2. CASE UpTo(o, r)
      BY <1>2, <2>4, <3>2 DEF ReadUpTo
    <3>3. CASE Less(r, o)
      <4>1. PICK j \in 1..n : o = NthAfter(j, r)
        BY <2>5, <2>7, <3>1, <3>3
      <4>2. PICK m \in 1..Len(oids) : oids[m] = o
        BY <2>2, <4>1, Zenon DEF r
      <4> QED
        BY <1>2, <1>3, <4>2, RangeOfList
    <3> QED
      BY <2>4, <3>1, <3>2, <3>3, UpToOrder
  <2>8. ReadUpTo(p)'
    BY <1>2, <2>7 DEF ReadUpTo, Sought
  <2> QED
    BY <2>2, <2>3, <2>5, <2>6, <2>8, Zenon DEF r
<1>7. InOrder'
  BY <1>2, <1>5, <1>6 DEF InOrder
<1>8. Behind'
  BY <1>2, <1>6 DEF Behind
<1>9. AtTheEnd'
  <2> SUFFICES ASSUME ~Less(Least(request), Least(oids)), NEW o \in Sought PROVE o \in read'
    BY <1>2 DEF AtTheEnd, Sought
  <2> DEFINE l == Least(request)
             p == Least(oids)
  <2>1. l \in Range(request) /\ p \in Range(oids) /\ \A r \in Range(request) : UpTo(l, r)
    BY <1>3, GetOidsSorts
  <2> HIDE DEF l, p
  <2>2. l \in Places /\ l \in Seq(Int) /\ ReadUpTo(l) /\ p \in Seq(Int)
    BY <1>5, <1>6, <2>1
  <2>3. PICK r \in Range(request), n \in Nat \ {0} : p = NthAfter(n, r)
    BY <1>6, <2>1
  <2>4. r \in Places /\ r \in Seq(Int) /\ UpTo(l, r)
    BY <1>5, <2>1
  <2>5. UpTo(r, p) /\ ((\E q \in objects : Less(r, q)) => Less(r, p))
    BY <1>1, <2>3, <2>4, NthAfterProperties
  <2>6. ~Less(l, p)
    BY DEF l, p
  <2>7. ~(\E q \in objects : Less(r, q)) /\ r = l
    BY <2>2, <2>4, <2>5, <2>6, UpToOrder DEF UpTo
  <2>8. o \in objects /\ o \in Seq(Int)
    BY <1>1, OidsAssumption DEF Sought
  <2>9. UpTo(o, l)
    BY <2>2, <2>7, <2>8, UpToOrder
  <2> QED
    BY <1>2, <2>2, <2>9 DEF ReadUpTo
<1> QED
  BY <1>4, <1>7, <1>8, <1>9 DEF IInv

\* What getNext and getBulk do is to ask for what follows OIDs of the response.
LEMMA CallsRespond ==
  ASSUME IInv, Client
  PROVE  /\ ~Finished
         /\ \E request \in Seq(Places) \ {<<>>}, oids \in Seq(Places) :
              /\ Range(request) \subseteq Range(pdu.oids)
              /\ Answers(oids, request)
              /\ Respond(request, oids)
<1>1. objects \in SUBSET Oids /\ pdu.oids \in Seq(Places) \ {<<>>}
  BY DEF IInv, TypeOK
<1>2. ~Finished
  BY DEF Client, GetNext, GetBulk, GetOid
<1>3. PICK request \in Seq(Places) \ {<<>>} :
        Range(request) \subseteq Range(pdu.oids) /\ (GetNextOf(request) \/ GetBulkOf(request))
  <2>1. ASSUME NEW o \in Range(pdu.oids)
        PROVE  <<o>> \in Seq(Places) \ {<<>>} /\ Range(<<o>>) = {o}
    BY <1>1, RangeOfList DEF Range
  <2>2. CASE GetNext
    <3> DEFINE request == IF pdu.type = "kGetNext" THEN pdu.oids ELSE <<Last(pdu.oids)>>
    <3>1. Last(pdu.oids) \in Range(pdu.oids)
      BY <1>1, RangeOfList DEF Last
    <3>2. request \in Seq(Places) \ {<<>>} /\ Range(request) \subseteq Range(pdu.oids)
      BY <1>1, <2>1, <3>1
    <3> QED
      BY <2>2, <3>2 DEF GetNext
  <2>3. CASE GetBulk
    <3> DEFINE request == IF pdu.type = "kGetBulk" THEN pdu.oids ELSE GetOids(pdu.oids)
    <3>1. request \in Seq(Places) \ {<<>>} /\ Range(request) \subseteq Range(pdu.oids)
      BY <1>1, GetOidsSorts
    <3> QED
      BY <2>3, <3>1 DEF GetBulk
  <2>4. CASE GetOid
    <3> PICK o \in Range(pdu.oids) : GetNextOf(<<o>>) \/ GetBulkOf(<<o>>)
      BY <2>4 DEF GetOid
    <3> QED
      BY <2>1
  <2> QED
    BY <2>2, <2>3, <2>4 DEF Client
<1>4. CASE GetNextOf(request)
  <2> DEFINE oids == [i \in DOMAIN request |-> NextIn(request[i])]
  <2>1. Answers(oids, request)
    BY <1>1, <1>3, NextAnswers
  <2>2. Respond(request, oids)
    BY <1>4 DEF GetNextOf
  <2>3. oids \in Seq(Places)
    BY <2>1 DEF Answers
  <2> HIDE DEF oids
  <2> QED
    BY <1>2, <1>3, <2>1, <2>2, <2>3
<1>5. CASE GetBulkOf(request)
  <2> DEFINE non(n) == IF n < Len(request) THEN n ELSE Len(request)
  <2>1. PICK n \in 0 .. MaxNon : \E oids \in Cut(BulkAnswer(request, non(n))) : Respond(request, oids)
    BY <1>5, Zenon DEF GetBulkOf
  <2>2. non(n) \in 0..Len(request)
    BY <1>3, BulkAssumption
  <2> PICK oids \in Cut(BulkAnswer(request, non(n))) : Respond(request, oids)
    BY <2>1
  <2> HIDE DEF non
  <2>3. Answers(oids, request)
    BY <1>1, <1>3, <2>1, <2>2, CutAnswers
  <2>4. oids \in Seq(Places)
    BY <2>3 DEF Answers
  <2> QED
    BY <1>2, <1>3, <2>3, <2>4
<1> QED
  BY <1>3, <1>4, <1>5

\* Objects that come and go can only lessen what the walk looks for.
LEMMA ObjectsChangeOK ==
  ASSUME IInv, ObjectsChange
  PROVE  IInv'
<1>1. /\ objects' \in SUBSET Oids /\ lasting' \in SUBSET objects' /\ lasting' \subseteq lasting
      /\ pdu' = pdu /\ asked' = asked /\ read' = read
  BY DEF ObjectsChange, IInv, TypeOK
<1>2. Sought' \subseteq Sought
  BY <1>1 DEF Sought
<1>3. TypeOK'
  BY <1>1 DEF IInv, TypeOK
<1>4. InOrder'
  BY <1>1 DEF IInv, InOrder
<1>5. Behind'
  BY <1>1, <1>2 DEF IInv, Behind, ReadUpTo
<1>6. AtTheEnd'
  BY <1>1, <1>2 DEF IInv, AtTheEnd
<1> QED
  BY <1>3, <1>4, <1>5, <1>6 DEF IInv

LEMMA NextOK == IInv /\ [Next]_vars => IInv'
<1> SUFFICES ASSUME IInv, [Next]_vars PROVE IInv'
  OBVIOUS
<1>1. CASE Client
  BY <1>1, CallsRespond, RespondOK
<1>2. CASE ObjectsChange
  BY <1>2, ObjectsChangeOK
<1>3. CASE UNCHANGED vars
  BY <1>3 DEF vars, IInv, TypeOK, InOrder, Behind, ReadUpTo, AtTheEnd, Sought
<1> QED
  BY <1>1, <1>2, <1>3 DEF Next

LEMMA Inductive == Spec => []IInv
<1>1. Init => IInv
  BY InitOK
<1>2. IInv /\ [Next]_vars => IInv'
  BY NextOK
<1> QED
  BY <1>1, <1>2, PTL DEF Spec

-----------------------------------------------------------------------------
\* What follows

\* Walks keep within the objects the agent may have.
THEOREM TypeCorrect == Spec => []TypeOK
<1>1. IInv => TypeOK
  BY DEF IInv
<1> QED
  BY <1>1, Inductive, PTL

\* A walk that is over has read every object below Root that was there all the time.
THEOREM NothingIsSkipped == Spec => []NothingSkipped
<1>1. IInv => NothingSkipped
  <2> SUFFICES ASSUME IInv, Finished, NEW o \in Sought PROVE o \in read
    BY DEF NothingSkipped, Sought
  <2> DEFINE l == Least(pdu.oids)
             a == Least(asked)
  <2>1. /\ pdu.oids \in Seq(Places) \ {<<>>} /\ asked \in Seq(Places) \ {<<>>}
        /\ lasting \subseteq objects /\ objects \subseteq Oids
    BY DEF IInv, TypeOK, Finished
  <2>2. l \in Range(pdu.oids) /\ a \in Range(asked)
    BY <2>1, GetOidsSorts
  <2>3. UpTo(Root, a) /\ ReadUpTo(l)
    BY <2>2 DEF IInv, InOrder, Behind
  <2>4. CASE ~Less(a, l)
    BY <2>1, <2>4 DEF IInv, AtTheEnd
  <2>5. CASE Less(a, l) /\ ~IsChildOf(l, Root)
    <3>1. l \in Seq(Int) /\ a \in Seq(Int) /\ Root \in Seq(Int) /\ o \in Seq(Int) /\ IsChildOf(o, Root)
      BY <2>1, <2>2, RangeOfList, PlacesAreOids, OidsAssumption DEF Sought
    <3> HIDE DEF l, a
    <3>2. Less(Root, l)
      BY <2>3, <2>5, <3>1, UpToOrder
    <3>3. Less(o, l)
      BY <2>5, <3>1, <3>2, ChildrenAreContiguous
    <3> QED
      BY <2>3, <3>3 DEF ReadUpTo, UpTo
  <2> QED
    BY <2>4, <2>5 DEF Finished
<1> QED
  BY <1>1, Inductive, PTL
=============================================================================
