-------------------------------- MODULE Oid --------------------------------
(***************************************************************************)
(* SNMPpp::OID (OID.cpp, OID.hpp): a vector of net-snmp's oid values, read *)
(* from and written as text.  A text is a sequence of tokens: Dot, a       *)
(* number, which stands for a maximal run of digits, or Junk, any other    *)
(* character.  An int has 2 * HalfInt values and an oid 2 * HalfOid, 2^32  *)
(* and 2^64 in the build.  A program owns Objects of the class and applies *)
(* the operations that change one, in any order.                           *)
(***************************************************************************)
EXTENDS OidOrder

CONSTANTS
  HalfInt,    \* the ints are -HalfInt..(HalfInt - 1)
  HalfOid,    \* the longs are -HalfOid..(HalfOid - 1), and as wide as an oid
  Objects,    \* the OID objects
  Values,     \* the values appended with operator+=( oid )
  Numbers,    \* the numbers in the texts the program passes
  MaxTokens,  \* bound: the tokens in such a text
  MaxLen      \* bound: the values in one OID

OidValues == 0..(2 * HalfOid - 1)

ASSUME WidthAssumption == HalfInt \in Nat /\ HalfOid \in Nat /\ 0 < HalfInt /\ HalfInt <= HalfOid
ASSUME ValuesAssumption == Values \subseteq OidValues /\ Numbers \subseteq Nat
ASSUME BoundsAssumption == MaxTokens \in Nat /\ MaxLen \in Nat

VARIABLE oid    \* oid[x]: the vector of object x

Dot == -1
Junk == -2

Texts ==
  {s \in BoundedSeq({Dot, Junk} \cup Numbers, MaxTokens) :
     \A i \in 1..(Len(s) - 1) : s[i] \in {Dot, Junk} \/ s[i + 1] \in {Dot, Junk}}

-----------------------------------------------------------------------------
\* Text

\* Mutant of Atoi: the int is not converted to the unsigned oid.
AtoiSigned(n) ==
  LET low == n % (2 * HalfInt)
  IN  IF low < HalfInt THEN low ELSE low - 2 * HalfInt

\* The oid made of atoi's result: strtol saturates at the largest long, the int keeps
\* its low bits, and a negative int becomes a large oid.
Atoi(n) ==
  LET low == (IF n < HalfOid THEN n ELSE HalfOid - 1) % (2 * HalfInt)
  IN  IF low < HalfInt THEN low ELSE low + 2 * HalfOid - 2 * HalfInt

\* Where the k-th number of a text is if every one before it is followed by a dot.
Place(s, k) == (IF s # <<>> /\ s[1] = Dot THEN 2 ELSE 1) + 2 * (k - 1)

\* The loop of operator+( string ) comes to the k-th number if it has come to the ones
\* before: it has skipped one dot and finds a digit.
Readable(s, k) ==
  LET p == Place(s, k)
  IN  p <= Len(s) /\ s[p] \notin {Dot, Junk} /\ (k = 1 \/ s[p - 1] = Dot)

\* How many numbers the loop reads.
Reads(s) == Cardinality({k \in 1..Len(s) : \A j \in 1..k : Readable(s, j)})

\* Mutant of ValuesOf: a number is not followed by the rest of the text.
FirstValueOf(s) == IF Readable(s, 1) THEN <<Atoi(s[Place(s, 1)])>> ELSE <<>>

\* What operator+( string ) appends.
ValuesOf(s) == [k \in 1..Reads(s) |-> Atoi(s[Place(s, k)])]

\* operator std::string
ToStr(o) == [k \in 1..(2 * Len(o)) |-> IF k % 2 = 1 THEN Dot ELSE o[k \div 2]]

-----------------------------------------------------------------------------
\* The operations that change object x

Become(x, o) == Len(o) <= MaxLen /\ oid' = [oid EXCEPT ![x] = o]

AppendValue(x, n) == Become(x, Append(oid[x], n))
AppendText(x, s) == Become(x, oid[x] \o ValuesOf(s))
SetText(x, s) == Become(x, ValuesOf(s))
SetOid(x, y) == Become(x, oid[y])
SetParent(x, y, level) == Become(x, Parent(oid[y], level))
ClearOid(x) == Become(x, <<>>)

Init == oid = [x \in Objects |-> <<>>]

Next ==
  \E x \in Objects :
    \/ \E n \in Values : AppendValue(x, n)
    \/ \E s \in Texts : AppendText(x, s) \/ SetText(x, s)
    \/ \E y \in Objects : SetOid(x, y) \/ \E level \in 0..(MaxLen + 1) : SetParent(x, y, level)
    \/ ClearOid(x)

Spec == Init /\ [][Next]_oid

-----------------------------------------------------------------------------
\* Every value of every OID is an oid, also when it was read from text.
TypeOK == oid \in [Objects -> Seq(OidValues)]

\* Every value can be held by an int.
FitsInt(o) == \A i \in DOMAIN o : o[i] < HalfInt

(***************************************************************************)
(* An OID whose values fit an int survives a trip through its text, with   *)
(* or without the first dot and whatever follows it (OID.cpp:84-95,        *)
(* 169-207, test_01_oid.cpp:89-94): the parser ends neither too early nor  *)
(* too late.                                                               *)
(***************************************************************************)
TextRoundTrip ==
  \A x \in Objects, rest \in {<<>>, <<Dot>>, <<Junk>>, <<Dot, Dot>>, <<Dot, Junk>>} :
    oid[x] # <<>> /\ FitsInt(oid[x]) =>
      /\ ValuesOf(ToStr(oid[x]) \o rest) = oid[x]
      /\ ValuesOf(Tail(ToStr(oid[x])) \o rest) = oid[x]

(***************************************************************************)
(* isChildOf, isImmediateChildOf and parent describe one tree: the         *)
(* children of an OID are the OIDs it is an ancestor of, and the empty OID *)
(* has no children (OID.cpp:287-372, with the examples at 291-295, 351).   *)
(***************************************************************************)
OneTree ==
  \A x, y \in Objects :
    LET o == oid[x]
        rhs == oid[y]
    IN  /\ IsChildOf(o, rhs) <=> rhs # <<>> /\ \E level \in 1..MaxLen : Parent(o, level) = rhs
        /\ IsImmediateChildOf(o, rhs) <=> rhs # <<>> /\ o # <<>> /\ Parent(o, 1) = rhs

(***************************************************************************)
(* In the order of std::set<OID> and of GETNEXT an OID comes before its    *)
(* children, and its children before everything else that follows it: a    *)
(* walk may stop at the first OID that is not a child (OID.hpp:148,        *)
(* OID.cpp:287-323, Get.cpp:112-122).                                      *)
(***************************************************************************)
SubtreesAreContiguous ==
  \A x, y \in Objects : \A level \in 1..MaxLen :
    LET root == Parent(oid[x], level)
    IN  root # <<>> =>
          /\ Less(root, oid[x])
          /\ Less(root, oid[y]) /\ ~IsChildOf(oid[y], root) => Less(oid[x], oid[y])

(***************************************************************************)
(* OID.hpp:75, 106: an OID is initialised by, and converted to, "the       *)
(* familiar numeric value"; the text of any OID of 32-bit values, which    *)
(* SNMP allows, would then initialise the same OID.                        *)
(***************************************************************************)
TextRoundTripAlways ==
  \A x \in Objects :
    (\A i \in DOMAIN oid[x] : oid[x][i] < 2 * HalfInt) => ValuesOf(ToStr(oid[x])) = oid[x]
=============================================================================
