------------------------------ MODULE OidOrder ------------------------------
(***************************************************************************)
(* The order and the kinship of SNMPpp::OID (OID.cpp:287-372, OID.hpp).    *)
(* An OID is a sequence of numbers.                                        *)
(***************************************************************************)
EXTENDS Integers, SequencesExt

\* Mutant of Less: shorter OIDs come first.
LessByLength(a, b) ==
  \/ Len(a) < Len(b)
  \/ /\ Len(a) = Len(b)
     /\ \E i \in DOMAIN b : a[i] < b[i] /\ SubSeq(a, 1, i - 1) = SubSeq(b, 1, i - 1)

\* operator<: vectors are compared value by value
Less(a, b) ==
  \E i \in DOMAIN b :
    /\ i = Len(a) + 1 \/ (i \in DOMAIN a /\ a[i] < b[i])
    /\ \A k \in 1..(i - 1) : a[k] = b[k]

\* Mutant of IsChildOf: the sizes may be equal.
IsChildOfOrEqual(o, rhs) ==
  rhs # <<>> /\ Len(rhs) <= Len(o) /\ \A i \in DOMAIN rhs : o[i] = rhs[i]

IsChildOf(o, rhs) ==
  rhs # <<>> /\ Len(rhs) < Len(o) /\ \A i \in DOMAIN rhs : o[i] = rhs[i]

IsImmediateChildOf(o, rhs) == Len(o) = Len(rhs) + 1 /\ IsChildOf(o, rhs)

Parent(o, level) == IF level >= Len(o) THEN <<>> ELSE SubSeq(o, 1, Len(o) - level)

\* std::set<OID>: the elements from the least on, each where as many are less as come before it
Sorted(S) == [k \in 1..Cardinality(S) |-> CHOOSE o \in S : Cardinality({p \in S : Less(p, o)}) = k - 1]
=============================================================================
