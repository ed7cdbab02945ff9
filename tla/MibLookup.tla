----------------------------- MODULE MibLookup -----------------------------
(***************************************************************************)
(* The names and modules of OIDs (OID.cpp:375-597), looked up in the tree  *)
(* that net-snmp builds from the MIB modules loaded so far.  A node of the *)
(* tree is the OID it stands for; its label and its parent follow from     *)
(* that.  The OIDs are those of Oid, changed by the program while modules  *)
(* are loaded; nothing is remembered of a lookup.                          *)
(***************************************************************************)
EXTENDS Oid

CONSTANTS
  ModuleOf,     \* the MIB module that defines each node net-snmp could load
  NumberChars   \* the characters of a number that nameFromMib's buffer holds, 9 in the build

Nodes == DOMAIN ModuleOf

ASSUME NodesAssumption ==
  /\ Nodes \subseteq Seq(OidValues)
  /\ \A node \in Nodes : node # <<>> /\ (Len(node) = 1 \/ Parent(node, 1) \in Nodes)
ASSUME BufferAssumption == NumberChars \in Nat

VARIABLE loaded    \* the modules that have been loaded

Tree == {node \in Nodes : ModuleOf[node] \in loaded}

Lookups == {"kLeafOnly", "kPartial", "kInverted", "kFull"}

-----------------------------------------------------------------------------
\* External: get_tree returns the closest match, <<>> for NULL.
GetTree(o) ==
  LET matches == {k \in 1..Len(o) : SubSeq(o, 1, k) \in Tree}
  IN  IF matches = {} THEN <<>> ELSE SubSeq(o, 1, Max(matches))

\* Mutant of TreeOf: the closest match is taken for an exact one.
TreeOfClosest(o, exact) == GetTree(o)

\* getTree: an exact match is one whose subids, up to the root, are the OID.
TreeOf(o, exact) == IF exact /\ GetTree(o) # o THEN <<>> ELSE GetTree(o)

\* getModule: find_module of the node's modid, {} for NULL
ModulesOf(o, exact) == {ModuleOf[node] : node \in {TreeOf(o, exact)} \ {<<>>}}

-----------------------------------------------------------------------------
\* Names: a sequence of labels and numbers

Minus == -1

NumDigits(n) == CHOOSE d \in 1..(n + 1) : n < 10^d /\ (d = 1 \/ n >= 10^(d - 1))

Digits(n) == [k \in 1..NumDigits(n) |-> (n \div 10^(NumDigits(n) - k)) % 10]

Label(node) == [node |-> node, number |-> <<>>]
Number(n) == [node |-> <<>>, number |-> Digits(n)]

\* snprintf of an oid as a long, into the buffer
Printed(n) ==
  LET text == IF n < HalfOid THEN Digits(n) ELSE <<Minus>> \o Digits(2 * HalfOid - n)
  IN  [node |-> <<>>, number |-> SubSeq(text, 1, IF Len(text) < NumberChars THEN Len(text) ELSE NumberChars)]

\* Mutant of NameFromMib: a partial name takes the label of the closest match.
NameFromClosest(o, lookup) ==
  LET found == GetTree(Parent(o, IF lookup = "kInverted" THEN 1 ELSE 0))
      named(k) == k <= Len(found) /\ (lookup \in {"kInverted", "kFull"} \/ k = Len(found))
      vstr == [k \in 1..Len(o) |-> IF named(k) THEN Label(SubSeq(found, 1, k)) ELSE Printed(o[k])]
  IN  IF lookup = "kLeafOnly" /\ o # <<>> THEN <<vstr[Len(o)]>> ELSE vstr

\* nameFromMib: the labels of the closest match and of its ancestors replace the
\* numbers; for a leaf or a partial name only that of an exact match does.
NameFromMib(o, lookup) ==
  LET found == GetTree(Parent(o, IF lookup = "kInverted" THEN 1 ELSE 0))
      named(k) ==
        /\ k <= Len(found)
        /\ lookup \in {"kInverted", "kFull"} \/ (Len(found) = Len(o) /\ k = Len(o))
      vstr == [k \in 1..Len(o) |-> IF named(k) THEN Label(SubSeq(found, 1, k)) ELSE Printed(o[k])]
  IN  IF lookup = "kLeafOnly" /\ o # <<>> THEN <<vstr[Len(o)]>> ELSE vstr

-----------------------------------------------------------------------------
\* External: a module is loaded after the modules it imports its nodes' parents from.
LoadModule(m) ==
  /\ \A node \in Nodes : ModuleOf[node] = m /\ Len(node) > 1 => ModuleOf[Parent(node, 1)] \in loaded \cup {m}
  /\ loaded' = loaded \cup {m}
  /\ UNCHANGED oid

MibInit == Init /\ loaded = {}

MibNext ==
  \/ Next /\ UNCHANGED loaded
  \/ \E m \in {ModuleOf[node] : node \in Nodes} : LoadModule(m)

MibSpec == MibInit /\ [][MibNext]_<<oid, loaded>>

-----------------------------------------------------------------------------
\* The numbers that fit the buffer of nameFromMib.
Fits(n) == n < HalfOid /\ NumDigits(n) \in 1..NumberChars

\* The name the comment at OID.cpp:381-388 promises: which of its parts are labels.
Described(o, lookup) ==
  LET wanted == CASE lookup = "kFull" -> 1..Len(o)
                  [] lookup = "kInverted" -> 1..(Len(o) - 1)
                  [] OTHER -> {Len(o)}
      part(k) == IF k \in wanted /\ SubSeq(o, 1, k) \in Tree THEN Label(SubSeq(o, 1, k)) ELSE Number(o[k])
  IN  IF lookup = "kLeafOnly" /\ o # <<>> THEN <<part(Len(o))>> ELSE [k \in 1..Len(o) |-> part(k)]

(***************************************************************************)
(* nameFromMib returns the name its comment describes, whatever part of    *)
(* the OID the loaded modules know, if the numbers fit its buffer: the     *)
(* labels of a match that is not exact end up at their own places, and     *)
(* nowhere for a leaf or a partial name (OID.cpp:440-473).                 *)
(***************************************************************************)
NamesAreAsDescribed ==
  \A x \in Objects, lookup \in Lookups :
    (\A k \in DOMAIN oid[x] : Fits(oid[x][k])) => NameFromMib(oid[x], lookup) = Described(oid[x], lookup)

(***************************************************************************)
(* An exact lookup finds the module that defines the OID itself, if it is  *)
(* loaded, and nothing otherwise; any other lookup finds the same or, for  *)
(* an OID that is not known itself, still finds a module if one of its     *)
(* ancestors is known (OID.cpp:548-581).                                   *)
(***************************************************************************)
ModulesAreExact ==
  \A x \in Objects :
    LET o == oid[x]
    IN  /\ ModulesOf(o, TRUE) = {ModuleOf[node] : node \in Tree \cap {o}}
        /\ ModulesOf(o, TRUE) \subseteq ModulesOf(o, FALSE)
        /\ ModulesOf(o, FALSE) = {} <=> \A node \in Tree : node # o /\ ~IsChildOf(o, node)

(***************************************************************************)
(* OID.cpp:390-398: without MIB files the name of .1.3.6.1 is ".1.3.6.1",  *)
(* the numbers of the OID.                                                 *)
(***************************************************************************)
WithoutMibsTheNumbersShow ==
  \A x \in Objects :
    loaded = {} /\ (\A k \in DOMAIN oid[x] : oid[x][k] < HalfOid) =>
      NameFromMib(oid[x], "kFull") = [k \in DOMAIN oid[x] |-> Number(oid[x][k])]
=============================================================================
