--------------------------- MODULE NetSnmpMemory ---------------------------
(***************************************************************************)
(* The memory net-snmp hands out to SNMPpp: PDUs (netsnmp_pdu) and         *)
(* variable lists (netsnmp_variable_list).  net-snmp is not part of this   *)
(* repository, so every operation is what the code in src/ relies on when  *)
(* it calls snmp_pdu_create, snmp_free_pdu, snmp_free_varbind,             *)
(* snmp_clone_pdu or snmp_varlist_add_variable.                            *)
(*                                                                         *)
(* A heap is a value, so that a call which frees one PDU, creates another  *)
(* and fails half-way is the composition of the operations it makes.  An   *)
(* access to a block that is not allocated (a double free, a use after     *)
(* free) is undefined behaviour; heap.misused records those blocks.        *)
(***************************************************************************)
EXTENDS Integers, SequencesExt

CONSTANTS
  Pdus,        \* blocks that may hold a netsnmp_pdu
  Lists,       \* blocks that may hold a chain of netsnmp_variable_list
  NULL,        \* the null pointer
  Oids,        \* the non-empty OIDs, as numbers in the order of OID::operator<
  MaxVars      \* bound: the variables in one list

ASSUME BlocksAssumption == NULL \notin Pdus \cup Lists /\ Pdus \cap Lists = {}
ASSUME OidsAssumption == Oids \subseteq Nat \ {0} /\ MaxVars \in Nat

NoOid == 0     \* the OID an OID() object starts with: empty, below every other

PduTypes ==
  {"kInvalid", "kGet", "kGetNext", "kResponse", "kSet", "kGetBulk", "kInform", "kTrap2", "kReport"}

\* The variables of one list; the chain of a block that is not allocated is empty.
Chains == BoundedSeq(Oids, MaxVars) \ {<<>>}

Heaps ==
  [live      : SUBSET Pdus,
   command   : [Pdus -> PduTypes],
   variables : [Pdus -> Lists \cup {NULL}],
   chain     : [Lists -> Seq(Oids)],
   misused   : SUBSET (Pdus \cup Lists)]

EmptyHeap ==
  [live      |-> {},
   command   |-> [p \in Pdus |-> "kInvalid"],
   variables |-> [p \in Pdus |-> NULL],
   chain     |-> [l \in Lists |-> <<>>],
   misused   |-> {}]

AllocatedLists(h) == {l \in Lists : h.chain[l] # <<>>}

Allocated(h, l) == l \in AllocatedLists(h)

\* Some live PDU points to list l, and will free it.
Attached(h, l) == \E p \in h.live : h.variables[p] = l

-----------------------------------------------------------------------------
\* Variable lists

\* The first variable creates the list.
NewList(h, l, s) == [h EXCEPT !.chain[l] = s]

\* Further variables go to the end of an existing list.
GrowList(h, l, s) ==
  [h EXCEPT !.chain[l] = @ \o s, !.misused = @ \cup ({l} \ AllocatedLists(h))]

\* snmp_free_varbind: NULL is accepted.
FreeVarbind(h, l) ==
  IF l = NULL THEN h
  ELSE [h EXCEPT !.chain[l] = <<>>, !.misused = @ \cup ({l} \ AllocatedLists(h))]

-----------------------------------------------------------------------------
\* PDUs

CreatePdu(h, p, t) == [h EXCEPT !.live = @ \cup {p}, !.command[p] = t]

\* snmp_free_pdu frees the variable list with the PDU; NULL is accepted.
FreePdu(h, p) ==
  IF p = NULL THEN h
  ELSE [FreeVarbind(h, h.variables[p]) EXCEPT
          !.live = @ \ {p},
          !.command[p] = "kInvalid",
          !.variables[p] = NULL,
          !.misused = @ \cup ({p} \ h.live)]

\* Reading or writing a field of *p.
Deref(h, p) == [h EXCEPT !.misused = @ \cup ({p} \ h.live)]

\* p->variables = l
PointTo(h, p, l) == [Deref(h, p) EXCEPT !.variables[p] = l]

\* A PDU p of type t that owns a list l of the variables s, or no list.
CreateFilled(h, p, t, l, s) ==
  IF s = <<>> THEN CreatePdu(h, p, t)
  ELSE PointTo(NewList(CreatePdu(h, p, t), l, s), p, l)
=============================================================================
