------------------------------ MODULE Wrappers ------------------------------
(***************************************************************************)
(* SNMPpp::PDU and SNMPpp::Varlist (PDU.cpp, Varlist.cpp): pointers into   *)
(* net-snmp's memory that no destructor frees.  A client holds PduVars and *)
(* VarlistVars, objects of those two classes, and calls their operations   *)
(* in any order the documentation of the classes allows:                   *)
(*   - it uses an object whose pointer is NULL or still allocated;         *)
(*   - it overwrites or clear()s an object only when that does not lose    *)
(*     the last pointer to an allocated block;                             *)
(*   - it gives away (free, setVarlist, sendV2Trap) only a list that no    *)
(*     PDU owns.                                                           *)
(***************************************************************************)
EXTENDS NetSnmpMemory

CONSTANTS
  PduVars,      \* the client's SNMPpp::PDU objects
  VarlistVars,  \* the client's SNMPpp::Varlist objects
  ClientTypes   \* the types the client creates PDUs with

ASSUME ClientTypesAssumption == ClientTypes \subseteq PduTypes \ {"kInvalid"}

VARIABLES
  heap,      \* net-snmp's memory
  pdu,       \* pdu[w].ptr, pdu[w].type: the members of object w (PDU::pdu, PDU::type)
  varlist,   \* varlist[x]: the member of object x (Varlist::varlist)
  exc        \* how the last call ended: "none" or the class of the exception it threw

vars == <<heap, pdu, varlist, exc>>

Exceptions == {"none", "logic_error", "invalid_argument", "runtime_error"}

-----------------------------------------------------------------------------
\* The client's discipline

Usable(w) == pdu[w].ptr \in heap.live \cup {NULL}

UsableList(x) == varlist[x] = NULL \/ Allocated(heap, varlist[x])

\* Object w may be overwritten: no block is lost.
Spare(w) ==
  \/ pdu[w].ptr \notin heap.live
  \/ \E u \in PduVars \ {w} : pdu[u].ptr = pdu[w].ptr

SpareList(x) ==
  \/ ~Allocated(heap, varlist[x])
  \/ Attached(heap, varlist[x])
  \/ \E y \in VarlistVars \ {x} : varlist[y] = varlist[x]

\* The client owns the list of x: no PDU will free it.
OwnedList(x) ==
  varlist[x] # NULL => Allocated(heap, varlist[x]) /\ ~Attached(heap, varlist[x])

\* What a client passes where an OID or a std::vector<OID> is expected; an OID may be empty.
OidArgs == Oids \cup {NoOid}
VecOids == BoundedSeq(OidArgs, MaxVars)

-----------------------------------------------------------------------------
\* Allocation.  The names of blocks are not addresses: a call is given blocks that
\* were free when it started and that no object points to, so that a dangling
\* pointer stays dangling and what became of a block can be told from its name.

FreshPdus(h) == Pdus \ (h.live \cup heap.live \cup {pdu[w].ptr : w \in PduVars})

FreshLists(h) ==
  Lists \ (AllocatedLists(h) \cup AllocatedLists(heap) \cup {varlist[x] : x \in VarlistVars})

NoPdu == [ptr |-> NULL, type |-> "kInvalid"]

\* PDU( netsnmp_pdu * ): the type is read from the PDU.
Wrap(h, p) == IF p = NULL THEN NoPdu ELSE [ptr |-> p, type |-> h.command[p]]

Return(h, pv, xv, e) == heap' = h /\ pdu' = pv /\ varlist' = xv /\ exc' = e

-----------------------------------------------------------------------------
\* Varlist::addBooleanVar ... addNullVars

\* Mutant of AddLoop: the check for an empty OID is dropped.
AddLoopUnchecked(s) ==
  {[added |-> SubSeq(s, 1, k - 1), exc |-> "runtime_error"] : k \in DOMAIN s} \cup {[added |-> s, exc |-> "none"]}

\* What the loop over the OIDs of s has added when it ends, and how it ends:
\* an empty OID stops it, and net-snmp may fail to add any variable.
AddLoop(s) ==
  LET reached == {k \in DOMAIN s : \A j \in 1..(k - 1) : s[j] # NoOid}
      error(o) == IF o = NoOid THEN "invalid_argument" ELSE "runtime_error"
  IN  {[added |-> SubSeq(s, 1, k - 1), exc |-> error(s[k])] : k \in reached}
        \cup {[added |-> t, exc |-> "none"] : t \in {s} \cap Seq(Oids)}

\* Adding s to the list l, which is created by its first variable when l is NULL.
VarlistAdd(h, l, s) ==
  UNION {IF r.added = <<>> THEN {[heap |-> h, list |-> l, exc |-> r.exc]}
         ELSE IF l # NULL THEN {[heap |-> GrowList(h, l, r.added), list |-> l, exc |-> r.exc]}
         ELSE {[heap |-> NewList(h, n, r.added), list |-> n, exc |-> r.exc] : n \in FreshLists(h)} :
           r \in AddLoop(s)}

-----------------------------------------------------------------------------
\* PDU::setVarlist and PDU::addBooleanVar ... addNullVars

\* Mutants of SetVariables: the list is not compared with the old one; the old one is not freed.
SetVariablesAlways(h, p, l) == PointTo(FreeVarbind(h, h.variables[p]), p, l)
SetVariablesOnly(h, p, l) == PointTo(h, p, l)

\* setVarlist on a PDU that is not NULL
SetVariables(h, p, l) ==
  IF l = h.variables[p] THEN Deref(h, p)
  ELSE PointTo(FreeVarbind(h, h.variables[p]), p, l)

\* A PDU without a list gets a temporary Varlist, attached when all of s is in it;
\* the temporary is not freed when an exception leaves the function.
PduAdd(h, p, s) ==
  IF p = NULL THEN {[heap |-> h, exc |-> "logic_error"]}
  ELSE {[heap |-> IF a.exc = "none" THEN SetVariables(a.heap, p, a.list) ELSE a.heap,
         exc  |-> a.exc] : a \in VarlistAdd(Deref(h, p), h.variables[p], s)}

-----------------------------------------------------------------------------
\* Operations on a PDU object

\* w = PDU( t )
NewPdu(w, t) ==
  /\ Spare(w)
  /\ \/ \E p \in FreshPdus(heap) :
          LET h == CreatePdu(heap, p, t)
          IN  Return(h, [pdu EXCEPT ![w] = [ptr |-> p, type |-> t]], varlist, "none")
     \/ Return(heap, pdu, varlist, "runtime_error")

\* Mutant of Free: the object forgets the pointer but not the type.
FreeKeepsType(w) ==
  /\ Usable(w)
  /\ Return(FreePdu(heap, pdu[w].ptr), [pdu EXCEPT ![w].ptr = NULL], varlist, "none")

\* w.free()
Free(w) ==
  /\ Usable(w)
  /\ Return(FreePdu(heap, pdu[w].ptr), [pdu EXCEPT ![w] = NoPdu], varlist, "none")

\* w.clear()
Clear(w) ==
  /\ Spare(w)
  /\ Return(heap, [pdu EXCEPT ![w] = NoPdu], varlist, "none")

\* d = w: the compiler's copy assignment, both objects then share the PDU
Copy(w, d) ==
  /\ Spare(d) /\ d # w
  /\ Return(heap, [pdu EXCEPT ![d] = pdu[w]], varlist, "none")

\* d = w.clone(): snmp_clone_pdu duplicates the PDU and its list; it returns
\* NULL without memory, and for the NULL that clone() passes on unchecked
Clone(w, d) ==
  /\ Usable(w) /\ Spare(d)
  /\ \/ /\ pdu[w].ptr # NULL
        /\ LET p == pdu[w].ptr
               s == IF heap.variables[p] = NULL THEN <<>> ELSE heap.chain[heap.variables[p]]
           IN  \E q \in FreshPdus(heap), l \in FreshLists(heap) :
                 LET h == CreateFilled(Deref(heap, p), q, heap.command[p], l, s)
                 IN  Return(h, [pdu EXCEPT ![d] = Wrap(h, q)], varlist, "none")
     \/ Return(heap, [pdu EXCEPT ![d] = Wrap(heap, NULL)], varlist, "none")

\* w.setVarlist( x )
SetVarlist(w, x) ==
  /\ Usable(w) /\ UsableList(x)
  /\ \/ /\ pdu[w].ptr = NULL
        /\ Return(heap, pdu, varlist, "logic_error")
     \/ /\ pdu[w].ptr # NULL
        /\ OwnedList(x) \/ varlist[x] = heap.variables[pdu[w].ptr]
        /\ Return(SetVariables(heap, pdu[w].ptr, varlist[x]), pdu, varlist, "none")

\* w.addXVar( o, ... ) and w.addNullVars( s )
AddVars(w, s) ==
  /\ Usable(w)
  /\ pdu[w].ptr # NULL /\ heap.variables[pdu[w].ptr] # NULL =>
       Len(heap.chain[heap.variables[pdu[w].ptr]]) + Len(s) <= MaxVars
  /\ \E r \in PduAdd(heap, pdu[w].ptr, s) : Return(r.heap, pdu, varlist, r.exc)

-----------------------------------------------------------------------------
\* Operations on a Varlist object

\* x = w.varlist(): x then shares the list with the PDU
GetVarlist(w, x) ==
  /\ Usable(w) /\ SpareList(x)
  /\ LET p == pdu[w].ptr
         found == p # NULL /\ heap.variables[p] # NULL
     IN  \/ found /\ Return(heap, pdu, [varlist EXCEPT ![x] = heap.variables[p]], "none")
         \/ ~found /\ Return(heap, pdu, varlist, "logic_error")

\* x = Varlist( w ), by the conversion of a PDU to a netsnmp_variable_list pointer
AsList(w, x) ==
  /\ Usable(w) /\ SpareList(x)
  /\ \/ /\ pdu[w].ptr = NULL
        /\ Return(heap, pdu, varlist, "logic_error")
     \/ /\ pdu[w].ptr # NULL
        /\ Return(heap, pdu, [varlist EXCEPT ![x] = heap.variables[pdu[w].ptr]], "none")

\* x.addXVar( o, ... ) and x.addNullVars( s )
AddListVars(x, s) ==
  /\ UsableList(x)
  /\ varlist[x] # NULL => Len(heap.chain[varlist[x]]) + Len(s) <= MaxVars
  /\ \E a \in VarlistAdd(heap, varlist[x], s) :
       Return(a.heap, pdu, [varlist EXCEPT ![x] = a.list], a.exc)

\* x.free()
FreeList(x) ==
  /\ OwnedList(x)
  /\ Return(FreeVarbind(heap, varlist[x]), pdu, [varlist EXCEPT ![x] = NULL], "none")

\* x.clear()
ClearList(x) ==
  /\ SpareList(x)
  /\ Return(heap, pdu, [varlist EXCEPT ![x] = NULL], "none")

\* x = y
CopyList(y, x) ==
  /\ SpareList(x) /\ x # y
  /\ Return(heap, pdu, [varlist EXCEPT ![x] = varlist[y]], "none")

-----------------------------------------------------------------------------
WrapperStep ==
  \/ \E w \in PduVars :
       \/ \E t \in ClientTypes : NewPdu(w, t)
       \/ Free(w)
       \/ Clear(w)
       \/ \E d \in PduVars : Copy(w, d) \/ Clone(w, d)
       \/ \E x \in VarlistVars : SetVarlist(w, x) \/ GetVarlist(w, x) \/ AsList(w, x)
       \/ \E s \in VecOids : AddVars(w, s)
  \/ \E x \in VarlistVars :
       \/ \E s \in VecOids : AddListVars(x, s)
       \/ FreeList(x)
       \/ ClearList(x)
       \/ \E y \in VarlistVars : CopyList(y, x)
=============================================================================
