---------------------------- MODULE TrapSending ----------------------------
(***************************************************************************)
(* Building and sending SNMPv2 traps: the functions of Trap.cpp that work  *)
(* on variable lists and PDUs.  netsnmp_send_traps reads the list and      *)
(* leaves it to the caller, who frees it whatever the result is.           *)
(***************************************************************************)
EXTENDS Wrappers

CONSTANTS kSysUpTime, kTrap    \* OID::kSysUpTime and OID::kTrap

ASSUME TrapOidsAssumption == {kSysUpTime, kTrap} \subseteq Oids

\* How a call ends: the heap, the list the Varlist object then holds, the exception.
Sent(h, l, e) == [heap |-> h, list |-> l, exc |-> e]

-----------------------------------------------------------------------------
\* createV2TrapVarlist( o ): the results of snmp_varlist_add_variable are
\* ignored, so either of the two variables may be missing.
CreateTrapVarlist(h, o) ==
  IF o = NoOid THEN {Sent(h, NULL, "invalid_argument")}
  ELSE {Sent(h, NULL, "none")}
         \cup {Sent(NewList(h, l, s), l, "none") :
                 l \in FreshLists(h), s \in {<<kSysUpTime>>, <<kTrap>>, <<kSysUpTime, kTrap>>}}

\* Mutant of SendTrapList: a list that is too small is not freed.
SendTrapListKeepsSmall(h, l) ==
  IF l = NULL \/ Len(h.chain[l]) < 2 THEN {Sent(h, l, "invalid_argument")}
  ELSE {Sent(FreeVarbind(h, l), NULL, e) : e \in {"none", "runtime_error"}}

\* sendV2Trap( varlist )
SendTrapList(h, l) ==
  IF l = NULL THEN {Sent(h, NULL, "invalid_argument")}
  ELSE IF Len(h.chain[l]) < 2 THEN {Sent(FreeVarbind(h, l), NULL, "invalid_argument")}
  ELSE {Sent(FreeVarbind(h, l), NULL, e) : e \in {"none", "runtime_error"}}

\* sendV2Trap( oid )
SendTrapOid(h, o) ==
  UNION {IF c.exc # "none" THEN {c} ELSE SendTrapList(c.heap, c.list) : c \in CreateTrapVarlist(h, o)}

\* Mutant of SendTrapPdu: the PDU still points to the list when it is freed.
SendTrapPduShared(h, p) ==
  IF p = NULL THEN {Sent(h, NULL, "invalid_argument")}
  ELSE SendTrapList(FreePdu(h, p), h.variables[p])

\* sendV2Trap( pdu ): the list is stolen from the PDU, which is freed without it
SendTrapPdu(h, p) ==
  IF p = NULL THEN {Sent(h, NULL, "invalid_argument")}
  ELSE IF h.variables[p] = NULL THEN {Sent(FreePdu(h, p), NULL, "invalid_argument")}
  ELSE SendTrapList(FreePdu(PointTo(h, p, NULL), p), h.variables[p])

-----------------------------------------------------------------------------
\* The client's calls

CallCreateTrapVarlist(o, x) ==
  /\ SpareList(x)
  /\ \E r \in CreateTrapVarlist(heap, o) :
       LET assigned == IF r.exc = "none" THEN [varlist EXCEPT ![x] = r.list] ELSE varlist
       IN  Return(r.heap, pdu, assigned, r.exc)

CallSendTrapList(x) ==
  /\ OwnedList(x)
  /\ \E r \in SendTrapList(heap, varlist[x]) : Return(r.heap, pdu, [varlist EXCEPT ![x] = r.list], r.exc)

CallSendTrapPdu(w) ==
  /\ Usable(w)
  /\ \E r \in SendTrapPdu(heap, pdu[w].ptr) : Return(r.heap, [pdu EXCEPT ![w] = NoPdu], varlist, r.exc)

CallSendTrapOid(o) ==
  \E r \in SendTrapOid(heap, o) : Return(r.heap, pdu, varlist, r.exc)

TrapStep ==
  \/ \E o \in OidArgs : CallSendTrapOid(o) \/ \E x \in VarlistVars : CallCreateTrapVarlist(o, x)
  \/ \E x \in VarlistVars : CallSendTrapList(x)
  \/ \E w \in PduVars : CallSendTrapPdu(w)
=============================================================================
