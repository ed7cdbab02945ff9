----------------------------- MODULE SnmpClient -----------------------------
(***************************************************************************)
(* A program that uses SNMPpp: any sequence of calls on its PDU and        *)
(* Varlist objects, of requests and of traps.                              *)
(***************************************************************************)
EXTENDS Requests, TrapSending

Init ==
  /\ heap = EmptyHeap
  /\ pdu = [w \in PduVars |-> NoPdu]
  /\ varlist = [x \in VarlistVars |-> NULL]
  /\ exc = "none"

Next == WrapperStep \/ RequestStep \/ TrapStep

Spec == Init /\ [][Next]_vars

-----------------------------------------------------------------------------
\* The type of every variable.
TypeOK ==
  /\ heap \in Heaps
  /\ pdu \in [PduVars -> [ptr : Pdus \cup {NULL}, type : PduTypes]]
  /\ varlist \in [VarlistVars -> Lists \cup {NULL}]
  /\ exc \in Exceptions

(***************************************************************************)
(* No call frees a block twice or uses one that is freed, whatever legal   *)
(* calls came before it and wherever it stopped with an exception: the     *)
(* request that net-snmp consumed (Get.cpp:28-31), the list stolen from a  *)
(* PDU (Trap.cpp:222-225), the PDU that getNext and getBulk replace        *)
(* (Get.cpp:132-141, 187-194).                                             *)
(***************************************************************************)
NoMemoryFault == heap.misused = {}

(***************************************************************************)
(* A list belongs to one PDU at most and stays allocated as long as the    *)
(* PDU points to it; otherwise snmp_free_pdu would free it a second time   *)
(* (PDU.cpp:173-177, Trap.cpp:224).                                        *)
(***************************************************************************)
ListsHaveOneOwner ==
  \A p, q \in heap.live :
    LET l == heap.variables[p]
    IN  l # NULL => Allocated(heap, l) /\ (heap.variables[q] = l => p = q)

(***************************************************************************)
(* getNext and getBulk decide by the type an object caches (Get.cpp:125,   *)
(* 185) what will be sent as the PDU's own command: the two agree for      *)
(* every object that may be used, aliases and responses included.          *)
(***************************************************************************)
CachedTypeAgrees ==
  \A w \in PduVars :
    Usable(w) => pdu[w].type = Wrap(heap, pdu[w].ptr).type

-----------------------------------------------------------------------------
\* Reachability of blocks, and the promise of BlockLifecycle

HeldPdus == {pdu[w].ptr : w \in PduVars} \cap heap.live

HeldLists ==
  AllocatedLists(heap) \cap ({varlist[x] : x \in VarlistVars} \cup {heap.variables[p] : p \in HeldPdus})

Lifecycle == INSTANCE BlockLifecycle WITH
  Blocks <- Pdus \cup Lists,
  held   <- HeldPdus \cup HeldLists,
  lost   <- (heap.live \ HeldPdus) \cup (AllocatedLists(heap) \ HeldLists),
  threw  <- exc # "none"

(***************************************************************************)
(* A call that returns normally leaks nothing; one that throws leaks at    *)
(* most what it allocated itself; and what has leaked is never touched     *)
(* again (PDU.cpp:340-346, Get.cpp:75-78, 153-163, Trap.cpp:222-227).      *)
(***************************************************************************)
ImplementsLifecycle == Lifecycle!Spec

-----------------------------------------------------------------------------
\* What becomes of the arguments: statements about every way a call can end in
\* the present state.

\* The PDU of req is freed, and the caller's object does not keep it.
Consumed(r, req) == req.ptr \notin r.heap.live /\ r.request.ptr # req.ptr

HasVariables(w) == pdu[w].ptr \in {p \in heap.live : heap.variables[p] # NULL}

(***************************************************************************)
(* The request PDU is freed by the library on every path, also when the    *)
(* session handle is NULL, the agent does not answer or the PDU that       *)
(* replaces it cannot be built (Get.cpp:19-31, 128-141, 185-201); Get.hpp  *)
(* promises it "even when an exception is thrown".  Here: for every PDU    *)
(* sync is given, and for the PDUs with variables that getNext and getBulk *)
(* are given.                                                              *)
(***************************************************************************)
RequestsAreConsumed ==
  \A w \in PduVars, hasSession \in BOOLEAN :
    /\ pdu[w].ptr \in heap.live =>
         \A r \in Sync(heap, pdu[w], hasSession) : Consumed(r, pdu[w])
    /\ HasVariables(w) =>
         \A r \in GetNext(heap, pdu[w], hasSession)
                    \cup GetBulk(heap, pdu[w], hasSession) : Consumed(r, pdu[w])

(***************************************************************************)
(* sendV2Trap frees the PDU or the list it is given, and all of it, on     *)
(* every path (Trap.cpp:178-230, Trap.hpp:99, 103).                        *)
(***************************************************************************)
TrapsAreConsumed ==
  /\ \A w \in PduVars : Usable(w) =>
       \A r \in SendTrapPdu(heap, pdu[w].ptr) :
         /\ pdu[w].ptr \notin r.heap.live
         /\ HasVariables(w) => ~Allocated(r.heap, heap.variables[pdu[w].ptr])
  /\ \A x \in VarlistVars : OwnedList(x) =>
       \A r \in SendTrapList(heap, varlist[x]) : ~Allocated(r.heap, varlist[x]) /\ r.list = NULL

-----------------------------------------------------------------------------
\* Statements of the documentation that the code does not keep

(***************************************************************************)
(* Get.hpp:56-57, of getNext( session, request ), and Get.hpp:84-85, of    *)
(* getBulk( session, pdu ): the request PDU is automatically freed, even   *)
(* when an exception is thrown.                                            *)
(***************************************************************************)
RequestsAreAlwaysFreed ==
  \A w \in PduVars : pdu[w].ptr \in heap.live =>
    \A r \in GetNext(heap, pdu[w], TRUE) \cup GetBulk(heap, pdu[w], TRUE) : Consumed(r, pdu[w])

(***************************************************************************)
(* Get.cpp:115-116, how to start a loop of getNext calls: pdu.clear(),     *)
(* then pdu.addNullVar( ".1" ).                                            *)
(***************************************************************************)
ClearedPduTakesVariables ==
  [][\A w \in PduVars, o \in Oids :
       pdu[w] = NoPdu /\ AddVars(w, <<o>>) => exc' # "logic_error"]_vars
=============================================================================
