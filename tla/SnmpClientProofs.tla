-------------------------- MODULE SnmpClientProofs --------------------------
(***************************************************************************)
(* TLAPS proofs about SnmpClient, for every value of the constants: that   *)
(* memory is used correctly, and that the functions free what they are     *)
(* given.  The first part is about the operations of NetSnmpMemory, the    *)
(* second one has the inductive invariant, the third one the arguments of  *)
(* requests and traps.                                                     *)
(***************************************************************************)
EXTENDS SnmpClient, TLAPS

-----------------------------------------------------------------------------
(***************************************************************************)
(* Lemmas about the operations of NetSnmpMemory: what each does to the     *)
(* fields of a heap, and that it keeps the heap consistent when it is      *)
(* given blocks that are allocated (to use or free) or free (to allocate). *)
(* Each operation has a lemma about its fields, the only one to expand its *)
(* definition; the others cite it.                                         *)
(***************************************************************************)

\* A heap that was never misused: the PDUs that are free have no list, and those that are
\* allocated have allocated lists of their own.
MemoryOK(h) ==
  /\ h \in Heaps
  /\ h.misused = {}
  /\ \A p \in Pdus \ h.live : h.variables[p] = NULL
  /\ \A p \in h.live : h.variables[p] # NULL => h.chain[h.variables[p]] # <<>>
  /\ \A p, q \in h.live : h.variables[p] = h.variables[q] /\ h.variables[p] # NULL => p = q

\* The type of each field of a heap.
LEMMA HeapFields ==
  ASSUME NEW h \in Heaps
  PROVE  /\ h.live \subseteq Pdus
         /\ h.command \in [Pdus -> PduTypes]
         /\ h.variables \in [Pdus -> Lists \cup {NULL}]
         /\ h.chain \in [Lists -> Seq(Oids)]
         /\ h.misused \in SUBSET (Pdus \cup Lists)
BY DEF Heaps

\* What CreatePdu does to each field.
LEMMA CreatePduFields ==
  ASSUME NEW h \in Heaps, NEW p \in Pdus, NEW t \in PduTypes
  PROVE  LET g == CreatePdu(h, p, t)
         IN  /\ g \in Heaps
             /\ g.live = h.live \cup {p}
             /\ g.command = [h.command EXCEPT ![p] = t]
             /\ g.variables = h.variables
             /\ g.chain = h.chain
             /\ g.misused = h.misused
BY DEF CreatePdu, Heaps

\* A PDU created in a free block has no list, so the heap stays consistent.
LEMMA CreatePduOK ==
  ASSUME NEW h, MemoryOK(h), NEW p \in Pdus \ h.live, NEW t \in PduTypes
  PROVE  MemoryOK(CreatePdu(h, p, t))
<1> DEFINE g == CreatePdu(h, p, t)
<1>1. h \in Heaps BY DEF MemoryOK
<1>2. /\ g \in Heaps
      /\ g.live = h.live \cup {p}
      /\ g.variables = h.variables
      /\ g.chain = h.chain
      /\ g.misused = h.misused
  BY <1>1, CreatePduFields
<1> HIDE DEF g
<1>3. h.variables[p] = NULL BY DEF MemoryOK
<1>4. MemoryOK(g)
  BY <1>2, <1>3 DEF MemoryOK
<1>5. QED
  BY <1>4 DEF g

\* What GrowList does to each field, for an allocated list.
LEMMA GrowListFields ==
  ASSUME NEW h \in Heaps, NEW l \in Lists, h.chain[l] # <<>>, NEW s \in Seq(Oids)
  PROVE  LET g == GrowList(h, l, s)
         IN  /\ g \in Heaps
             /\ g.live = h.live
             /\ g.command = h.command
             /\ g.variables = h.variables
             /\ g.chain = [h.chain EXCEPT ![l] = @ \o s]
             /\ g.misused = h.misused
<1> DEFINE c == [h.chain EXCEPT ![l] = @ \o s]
           m == h.misused \cup ({l} \ AllocatedLists(h))
<1>1. h.chain \in [Lists -> Seq(Oids)] BY DEF Heaps
<1>2. h.chain[l] \o s \in Seq(Oids) BY <1>1
<1>3. c \in [Lists -> Seq(Oids)] BY <1>1, <1>2
<1>4. m = h.misused BY DEF AllocatedLists
<1>5. GrowList(h, l, s) = [h EXCEPT !.chain = c, !.misused = m] BY DEF GrowList
<1> HIDE DEF c, m
<1>6. GrowList(h, l, s) \in Heaps BY <1>3, <1>4, <1>5 DEF Heaps
<1>7. LET g == GrowList(h, l, s)
      IN     /\ g.live = h.live
             /\ g.command = h.command
             /\ g.variables = h.variables
             /\ g.chain = c
             /\ g.misused = h.misused
  BY <1>3, <1>4, <1>5 DEF Heaps
<1>8. QED
  BY <1>6, <1>7 DEF c

\* Growing an allocated list keeps every list allocated.
LEMMA GrowListOK ==
  ASSUME NEW h, MemoryOK(h), NEW l \in Lists, h.chain[l] # <<>>, NEW s \in Seq(Oids)
  PROVE  LET g == GrowList(h, l, s)
         IN  MemoryOK(g) /\ g.live = h.live /\ g.command = h.command /\ g.variables = h.variables
<1> DEFINE g == GrowList(h, l, s)
<1>1. h \in Heaps /\ h.chain \in [Lists -> Seq(Oids)] BY HeapFields DEF MemoryOK
<1>2. /\ g \in Heaps
      /\ g.live = h.live
      /\ g.command = h.command
      /\ g.variables = h.variables
      /\ g.chain = [h.chain EXCEPT ![l] = @ \o s]
      /\ g.misused = h.misused
  BY <1>1, GrowListFields
<1>3. \A k \in Lists : h.chain[k] # <<>> => g.chain[k] # <<>>
  <2>1. h.chain[l] \o s # <<>> BY <1>1
  <2>2. QED
    BY <1>1, <1>2, <2>1
<1> HIDE DEF g
<1>4. MemoryOK(g) BY <1>1, <1>2, <1>3, HeapFields DEF MemoryOK
<1>5. QED
  BY <1>2, <1>4 DEF g

\* What NewList does to each field.
LEMMA NewListFields ==
  ASSUME NEW h \in Heaps, NEW l \in Lists, NEW s \in Seq(Oids)
  PROVE  LET g == NewList(h, l, s)
         IN  /\ g \in Heaps
             /\ g.live = h.live
             /\ g.command = h.command
             /\ g.variables = h.variables
             /\ g.chain = [h.chain EXCEPT ![l] = s]
             /\ g.misused = h.misused
BY DEF NewList, Heaps

\* A list created in a free block is no PDU's list.
LEMMA NewListOK ==
  ASSUME NEW h, MemoryOK(h), NEW l \in Lists, h.chain[l] = <<>>, NEW s \in Seq(Oids), s # <<>>
  PROVE  LET g == NewList(h, l, s)
         IN  /\ MemoryOK(g) /\ g.live = h.live /\ g.command = h.command /\ g.variables = h.variables
             /\ g.chain[l] # <<>>
             /\ \A p \in g.live : g.variables[p] # l
<1> DEFINE g == NewList(h, l, s)
<1>1. h \in Heaps /\ h.chain \in [Lists -> Seq(Oids)] BY HeapFields DEF MemoryOK
<1>2. /\ g \in Heaps
      /\ g.live = h.live
      /\ g.command = h.command
      /\ g.variables = h.variables
      /\ g.chain = [h.chain EXCEPT ![l] = s]
      /\ g.misused = h.misused
  BY <1>1, NewListFields
<1>3. \A k \in Lists : h.chain[k] # <<>> => g.chain[k] # <<>>
  BY <1>1, <1>2
<1> HIDE DEF g
<1>4. MemoryOK(g) BY <1>1, <1>2, <1>3, HeapFields DEF MemoryOK
<1>5. \A p \in g.live : g.variables[p] # l BY <1>1, <1>2, BlocksAssumption DEF MemoryOK
<1>6. g.chain[l] # <<>> BY <1>1, <1>2
<1>7. QED
  BY <1>2, <1>4, <1>5, <1>6 DEF g

\* What FreeVarbind does to each field, for an allocated list.
LEMMA FreeVarbindFields ==
  ASSUME NEW h \in Heaps, NEW l \in Lists, h.chain[l] # <<>>
  PROVE  LET g == FreeVarbind(h, l)
         IN  /\ g \in Heaps
             /\ g.live = h.live
             /\ g.command = h.command
             /\ g.variables = h.variables
             /\ g.chain = [h.chain EXCEPT ![l] = <<>>]
             /\ g.misused = h.misused
<1> DEFINE c == [h.chain EXCEPT ![l] = <<>>]
           m == h.misused \cup ({l} \ AllocatedLists(h))
<1>1. h.chain \in [Lists -> Seq(Oids)] BY DEF Heaps
<1>2. <<>> \in Seq(Oids) OBVIOUS
<1>3. c \in [Lists -> Seq(Oids)] BY <1>1, <1>2
<1>4. m = h.misused BY DEF AllocatedLists
<1>5. FreeVarbind(h, l) = [h EXCEPT !.chain = c, !.misused = m] BY BlocksAssumption DEF FreeVarbind
<1> HIDE DEF c, m
<1>6. FreeVarbind(h, l) \in Heaps BY <1>3, <1>4, <1>5 DEF Heaps
<1>7. LET g == FreeVarbind(h, l)
      IN     /\ g.live = h.live
             /\ g.command = h.command
             /\ g.variables = h.variables
             /\ g.chain = c
             /\ g.misused = h.misused
  BY <1>3, <1>4, <1>5 DEF Heaps
<1>8. QED
  BY <1>6, <1>7 DEF c

\* Using a PDU that is allocated is no misuse.
LEMMA DerefLive ==
  ASSUME NEW h \in Heaps, NEW p \in h.live
  PROVE  Deref(h, p) = h
<1>1. h.misused \cup ({p} \ h.live) = h.misused OBVIOUS
<1>2. QED
  BY <1>1 DEF Deref, Heaps

\* What PointTo does to each field, for an allocated PDU.
LEMMA PointToFields ==
  ASSUME NEW h \in Heaps, NEW p \in h.live, NEW l \in Lists \cup {NULL}
  PROVE  LET g == PointTo(h, p, l)
         IN  /\ g \in Heaps
             /\ g.live = h.live
             /\ g.command = h.command
             /\ g.variables = [h.variables EXCEPT ![p] = l]
             /\ g.chain = h.chain
             /\ g.misused = h.misused
<1>1. PointTo(h, p, l) = [h EXCEPT !.variables[p] = l] BY DerefLive DEF PointTo
<1>2. QED
  BY <1>1 DEF Heaps

\* l is no live PDU's list, and may be freed or attached.
Loose(h, l) ==
  \/ l = NULL
  \/ /\ l \in Lists
     /\ h.chain[l] # <<>>
     /\ \A p \in h.live : h.variables[p] # l

\* A loose list may be freed.
LEMMA FreeVarbindOK ==
  ASSUME NEW h, MemoryOK(h), NEW l, Loose(h, l)
  PROVE  LET g == FreeVarbind(h, l)
         IN  MemoryOK(g) /\ g.live = h.live /\ g.command = h.command /\ g.variables = h.variables
<1> DEFINE g == FreeVarbind(h, l)
<1>1. CASE l = NULL BY <1>1 DEF FreeVarbind
<1>2. CASE l # NULL
  <2>1. h \in Heaps /\ h.chain \in [Lists -> Seq(Oids)] /\ l \in Lists
    BY <1>2, HeapFields DEF MemoryOK, Loose
  <2>2. /\ g \in Heaps
        /\ g.live = h.live
        /\ g.command = h.command
        /\ g.variables = h.variables
        /\ g.chain = [h.chain EXCEPT ![l] = <<>>]
        /\ g.misused = h.misused
    BY <1>2, <2>1, FreeVarbindFields DEF Loose
  <2> HIDE DEF g
  <2>3. MemoryOK(g) BY <1>2, <2>1, <2>2, HeapFields DEF MemoryOK, Loose
  <2>4. QED
    BY <2>2, <2>3 DEF g
<1>3. QED
  BY <1>1, <1>2

\* What FreePdu does to each field, for an allocated PDU.
LEMMA FreePduFields ==
  ASSUME NEW h, MemoryOK(h), NEW p \in h.live
  PROVE  LET g == FreePdu(h, p)
         IN  /\ g \in Heaps
             /\ g.live = h.live \ {p}
             /\ g.command = [h.command EXCEPT ![p] = "kInvalid"]
             /\ g.variables = [h.variables EXCEPT ![p] = NULL]
             /\ \A l \in Lists : g.chain[l] = IF l = h.variables[p] THEN <<>> ELSE h.chain[l]
             /\ g.misused = {}
<1> DEFINE f == FreeVarbind(h, h.variables[p])
           v == [h.variables EXCEPT ![p] = NULL]
           c == [h.command EXCEPT ![p] = "kInvalid"]
           live == h.live \ {p}
<1>1. h \in Heaps /\ p # NULL /\ p \in Pdus
  BY BlocksAssumption, HeapFields DEF MemoryOK
<1>2. /\ f \in Heaps
      /\ f.live = h.live
      /\ f.command = h.command
      /\ f.variables = h.variables
      /\ \A l \in Lists : f.chain[l] = IF l = h.variables[p] THEN <<>> ELSE h.chain[l]
      /\ f.misused = {}
  <2>1. CASE h.variables[p] = NULL
    BY <1>1, <2>1, BlocksAssumption DEF FreeVarbind, MemoryOK
  <2>2. CASE h.variables[p] # NULL
    <3>1. h.variables[p] \in Lists /\ h.chain[h.variables[p]] # <<>>
      BY <1>1, <2>2, HeapFields DEF MemoryOK
    <3>2. h.chain \in [Lists -> Seq(Oids)] BY <1>1, HeapFields
    <3>3. QED
      BY <1>1, <3>1, <3>2, FreeVarbindFields DEF MemoryOK
  <2>3. QED
    BY <2>1, <2>2
<1>3. FreePdu(h, p) =
        [f EXCEPT !.live = @ \ {p}, !.command[p] = "kInvalid", !.variables[p] = NULL,
                  !.misused = @ \cup ({p} \ h.live)]
  BY <1>1 DEF FreePdu
<1>4. f.live \ {p} = live /\ [f.command EXCEPT ![p] = "kInvalid"] = c
      /\ [f.variables EXCEPT ![p] = NULL] = v /\ f.misused \cup ({p} \ h.live) = {}
  BY <1>2
<1>5. v \in [Pdus -> Lists \cup {NULL}] /\ c \in [Pdus -> PduTypes] /\ live \subseteq Pdus
  BY <1>1, HeapFields DEF PduTypes
<1> HIDE DEF f, v, c, live
<1>6. FreePdu(h, p) = [f EXCEPT !.live = live, !.command = c, !.variables = v, !.misused = {}]
  BY <1>3, <1>4
<1>7. LET g == FreePdu(h, p)
      IN  g \in Heaps /\ g.live = live /\ g.command = c /\ g.variables = v
          /\ g.chain = f.chain /\ g.misused = {}
  BY <1>2, <1>5, <1>6 DEF Heaps
<1>8. QED
  BY <1>2, <1>7 DEF live, c, v

\* Freeing an allocated PDU frees its own list and no other.
LEMMA FreePduOK ==
  ASSUME NEW h, MemoryOK(h), NEW p \in h.live
  PROVE  LET g == FreePdu(h, p)
         IN  /\ MemoryOK(g)
             /\ g.live = h.live \ {p}
             /\ \A q \in g.live : g.command[q] = h.command[q]
             /\ \A q \in g.live : g.variables[q] = h.variables[q]
             /\ \A l \in Lists : h.chain[l] # <<>> /\ l # h.variables[p] => g.chain[l] = h.chain[l]
<1> DEFINE g == FreePdu(h, p)
<1>1. /\ g \in Heaps
      /\ g.live = h.live \ {p}
      /\ g.command = [h.command EXCEPT ![p] = "kInvalid"]
      /\ g.variables = [h.variables EXCEPT ![p] = NULL]
      /\ \A l \in Lists : g.chain[l] = IF l = h.variables[p] THEN <<>> ELSE h.chain[l]
      /\ g.misused = {}
  BY FreePduFields
<1>2. h \in Heaps /\ h.live \subseteq Pdus /\ h.variables \in [Pdus -> Lists \cup {NULL}]
      /\ h.command \in [Pdus -> PduTypes]
  BY HeapFields DEF MemoryOK
<1> HIDE DEF g
<1>3. \A q \in g.live : g.command[q] = h.command[q] /\ g.variables[q] = h.variables[q]
  BY <1>1, <1>2
<1>4. \A q \in Pdus \ g.live : g.variables[q] = NULL
  BY <1>1, <1>2 DEF MemoryOK
<1>5. \A q \in g.live : g.variables[q] # NULL => g.chain[g.variables[q]] # <<>>
  BY <1>1, <1>2, <1>3 DEF MemoryOK
<1>6. \A q, r \in g.live : g.variables[q] = g.variables[r] /\ g.variables[q] # NULL => q = r
  BY <1>1, <1>2, <1>3 DEF MemoryOK
<1>7. MemoryOK(g) BY <1>1, <1>4, <1>5, <1>6 DEF MemoryOK
<1>8. QED
  BY <1>1, <1>3, <1>7 DEF g

\* A bounded sequence is a sequence.
LEMMA BoundedSeqType ==
  ASSUME NEW S, NEW n, NEW s \in BoundedSeq(S, n)
  PROVE  s \in Seq(S)
BY DEF BoundedSeq, SeqOf

\* The two heaps have the same PDUs, with the same lists.
SamePdus(h, g) == g.live = h.live /\ g.command = h.command /\ g.variables = h.variables

\* The two heaps have the same PDUs, of the same types.
SameTypes(h, g) == g.live = h.live /\ g.command = h.command

\* An allocated PDU may be pointed to a loose list.
LEMMA PointToLoose ==
  ASSUME NEW h, MemoryOK(h), NEW p \in h.live, NEW l, Loose(h, l)
  PROVE  LET g == PointTo(h, p, l)
         IN  /\ MemoryOK(g)
             /\ SameTypes(h, g)
             /\ g.chain = h.chain
             /\ g.variables = [h.variables EXCEPT ![p] = l]
<1> DEFINE g == PointTo(h, p, l)
<1>1. h \in Heaps /\ h.live \subseteq Pdus /\ h.variables \in [Pdus -> Lists \cup {NULL}]
  BY HeapFields DEF MemoryOK
<1>2. /\ g \in Heaps
      /\ g.live = h.live
      /\ g.command = h.command
      /\ g.variables = [h.variables EXCEPT ![p] = l]
      /\ g.chain = h.chain
      /\ g.misused = h.misused
  BY <1>1, PointToFields DEF Loose
<1> HIDE DEF g
<1>3. \A q \in Pdus \ g.live : g.variables[q] = NULL
  BY <1>1, <1>2 DEF MemoryOK
<1>4. \A q \in g.live : g.variables[q] # NULL => g.chain[g.variables[q]] # <<>>
  BY <1>1, <1>2 DEF MemoryOK, Loose
<1>5. \A q, r \in g.live : g.variables[q] = g.variables[r] /\ g.variables[q] # NULL => q = r
  BY <1>1, <1>2 DEF MemoryOK, Loose
<1>6. MemoryOK(g) BY <1>2, <1>3, <1>4, <1>5 DEF MemoryOK
<1>7. QED
  BY <1>2, <1>6 DEF g, SameTypes

-----------------------------------------------------------------------------
(***************************************************************************)
(* TLAPS proofs about SnmpClient, for every value of the constants. The    *)
(* inductive invariant IInv says that the heap is consistent (MemoryOK)    *)
(* and that every object which points to an allocated PDU caches that      *)
(* PDU's type. Consistency is what NoMemoryFault needs: freeing a PDU      *)
(* frees its list, so a list must not belong to two PDUs, nor be freed     *)
(* while a PDU points to it. Safe is the part of IInv that also holds      *)
(* between the calls to net-snmp inside one function, when the heap has    *)
(* changed and the objects have not: every function of the library takes a *)
(* safe heap to a safe heap, on each of its paths.                         *)
(***************************************************************************)

\* PDU objects
Objects == [ptr : Pdus \cup {NULL}, type : PduTypes]

\* Object o caches the type of the PDU it points to, unless that PDU was freed.
Agrees(h, o) ==
  /\ o \in Objects
  /\ o.ptr \in h.live => h.command[o.ptr] = o.type
  /\ o.ptr = NULL => o.type = "kInvalid"

\* A heap at some point of a call, while pdu still has its value before the call.
Safe(h) == MemoryOK(h) /\ \A w \in PduVars : Agrees(h, pdu[w])

\* An object that agrees with a heap agrees with one that has the same PDUs.
LEMMA SameAgrees ==
  ASSUME NEW h, NEW g, SameTypes(h, g), NEW o, Agrees(h, o)
  PROVE  Agrees(g, o)
BY DEF Agrees, SameTypes

\* Changing lists only leaves the objects as they are.
LEMMA SameSafe ==
  ASSUME NEW h, NEW g, SameTypes(h, g), Safe(h), MemoryOK(g)
  PROVE  Safe(g)
BY DEF Agrees, Safe, SameTypes

\* Freeing an allocated PDU, or NULL, makes no object disagree.
LEMMA FreePduSafe ==
  ASSUME NEW h, Safe(h), NEW p \in h.live \cup {NULL}
  PROVE  LET g == FreePdu(h, p)
         IN  /\ Safe(g)
             /\ g.live = h.live \ {p}
             /\ \A o : Agrees(h, o) => Agrees(g, o)
<1> DEFINE g == FreePdu(h, p)
<1>1. CASE p = NULL
  <2>1. g = h BY <1>1 DEF FreePdu
  <2>2. p \notin h.live BY <1>1, HeapFields, BlocksAssumption DEF Safe, MemoryOK
  <2>3. QED
    BY <2>1, <2>2
<1>2. CASE p \in h.live
  <2>1. /\ MemoryOK(g)
        /\ g.live = h.live \ {p}
        /\ \A q \in g.live : g.command[q] = h.command[q]
    BY <1>2, FreePduOK DEF Safe
  <2> HIDE DEF g
  <2>2. \A o : Agrees(h, o) => Agrees(g, o) BY <2>1 DEF Agrees
  <2>3. Safe(g) BY <2>1, <2>2 DEF Safe
  <2>4. QED
    BY <2>1, <2>2, <2>3 DEF g
<1>3. QED
  BY <1>1, <1>2

\* A fresh PDU is free, and no object points to it.
LEMMA FreshPduFacts ==
  ASSUME NEW h, NEW p \in FreshPdus(h)
  PROVE  p \in Pdus \ h.live /\ p # NULL /\ \A w \in PduVars : pdu[w].ptr # p
BY BlocksAssumption DEF FreshPdus

\* A fresh list is free.
LEMMA FreshListFacts ==
  ASSUME NEW h, NEW l \in FreshLists(h)
  PROVE  l \in Lists /\ h.chain[l] = <<>>
BY DEF FreshLists, AllocatedLists

\* A PDU created in a fresh block agrees with an object of its type.
LEMMA CreatePduSafe ==
  ASSUME NEW h, Safe(h), NEW p \in FreshPdus(h), NEW t \in PduTypes
  PROVE  LET g == CreatePdu(h, p, t)
         IN  /\ Safe(g)
             /\ g.live = h.live \cup {p}
             /\ g.command[p] = t
             /\ g.variables[p] = NULL
             /\ g.chain = h.chain
             /\ \A o \in Objects : o.ptr = p /\ o.type = t => Agrees(g, o)
<1> DEFINE g == CreatePdu(h, p, t)
<1>1. h \in Heaps /\ MemoryOK(h) /\ h.command \in [Pdus -> PduTypes] BY HeapFields DEF Safe, MemoryOK
<1>2. p \in Pdus \ h.live /\ p # NULL /\ \A w \in PduVars : pdu[w].ptr # p BY FreshPduFacts
<1>3. /\ g.live = h.live \cup {p}
      /\ g.command = [h.command EXCEPT ![p] = t]
      /\ g.variables = h.variables
      /\ g.chain = h.chain
  BY <1>1, <1>2, CreatePduFields
<1>4. MemoryOK(g) BY <1>1, <1>2, CreatePduOK
<1> HIDE DEF g
<1>5. g.command[p] = t /\ g.variables[p] = NULL BY <1>1, <1>2, <1>3 DEF MemoryOK
<1>6. \A w \in PduVars : Agrees(g, pdu[w]) BY <1>1, <1>2, <1>3 DEF Safe, Agrees
<1>7. \A o \in Objects : o.ptr = p /\ o.type = t => Agrees(g, o) BY <1>2, <1>5 DEF Agrees, Objects
<1>8. Safe(g) BY <1>4, <1>6 DEF Safe
<1>9. QED
  BY <1>3, <1>5, <1>7, <1>8 DEF g

\* The same for a PDU with its list: a response, or a clone.
LEMMA CreateFilledSafe ==
  ASSUME NEW h, Safe(h), NEW p \in FreshPdus(h), NEW l \in FreshLists(h),
         NEW t \in PduTypes, NEW s \in Seq(Oids)
  PROVE  LET g == CreateFilled(h, p, t, l, s)
         IN  /\ Safe(g)
             /\ g.live = h.live \cup {p}
             /\ g.command[p] = t
<1> DEFINE c == CreatePdu(h, p, t)
           n == NewList(c, l, s)
           g == PointTo(n, p, l)
<1>1. Safe(c) /\ c.live = h.live \cup {p} /\ c.command[p] = t /\ c.chain = h.chain BY CreatePduSafe
<1>2. CASE s = <<>> BY <1>1, <1>2 DEF CreateFilled
<1>3. CASE s # <<>>
  <2>1. l \in Lists /\ h.chain[l] = <<>> BY FreshListFacts
  <2> HIDE DEF c
  <2>2. /\ MemoryOK(n) /\ n.live = c.live /\ n.command = c.command
        /\ n.chain[l] # <<>>
        /\ \A q \in n.live : n.variables[q] # l
    BY <1>1, <1>3, <2>1, NewListOK DEF Safe
  <2> HIDE DEF n
  <2>3. Loose(n, l) /\ p \in n.live
    BY <1>1, <2>1, <2>2 DEF Loose
  <2>4. MemoryOK(g) /\ SameTypes(n, g)
    BY <2>2, <2>3, PointToLoose
  <2> HIDE DEF g
  <2>5. Safe(g)
    <3>1. Safe(c) /\ MemoryOK(g) /\ SameTypes(c, g)
      BY <1>1, <2>2, <2>4 DEF SameTypes
    <3>2. QED
      BY <3>1, SameSafe
  <2>6. CreateFilled(h, p, t, l, s) = g BY <1>3 DEF CreateFilled, g, n, c
  <2>7. QED
    BY <1>1, <2>2, <2>4, <2>5, <2>6 DEF SameTypes
<1>4. QED
  BY <1>2, <1>3

\* setVarlist (PDU.cpp:156-178) keeps the heap consistent when it is given the PDU's
\* own list or a loose one.
LEMMA SetVariablesOK ==
  ASSUME NEW h, MemoryOK(h), NEW p \in h.live, NEW l, l = h.variables[p] \/ Loose(h, l)
  PROVE  LET g == SetVariables(h, p, l)
         IN  MemoryOK(g) /\ g.live = h.live /\ g.command = h.command
<1>1. h \in Heaps /\ h.live \subseteq Pdus /\ h.variables \in [Pdus -> Lists \cup {NULL}]
      /\ h.chain \in [Lists -> Seq(Oids)]
  BY HeapFields DEF MemoryOK
<1>2. CASE l = h.variables[p]
  BY <1>1, <1>2, DerefLive DEF SetVariables
<1>3. CASE l # h.variables[p]
  <2> DEFINE f == FreeVarbind(h, h.variables[p])
             g == PointTo(f, p, l)
  <2>1. /\ f \in Heaps
        /\ f.live = h.live
        /\ f.command = h.command
        /\ f.variables = h.variables
        /\ \A k \in Lists : f.chain[k] = IF k = h.variables[p] THEN <<>> ELSE h.chain[k]
        /\ f.misused = {}
    <3>1. CASE h.variables[p] = NULL
      BY <1>1, <3>1, BlocksAssumption DEF FreeVarbind, MemoryOK
    <3>2. CASE h.variables[p] # NULL
      <4>1. h.variables[p] \in Lists /\ h.chain[h.variables[p]] # <<>>
        BY <1>1, <3>2 DEF MemoryOK
      <4>2. QED
        BY <1>1, <4>1, FreeVarbindFields DEF MemoryOK
    <3>3. QED
      BY <3>1, <3>2
  <2>2. l \in Lists \cup {NULL} /\ Loose(h, l) BY <1>3 DEF Loose
  <2> HIDE DEF f
  <2>3. /\ g \in Heaps
        /\ g.live = h.live
        /\ g.command = h.command
        /\ g.variables = [h.variables EXCEPT ![p] = l]
        /\ g.chain = f.chain
        /\ g.misused = {}
    BY <2>1, <2>2, PointToFields
  <2> HIDE DEF g
  <2>4. \A q \in Pdus \ g.live : g.variables[q] = NULL
    BY <1>1, <2>3 DEF MemoryOK
  <2>5. \A q \in g.live : g.variables[q] # NULL => g.chain[g.variables[q]] # <<>>
    BY <1>1, <1>3, <2>1, <2>2, <2>3 DEF MemoryOK, Loose
  <2>6. \A q, r \in g.live : g.variables[q] = g.variables[r] /\ g.variables[q] # NULL => q = r
    BY <1>1, <2>2, <2>3 DEF MemoryOK, Loose
  <2>7. MemoryOK(g) BY <2>3, <2>4, <2>5, <2>6 DEF MemoryOK
  <2>8. SetVariables(h, p, l) = g BY <1>3 DEF SetVariables, f, g
  <2>9. QED
    BY <2>3, <2>7, <2>8
<1>4. QED
  BY <1>2, <1>3

\* What the loop of addNullVars has added is a list of OIDs that are not empty.
LEMMA AddLoopType ==
  ASSUME NEW s \in Seq(OidArgs), NEW r \in AddLoop(s)
  PROVE  r.added \in Seq(Oids) /\ r.exc \in Exceptions
<1> DEFINE reached == {k \in DOMAIN s : \A j \in 1..(k - 1) : s[j] # NoOid}
           error(o) == IF o = NoOid THEN "invalid_argument" ELSE "runtime_error"
<1>1. CASE r \in {[added |-> t, exc |-> "none"] : t \in {s} \cap Seq(Oids)}
  BY <1>1 DEF Exceptions
<1>2. CASE r \in {[added |-> SubSeq(s, 1, k - 1), exc |-> error(s[k])] : k \in reached}
  <2>1. PICK k \in reached : r = [added |-> SubSeq(s, 1, k - 1), exc |-> error(s[k])]
    BY <1>2
  <2>2. k \in 1..Len(s) /\ \A j \in 1..(k - 1) : s[j] \in Oids
    BY DEF OidArgs
  <2>3. SubSeq(s, 1, k - 1) \in Seq(Oids)
    BY <2>2
  <2>4. QED
    BY <2>1, <2>3 DEF Exceptions
<1>3. QED
  BY <1>1, <1>2 DEF AddLoop

\* Varlist::addXVar leaves the Varlist with its old list or with a loose one.
LEMMA VarlistAddOK ==
  ASSUME NEW h, MemoryOK(h), NEW l, l = NULL \/ (l \in Lists /\ h.chain[l] # <<>>),
         NEW s \in Seq(OidArgs), NEW a \in VarlistAdd(h, l, s)
  PROVE  /\ MemoryOK(a.heap)
         /\ SamePdus(h, a.heap)
         /\ a.list = l \/ Loose(a.heap, a.list)
         /\ a.list \in Lists \cup {NULL}
         /\ a.exc \in Exceptions
<1>1. PICK r \in AddLoop(s) :
        a \in IF r.added = <<>> THEN {[heap |-> h, list |-> l, exc |-> r.exc]}
              ELSE IF l # NULL THEN {[heap |-> GrowList(h, l, r.added), list |-> l, exc |-> r.exc]}
              ELSE {[heap |-> NewList(h, n, r.added), list |-> n, exc |-> r.exc] : n \in FreshLists(h)}
  BY DEF VarlistAdd
<1>2. r.added \in Seq(Oids) /\ r.exc \in Exceptions
  BY AddLoopType
<1>3. CASE r.added = <<>>
  <2>1. a = [heap |-> h, list |-> l, exc |-> r.exc]
    BY <1>1, <1>3
  <2>2. QED
    BY <1>2, <2>1 DEF SamePdus
<1>4. CASE r.added # <<>> /\ l # NULL
  <2> DEFINE g == GrowList(h, l, r.added)
  <2>1. a = [heap |-> g, list |-> l, exc |-> r.exc]
    BY <1>1, <1>4
  <2>2. MemoryOK(g) /\ g.live = h.live /\ g.command = h.command /\ g.variables = h.variables
    BY <1>2, <1>4, GrowListOK
  <2> HIDE DEF g
  <2>3. QED
    BY <1>2, <1>4, <2>1, <2>2 DEF SamePdus
<1>5. CASE r.added # <<>> /\ l = NULL
  <2>1. PICK n \in FreshLists(h) : a = [heap |-> NewList(h, n, r.added), list |-> n, exc |-> r.exc]
    BY <1>1, <1>5
  <2> DEFINE g == NewList(h, n, r.added)
  <2>2. n \in Lists /\ h.chain[n] = <<>>
    BY FreshListFacts
  <2>3. /\ MemoryOK(g) /\ g.live = h.live /\ g.command = h.command /\ g.variables = h.variables
        /\ g.chain[n] # <<>>
        /\ \A p \in g.live : g.variables[p] # n
    BY <1>2, <1>5, <2>2, NewListOK
  <2>4. a = [heap |-> g, list |-> n, exc |-> r.exc]
    BY <2>1
  <2> HIDE DEF g
  <2>5. Loose(g, n)
    BY <2>2, <2>3 DEF Loose
  <2>6. QED
    BY <1>2, <2>2, <2>3, <2>4, <2>5 DEF SamePdus
<1>6. QED
  BY <1>3, <1>4, <1>5

\* PDU::addXVar keeps the heap consistent, also when it stops half-way.
LEMMA PduAddOK ==
  ASSUME NEW h, MemoryOK(h), NEW p \in h.live,
         NEW s \in Seq(OidArgs), NEW r \in PduAdd(h, p, s)
  PROVE  /\ MemoryOK(r.heap)
         /\ SameTypes(h, r.heap)
         /\ r.exc \in Exceptions
<1>1. h \in Heaps /\ p # NULL /\ h.variables \in [Pdus -> Lists \cup {NULL}] /\ p \in Pdus
  BY HeapFields, BlocksAssumption DEF MemoryOK
<1>2. Deref(h, p) = h
  BY <1>1, DerefLive
<1>3. PICK a \in VarlistAdd(h, h.variables[p], s) :
        r = [heap |-> IF a.exc = "none" THEN SetVariables(a.heap, p, a.list) ELSE a.heap,
             exc  |-> a.exc]
  BY <1>1, <1>2 DEF PduAdd
<1> DEFINE k == h.variables[p]
<1>4. k = NULL \/ (k \in Lists /\ h.chain[k] # <<>>)
  BY <1>1 DEF MemoryOK
<1>5. a \in VarlistAdd(h, k, s)
  OBVIOUS
<1> HIDE DEF k
<1>6. /\ MemoryOK(a.heap)
      /\ SamePdus(h, a.heap)
      /\ a.list = k \/ Loose(a.heap, a.list)
      /\ a.exc \in Exceptions
  BY <1>4, <1>5, VarlistAddOK
<1>7. CASE a.exc # "none"
  BY <1>3, <1>6, <1>7 DEF SamePdus, SameTypes
<1>8. CASE a.exc = "none"
  <2> DEFINE g == SetVariables(a.heap, p, a.list)
  <2>1. MemoryOK(g) /\ g.live = a.heap.live /\ g.command = a.heap.command
    BY <1>6, SetVariablesOK DEF k, SamePdus
  <2>2. r = [heap |-> g, exc |-> a.exc]
    BY <1>3, <1>8
  <2> HIDE DEF g
  <2>3. QED
    BY <1>6, <2>1, <2>2 DEF SamePdus, SameTypes
<1>9. QED
  BY <1>7, <1>8

\* A way a request may end.
Outcome(r) ==
  /\ Safe(r.heap)
  /\ Agrees(r.heap, r.request)
  /\ r.response \in r.heap.live \cup {NULL}
  /\ r.exc \in Exceptions

\* An object that was cleared agrees with every heap.
LEMMA NoPduAgrees ==
  ASSUME NEW h, Safe(h)
  PROVE  Agrees(h, NoPdu)
<1>1. NULL \notin h.live
  BY HeapFields, BlocksAssumption DEF Safe, MemoryOK
<1>2. QED
  BY <1>1 DEF Agrees, NoPdu, Objects, PduTypes

\* How a call that ends in a safe heap is an outcome.
LEMMA EndedOutcome ==
  ASSUME NEW h, Safe(h), NEW req, Agrees(h, req), NEW resp \in h.live \cup {NULL}, NEW e \in Exceptions
  PROVE  Outcome(Ended(h, req, resp, e))
BY DEF Outcome, Ended

\* The response net-snmp creates is allocated, and agrees.
LEMMA AnswersOK ==
  ASSUME NEW h, Safe(h), NEW p \in h.live \cup {NULL}, NEW a \in Answers(h, p)
  PROVE  Safe(a.heap) /\ a.response \in a.heap.live
<1> DEFINE g == FreePdu(h, p)
<1>1. PICK q \in FreshPdus(g), l \in FreshLists(g), s \in Chains \cup {<<>>} :
        a = [heap |-> CreateFilled(g, q, "kResponse", l, s), response |-> q]
  BY DEF Answers
<1>2. Safe(g)
  BY FreePduSafe
<1>3. s \in Seq(Oids)
  <2>1. \A c \in BoundedSeq(Oids, MaxVars) : c \in Seq(Oids)
    BY BoundedSeqType
  <2>2. s \in BoundedSeq(Oids, MaxVars) \/ s = <<>>
    BY DEF Chains
  <2>3. <<>> \in Seq(Oids)
    OBVIOUS
  <2>4. QED
    BY <2>1, <2>2, <2>3
<1> DEFINE f == CreateFilled(g, q, "kResponse", l, s)
<1>4. "kResponse" \in PduTypes
  BY DEF PduTypes
<1> HIDE DEF g
<1>5. Safe(f) /\ q \in f.live
  BY <1>2, <1>3, <1>4, CreateFilledSafe
<1>6. a.heap = f /\ a.response = q
  BY <1>1
<1>7. QED
  BY <1>5, <1>6

\* sync (Get.cpp:11-58, Set.cpp:11-14) ends safely whatever the answer is.
LEMMA SyncOK ==
  ASSUME NEW h, Safe(h), NEW req, Agrees(h, req), req.ptr \in h.live \cup {NULL},
         NEW hasSession, NEW r \in Sync(h, req, hasSession)
  PROVE  Outcome(r)
<1> DEFINE p == req.ptr
           answers == Answers(h, p)
<1>1. {"none", "invalid_argument", "runtime_error"} \subseteq Exceptions
  BY DEF Exceptions
<1>2. Safe(FreePdu(h, p))
  BY FreePduSafe
<1>3. CASE r = Ended(h, req, NULL, "invalid_argument")
  BY <1>1, <1>3, EndedOutcome
<1>4. CASE \E e \in {"invalid_argument", "runtime_error"} : r = Ended(FreePdu(h, p), NoPdu, NULL, e)
  BY <1>1, <1>2, <1>4, NoPduAgrees, EndedOutcome
<1>5. CASE \E a \in answers : r = Ended(FreePdu(a.heap, a.response), NoPdu, NULL, "runtime_error")
  <2>1. PICK a \in answers : r = Ended(FreePdu(a.heap, a.response), NoPdu, NULL, "runtime_error")
    BY <1>5
  <2>2. Safe(a.heap) /\ a.response \in a.heap.live
    BY AnswersOK
  <2>3. Safe(FreePdu(a.heap, a.response))
    BY <2>2, FreePduSafe
  <2>4. QED
    BY <1>1, <2>1, <2>3, NoPduAgrees, EndedOutcome
<1>6. CASE \E a \in answers : r = Ended(a.heap, NoPdu, a.response, "none")
  <2>1. PICK a \in answers : r = Ended(a.heap, NoPdu, a.response, "none")
    BY <1>6
  <2>2. Safe(a.heap) /\ a.response \in a.heap.live
    BY AnswersOK
  <2>3. QED
    BY <1>1, <2>1, <2>2, NoPduAgrees, EndedOutcome
<1>7. QED
  BY <1>3, <1>4, <1>5, <1>6 DEF Sync, NoAnswer

\* Adding OIDs one by one to a PDU without a list keeps the heap consistent, also when
\* it stops half-way.
LEMMA AddEachOK ==
  ASSUME NEW h, MemoryOK(h), NEW p \in h.live,
         NEW s \in Seq(OidArgs), NEW a \in AddEach(h, p, s)
  PROVE  /\ MemoryOK(a.heap)
         /\ SameTypes(h, a.heap)
         /\ a.exc \in Exceptions
<1>1. PICK r \in AddLoop(s) :
        a \in IF r.added = <<>> THEN {[heap |-> h, exc |-> r.exc]}
              ELSE {[heap |-> PointTo(NewList(h, l, r.added), p, l), exc |-> r.exc] : l \in FreshLists(h)}
  BY DEF AddEach
<1>2. r.added \in Seq(Oids) /\ r.exc \in Exceptions
  BY AddLoopType
<1>3. CASE r.added = <<>>
  <2>1. a = [heap |-> h, exc |-> r.exc]
    BY <1>1, <1>3
  <2>2. QED
    BY <1>2, <2>1 DEF SameTypes
<1>4. CASE r.added # <<>>
  <2>1. PICK l \in FreshLists(h) : a = [heap |-> PointTo(NewList(h, l, r.added), p, l), exc |-> r.exc]
    BY <1>1, <1>4
  <2> DEFINE n == NewList(h, l, r.added)
             g == PointTo(n, p, l)
  <2>2. l \in Lists /\ h.chain[l] = <<>>
    BY FreshListFacts
  <2>3. /\ MemoryOK(n) /\ n.live = h.live /\ n.command = h.command
        /\ n.chain[l] # <<>>
        /\ \A q \in n.live : n.variables[q] # l
    BY <1>2, <1>4, <2>2, NewListOK
  <2> HIDE DEF n
  <2>4. Loose(n, l) /\ p \in n.live
    BY <2>2, <2>3 DEF Loose
  <2>5. MemoryOK(g) /\ SameTypes(n, g)
    BY <2>3, <2>4, PointToLoose
  <2>6. a = [heap |-> g, exc |-> r.exc]
    BY <2>1 DEF n
  <2> HIDE DEF g
  <2>7. QED
    BY <1>2, <2>3, <2>5, <2>6 DEF SameTypes
<1>5. QED
  BY <1>3, <1>4

\* Building a request ends safely, wherever it stops.
LEMMA BuildRequestOK ==
  ASSUME NEW h, Safe(h), NEW t \in PduTypes, NEW s \in Seq(OidArgs), NEW inTurn,
         NEW b \in BuildRequest(h, t, s, inTurn)
  PROVE  Outcome(b) /\ b.request.ptr \in b.heap.live \cup {NULL}
<1> DEFINE Added(g, p) == IF inTurn THEN AddEach(g, p, s) ELSE PduAdd(g, p, s)
           New(p) == CreatePdu(h, p, t)
           Built(p, a) == Ended(a.heap, [ptr |-> p, type |-> t], NULL, a.exc)
<1>1. CASE b = Ended(h, NoPdu, NULL, "runtime_error")
  <2>1. Outcome(b)
    BY <1>1, NoPduAgrees, EndedOutcome DEF Exceptions
  <2>2. QED
    BY <1>1, <2>1 DEF Ended, NoPdu
<1>2. CASE \E p \in FreshPdus(h) : \E a \in Added(New(p), p) : b = Built(p, a)
  <2>1. PICK p \in FreshPdus(h) : \E a \in Added(New(p), p) : b = Built(p, a)
    BY <1>2
  <2>2. PICK a \in Added(New(p), p) : b = Built(p, a)
    BY <2>1
  <2> DEFINE g == New(p)
             o == [ptr |-> p, type |-> t]
  <2>3. Safe(g) /\ p \in g.live /\ \A x \in Objects : x.ptr = p /\ x.type = t => Agrees(g, x)
    BY CreatePduSafe
  <2>4. o \in Objects /\ o.ptr = p /\ o.type = t
    BY FreshPduFacts DEF Objects
  <2>5. a \in AddEach(g, p, s) \/ a \in PduAdd(g, p, s)
    BY <2>2
  <2>6. b = Ended(a.heap, o, NULL, a.exc)
    BY <2>2
  <2> HIDE DEF g, o
  <2>7. Agrees(g, o)
    BY <2>3, <2>4
  <2>8. MemoryOK(g)
    BY <2>3 DEF Safe
  <2>9. MemoryOK(a.heap) /\ SameTypes(g, a.heap) /\ a.exc \in Exceptions
    <3>1. CASE a \in AddEach(g, p, s)
      BY <2>3, <2>8, <3>1, AddEachOK
    <3>2. CASE a \in PduAdd(g, p, s)
      BY <2>3, <2>8, <3>2, PduAddOK
    <3>3. QED
      BY <2>5, <3>1, <3>2
  <2>10. Safe(a.heap)
    BY <2>3, <2>9, SameSafe
  <2>11. Agrees(a.heap, o)
    BY <2>7, <2>9, SameAgrees
  <2>12. Outcome(b)
    BY <2>6, <2>9, <2>10, <2>11, EndedOutcome
  <2>13. QED
    BY <2>3, <2>4, <2>6, <2>9, <2>12 DEF Ended, SameTypes
<1>3. QED
  BY <1>1, <1>2 DEF BuildRequest

\* Building a request and sending it ends safely.
LEMMA BuildAndSyncOK ==
  ASSUME NEW h, Safe(h), NEW t \in PduTypes, NEW s \in Seq(OidArgs),
         NEW inTurn, NEW hasSession, NEW r \in BuildAndSync(h, t, s, inTurn, hasSession)
  PROVE  Outcome(r)
<1>1. PICK b \in BuildRequest(h, t, s, inTurn) :
        r \in IF b.exc # "none" THEN {b} ELSE Sync(b.heap, b.request, hasSession)
  BY DEF BuildAndSync
<1>2. Outcome(b) /\ b.request.ptr \in b.heap.live \cup {NULL}
  BY BuildRequestOK
<1>3. Safe(b.heap) /\ Agrees(b.heap, b.request)
  BY <1>2 DEF Outcome
<1>4. QED
  BY <1>1, <1>2, <1>3, SyncOK

\* get( oid ), getNext( oid ) and the functions of Set.cpp end safely.
LEMMA SendOidOK ==
  ASSUME NEW h, Safe(h), NEW t \in PduTypes, NEW o \in OidArgs,
         NEW hasSession, NEW r \in SendOid(h, t, o, hasSession)
  PROVE  Outcome(r)
<1>1. CASE o = NoOid
  <2>1. r = Ended(h, NoPdu, NULL, "invalid_argument")
    BY <1>1 DEF SendOid
  <2>2. QED
    BY <2>1, NoPduAgrees, EndedOutcome DEF Exceptions
<1>2. CASE o # NoOid
  <2>1. <<o>> \in Seq(OidArgs)
    OBVIOUS
  <2>2. r \in BuildAndSync(h, t, <<o>>, TRUE, hasSession)
    BY <1>2 DEF SendOid
  <2>3. QED
    BY <2>1, <2>2, BuildAndSyncOK
<1>3. QED
  BY <1>1, <1>2

\* What a set of OIDs is iterated as is a sequence of OIDs.
LEMMA OidSeqs ==
  ASSUME NEW S, S \subseteq OidArgs, NEW s \in InOrder(S)
  PROVE  s \in Seq(OidArgs)
<1>1. s \in Seq(S)
  BY BoundedSeqType DEF InOrder
<1>2. QED
  BY <1>1

\* get( set of OIDs ) ends safely.
LEMMA GetSetOK ==
  ASSUME NEW h, Safe(h), NEW S, S \subseteq OidArgs, NEW hasSession, NEW r \in GetSet(h, S, hasSession)
  PROVE  Outcome(r)
<1>1. CASE S = {}
  <2>1. r = Ended(h, NoPdu, NULL, "invalid_argument")
    BY <1>1 DEF GetSet
  <2>2. QED
    BY <2>1, NoPduAgrees, EndedOutcome DEF Exceptions
<1>2. CASE S # {}
  <2>1. PICK s \in InOrder(S) : r \in BuildAndSync(h, "kGet", s, TRUE, hasSession)
    BY <1>2 DEF GetSet
  <2>2. QED
    BY <2>1, OidSeqs, BuildAndSyncOK DEF PduTypes
<1>3. QED
  BY <1>1, <1>2

\* getBulk( oid ) ends safely.
LEMMA GetBulkOidOK ==
  ASSUME NEW h, Safe(h), NEW o \in OidArgs, NEW hasSession, NEW r \in GetBulkOid(h, o, hasSession)
  PROVE  Outcome(r)
<1>1. <<o>> \in Seq(OidArgs)
  OBVIOUS
<1>2. QED
  BY <1>1, BuildAndSyncOK DEF GetBulkOid, PduTypes

\* getNext( pdu ) ends safely: the OID is read before the PDU is freed.
LEMMA GetNextOK ==
  ASSUME NEW h, Safe(h), NEW req, Agrees(h, req), req.ptr \in h.live \cup {NULL},
         NEW hasSession, NEW r \in GetNext(h, req, hasSession)
  PROVE  Outcome(r)
<1> DEFINE p == req.ptr
           l == h.variables[p]
<1>1. CASE p = NULL \/ l = NULL
  <2>1. r = Ended(h, req, NULL, "invalid_argument")
    BY <1>1 DEF GetNext
  <2>2. QED
    BY <2>1, EndedOutcome DEF Exceptions
<1>2. CASE p \in h.live /\ p # NULL /\ l # NULL
  <2>1. h \in Heaps /\ h.chain \in [Lists -> Seq(Oids)] /\ h.variables \in [Pdus -> Lists \cup {NULL}]
        /\ p \in Pdus
    BY <1>2, HeapFields DEF Safe, MemoryOK
  <2>2. Deref(h, p) = h
    BY <1>2, <2>1, DerefLive
  <2>3. CASE req.type = "kGetNext"
    <3>1. r \in Sync(h, req, hasSession)
      BY <1>2, <2>2, <2>3 DEF GetNext
    <3>2. QED
      BY <3>1, SyncOK
  <2>4. CASE req.type # "kGetNext"
    <3> DEFINE g == FreePdu(h, p)
               o == Last(h.chain[l])
    <3>1. \E x \in SendOid(g, "kGetNext", o, hasSession) : r = Ended(x.heap, NoPdu, x.response, x.exc)
      BY <1>2, <2>2, <2>4 DEF GetNext
    <3>2. PICK x \in SendOid(g, "kGetNext", o, hasSession) : r = Ended(x.heap, NoPdu, x.response, x.exc)
      BY <3>1
    <3>3. Safe(g)
      BY <1>2, FreePduSafe
    <3>4. h.chain[l] \in Seq(Oids) /\ h.chain[l] # <<>>
      BY <1>2, <2>1 DEF Safe, MemoryOK
    <3>5. o \in OidArgs
      BY <3>4 DEF Last, OidArgs
    <3> HIDE DEF g, o
    <3>6. Outcome(x)
      BY <3>3, <3>5, SendOidOK DEF PduTypes
    <3>7. QED
      BY <3>2, <3>6, NoPduAgrees, EndedOutcome DEF Outcome
  <2>5. QED
    BY <2>3, <2>4
<1>3. QED
  BY <1>1, <1>2

\* getBulk( pdu ) ends safely: the OIDs are read before the PDU is freed.
LEMMA GetBulkOK ==
  ASSUME NEW h, Safe(h), NEW req, Agrees(h, req), req.ptr \in h.live \cup {NULL},
         NEW hasSession, NEW r \in GetBulk(h, req, hasSession)
  PROVE  Outcome(r)
<1> DEFINE p == req.ptr
           l == h.variables[p]
<1>1. CASE p = NULL
  <2>1. r = Ended(h, req, NULL, "invalid_argument")
    BY <1>1 DEF GetBulk
  <2>2. QED
    BY <2>1, EndedOutcome DEF Exceptions
<1>2. CASE p \in h.live /\ p # NULL
  <2>1. h \in Heaps /\ h.chain \in [Lists -> Seq(Oids)] /\ h.variables \in [Pdus -> Lists \cup {NULL}]
        /\ p \in Pdus
    BY <1>2, HeapFields DEF Safe, MemoryOK
  <2>2. Deref(h, p) = h
    BY <1>2, <2>1, DerefLive
  <2>3. CASE req.type = "kGetBulk"
    <3>1. r \in Sync(h, req, hasSession)
      BY <1>2, <2>2, <2>3 DEF GetBulk
    <3>2. QED
      BY <3>1, SyncOK
  <2>4. CASE req.type # "kGetBulk" /\ l = NULL
    <3>1. r = Ended(h, req, NULL, "logic_error")
      BY <1>2, <2>2, <2>4 DEF GetBulk
    <3>2. QED
      BY <3>1, EndedOutcome DEF Exceptions
  <2>5. CASE req.type # "kGetBulk" /\ l # NULL
    <3> DEFINE g == FreePdu(h, p)
               S == Range(h.chain[l])
    <3>1. PICK s \in InOrder(S) : r \in BuildAndSync(g, "kGetBulk", s, FALSE, hasSession)
      BY <1>2, <2>2, <2>5 DEF GetBulk
    <3>2. Safe(g)
      BY <1>2, FreePduSafe
    <3>3. S \subseteq OidArgs
      BY <2>1, <2>5 DEF Range, OidArgs
    <3> HIDE DEF g, S
    <3>4. QED
      BY <3>1, <3>2, <3>3, OidSeqs, BuildAndSyncOK DEF PduTypes
  <2>6. QED
    BY <2>3, <2>4, <2>5
<1>3. QED
  BY <1>1, <1>2

-----------------------------------------------------------------------------
\* A way the sending of a trap may end.
TrapOutcome(r) ==
  /\ Safe(r.heap)
  /\ r.list \in Lists \cup {NULL}
  /\ r.exc \in Exceptions

\* How sending a trap that ends in a safe heap is an outcome.
LEMMA SentOutcome ==
  ASSUME NEW h, Safe(h), NEW l \in Lists \cup {NULL}, NEW e \in Exceptions
  PROVE  TrapOutcome(Sent(h, l, e))
BY DEF TrapOutcome, Sent

\* createV2TrapVarlist returns a loose list.
LEMMA CreateTrapVarlistOK ==
  ASSUME NEW h, Safe(h), NEW o, NEW r \in CreateTrapVarlist(h, o)
  PROVE  TrapOutcome(r) /\ Loose(r.heap, r.list)
<1>1. CASE \E e \in {"none", "invalid_argument"} : r = Sent(h, NULL, e)
  <2>1. PICK e \in {"none", "invalid_argument"} : r = Sent(h, NULL, e)
    BY <1>1
  <2>2. TrapOutcome(r)
    BY <2>1, SentOutcome DEF Exceptions
  <2>3. QED
    BY <2>1, <2>2 DEF Loose, Sent
<1>2. CASE \E l \in FreshLists(h), s \in {<<kSysUpTime>>, <<kTrap>>, <<kSysUpTime, kTrap>>} :
             r = Sent(NewList(h, l, s), l, "none")
  <2>1. PICK l \in FreshLists(h), s \in {<<kSysUpTime>>, <<kTrap>>, <<kSysUpTime, kTrap>>} :
             r = Sent(NewList(h, l, s), l, "none")
    BY <1>2
  <2> DEFINE g == NewList(h, l, s)
  <2>2. s \in Seq(Oids) /\ s # <<>>
    <3>1. kSysUpTime \in Oids /\ kTrap \in Oids
      BY TrapOidsAssumption
    <3>2. CASE s = <<kSysUpTime>>
      BY <3>1, <3>2
    <3>3. CASE s = <<kTrap>>
      BY <3>1, <3>3
    <3>4. CASE s = <<kSysUpTime, kTrap>>
      BY <3>1, <3>4
    <3>5. QED
      BY <3>2, <3>3, <3>4
  <2>3. l \in Lists /\ h.chain[l] = <<>>
    BY FreshListFacts
  <2>4. /\ MemoryOK(g) /\ g.live = h.live /\ g.command = h.command
        /\ g.chain[l] # <<>> /\ \A p \in g.live : g.variables[p] # l
    BY <2>2, <2>3, NewListOK DEF Safe
  <2> HIDE DEF g
  <2>5. Safe(g)
    BY <2>4, SameSafe DEF SameTypes
  <2>6. Loose(g, l)
    BY <2>3, <2>4 DEF Loose
  <2>7. r = Sent(g, l, "none")
    BY <2>1 DEF g
  <2>8. TrapOutcome(r)
    BY <2>3, <2>5, <2>7, SentOutcome DEF Exceptions
  <2>9. QED
    BY <2>6, <2>7, <2>8 DEF Sent
<1>3. QED
  BY <1>1, <1>2 DEF CreateTrapVarlist

\* sendV2Trap( varlist ) frees a loose list once.
LEMMA SendTrapListOK ==
  ASSUME NEW h, Safe(h), NEW l, Loose(h, l), NEW r \in SendTrapList(h, l)
  PROVE  TrapOutcome(r)
<1> DEFINE g == FreeVarbind(h, l)
<1>1. CASE l = NULL
  <2>1. r = Sent(h, NULL, "invalid_argument")
    BY <1>1 DEF SendTrapList
  <2>2. QED
    BY <2>1, SentOutcome DEF Exceptions
<1>2. CASE l # NULL
  <2>1. \E e \in {"none", "invalid_argument", "runtime_error"} : r = Sent(g, NULL, e)
    BY <1>2 DEF SendTrapList
  <2>2. MemoryOK(g) /\ g.live = h.live /\ g.command = h.command
    BY FreeVarbindOK DEF Safe
  <2> HIDE DEF g
  <2>3. Safe(g)
    BY <2>2, SameSafe DEF SameTypes
  <2>4. QED
    BY <2>1, <2>3, SentOutcome DEF Exceptions
<1>3. QED
  BY <1>1, <1>2

\* sendV2Trap( oid ) ends safely.
LEMMA SendTrapOidOK ==
  ASSUME NEW h, Safe(h), NEW o, NEW r \in SendTrapOid(h, o)
  PROVE  TrapOutcome(r)
<1>1. PICK c \in CreateTrapVarlist(h, o) :
        r \in IF c.exc # "none" THEN {c} ELSE SendTrapList(c.heap, c.list)
  BY DEF SendTrapOid
<1>2. TrapOutcome(c) /\ Loose(c.heap, c.list) /\ Safe(c.heap)
  BY CreateTrapVarlistOK DEF TrapOutcome
<1>3. QED
  BY <1>1, <1>2, SendTrapListOK

\* sendV2Trap( pdu ) ends safely: the list stolen from the PDU is loose once the PDU
\* is freed.
LEMMA SendTrapPduOK ==
  ASSUME NEW h, Safe(h), NEW p \in h.live \cup {NULL}, NEW r \in SendTrapPdu(h, p)
  PROVE  TrapOutcome(r)
<1> DEFINE l == h.variables[p]
<1>1. CASE p = NULL
  <2>1. r = Sent(h, NULL, "invalid_argument")
    BY <1>1 DEF SendTrapPdu
  <2>2. QED
    BY <2>1, SentOutcome DEF Exceptions
<1>2. CASE p \in h.live /\ p # NULL /\ l = NULL
  <2>1. r = Sent(FreePdu(h, p), NULL, "invalid_argument")
    BY <1>2 DEF SendTrapPdu
  <2>2. Safe(FreePdu(h, p))
    BY <1>2, FreePduSafe
  <2>3. QED
    BY <2>1, <2>2, SentOutcome DEF Exceptions
<1>3. CASE p \in h.live /\ p # NULL /\ l # NULL
  <2> DEFINE g == PointTo(h, p, NULL)
             f == FreePdu(g, p)
  <2>1. MemoryOK(h) /\ h \in Heaps /\ h.live \subseteq Pdus /\ h.variables \in [Pdus -> Lists \cup {NULL}]
    BY HeapFields DEF Safe, MemoryOK
  <2>2. Loose(h, NULL)
    BY DEF Loose
  <2>3. /\ MemoryOK(g) /\ SameTypes(h, g) /\ g.chain = h.chain
        /\ g.variables = [h.variables EXCEPT ![p] = NULL]
    BY <1>3, <2>1, <2>2, PointToLoose
  <2>4. l \in Lists /\ h.chain[l] # <<>>
    BY <1>3, <2>1 DEF MemoryOK
  <2>5. r \in SendTrapList(f, l)
    BY <1>3 DEF SendTrapPdu
  <2> HIDE DEF g
  <2>6. Safe(g) /\ p \in g.live
    BY <1>3, <2>3, SameSafe DEF SameTypes
  <2>7. Safe(f)
    BY <2>6, FreePduSafe
  <2>8. /\ f.live = g.live \ {p}
        /\ \A q \in f.live : f.variables[q] = g.variables[q]
        /\ \A k \in Lists : g.chain[k] # <<>> /\ k # g.variables[p] => f.chain[k] = g.chain[k]
    <3>1. f.live = g.live \ {p}
      BY <2>3, <2>6, FreePduOK
    <3>2. \A q \in f.live : f.variables[q] = g.variables[q]
      BY <2>3, <2>6, FreePduOK
    <3>3. \A k \in Lists : g.chain[k] # <<>> /\ k # g.variables[p] => f.chain[k] = g.chain[k]
      BY <2>3, <2>6, FreePduOK
    <3>4. QED
      BY <3>1, <3>2, <3>3
  <2> HIDE DEF f
  <2>9. f.chain[l] # <<>>
    BY <1>3, <2>1, <2>3, <2>4, <2>8
  <2>10. \A q \in f.live : f.variables[q] # l
    BY <1>3, <2>1, <2>3, <2>8 DEF MemoryOK, SameTypes
  <2>11. Loose(f, l)
    BY <2>4, <2>9, <2>10 DEF Loose
  <2>12. QED
    BY <2>5, <2>7, <2>11, SendTrapListOK
<1>4. QED
  BY <1>1, <1>2, <1>3

\* The inductive invariant.
IInv == TypeOK /\ Safe(heap)

\* What a Varlist object holds
Pointers == Lists \cup {NULL}

\* A call that returns a safe heap and objects that agree with it keeps the invariant.
LEMMA ReturnOK ==
  ASSUME NEW h, Safe(h), NEW pv \in [PduVars -> Objects], \A w \in PduVars : Agrees(h, pv[w]),
         NEW xv \in [VarlistVars -> Pointers], NEW e \in Exceptions, Return(h, pv, xv, e)
  PROVE  IInv'
BY DEF IInv, TypeOK, Safe, MemoryOK, Return, Objects, Pointers

\* The same for a call that leaves the PDU objects alone,
LEMMA ReturnSame ==
  ASSUME IInv, NEW h, Safe(h), NEW xv \in [VarlistVars -> Pointers], NEW e \in Exceptions,
         Return(h, pdu, xv, e)
  PROVE  IInv'
<1>1. pdu \in [PduVars -> Objects] /\ \A w \in PduVars : Agrees(h, pdu[w])
  BY DEF IInv, TypeOK, Objects, Safe
<1>2. QED
  BY <1>1, ReturnOK

\* for a call that assigns to one PDU object,
LEMMA ReturnObject ==
  ASSUME IInv, NEW h, Safe(h), NEW w \in PduVars, NEW o, Agrees(h, o), NEW e \in Exceptions,
         Return(h, [pdu EXCEPT ![w] = o], varlist, e)
  PROVE  IInv'
<1> DEFINE pv == [pdu EXCEPT ![w] = o]
<1>1. pdu \in [PduVars -> Objects] /\ \A u \in PduVars : Agrees(h, pdu[u])
  BY DEF IInv, TypeOK, Objects, Safe
<1>2. o \in Objects
  BY DEF Agrees
<1>3. pv \in [PduVars -> Objects] /\ \A u \in PduVars : Agrees(h, pv[u])
  BY <1>1, <1>2
<1>4. varlist \in [VarlistVars -> Pointers]
  BY DEF IInv, TypeOK, Pointers
<1> HIDE DEF pv
<1>5. Return(h, pv, varlist, e)
  BY DEF pv
<1>6. QED
  BY <1>3, <1>4, <1>5, ReturnOK

\* An object made from a pointer reads its type from the PDU, and agrees.
LEMMA WrapAgrees ==
  ASSUME NEW h, Safe(h), NEW p \in h.live \cup {NULL}
  PROVE  Agrees(h, Wrap(h, p))
<1>1. CASE p = NULL
  BY <1>1, NoPduAgrees DEF Wrap
<1>2. CASE p # NULL
  <2>1. p \in h.live /\ p \in Pdus /\ h.command[p] \in PduTypes
    BY <1>2, HeapFields DEF Safe, MemoryOK
  <2>2. QED
    BY <1>2, <2>1 DEF Wrap, Agrees, Objects
<1>3. QED
  BY <1>1, <1>2

\* A list the client owns is loose.
LEMMA OwnedLoose ==
  ASSUME IInv, NEW x \in VarlistVars, OwnedList(x)
  PROVE  Loose(heap, varlist[x])
BY DEF IInv, TypeOK, OwnedList, Allocated, AllocatedLists, Attached, Loose

\* What the invariant says of the state between two calls.
LEMMA HeldSafe ==
  ASSUME IInv
  PROVE  /\ Safe(heap) /\ MemoryOK(heap) /\ heap \in Heaps
         /\ varlist \in [VarlistVars -> Pointers]
         /\ \A w \in PduVars : Agrees(heap, pdu[w])
BY DEF IInv, TypeOK, Safe, MemoryOK, Pointers

-----------------------------------------------------------------------------
\* NewPdu preserves the invariant.
LEMMA NewPduOK ==
  ASSUME IInv, NEW w \in PduVars, NEW t \in ClientTypes, NewPdu(w, t)
  PROVE  IInv'
<1>1. t \in PduTypes /\ {"none", "runtime_error"} \subseteq Exceptions
  BY ClientTypesAssumption DEF Exceptions
<1>2. CASE \E p \in FreshPdus(heap) :
             Return(CreatePdu(heap, p, t), [pdu EXCEPT ![w] = [ptr |-> p, type |-> t]], varlist, "none")
  <2>1. PICK p \in FreshPdus(heap) :
             Return(CreatePdu(heap, p, t), [pdu EXCEPT ![w] = [ptr |-> p, type |-> t]], varlist, "none")
    BY <1>2
  <2> DEFINE h == CreatePdu(heap, p, t)
             o == [ptr |-> p, type |-> t]
  <2>2. Safe(h) /\ \A x \in Objects : x.ptr = p /\ x.type = t => Agrees(h, x)
    BY <1>1, HeldSafe, CreatePduSafe
  <2>3. o \in Objects /\ o.ptr = p /\ o.type = t
    BY <1>1, FreshPduFacts DEF Objects
  <2>4. Return(h, [pdu EXCEPT ![w] = o], varlist, "none")
    BY <2>1
  <2> HIDE DEF h, o
  <2>5. Agrees(h, o)
    BY <2>2, <2>3
  <2>6. QED
    BY <1>1, <2>2, <2>4, <2>5, ReturnObject
<1>3. CASE Return(heap, pdu, varlist, "runtime_error")
  BY <1>1, <1>3, HeldSafe, ReturnSame
<1>4. QED
  BY <1>2, <1>3 DEF NewPdu

\* Free preserves the invariant.
LEMMA FreeOK ==
  ASSUME IInv, NEW w \in PduVars, Free(w)
  PROVE  IInv'
<1>1. pdu[w].ptr \in heap.live \cup {NULL}
  BY DEF Free, Usable
<1>2. Safe(FreePdu(heap, pdu[w].ptr))
  BY <1>1, HeldSafe, FreePduSafe
<1>3. Agrees(FreePdu(heap, pdu[w].ptr), NoPdu)
  BY <1>2, NoPduAgrees
<1>4. QED
  BY <1>2, <1>3, ReturnObject DEF Free, Exceptions

\* Clear preserves the invariant.
LEMMA ClearOK ==
  ASSUME IInv, NEW w \in PduVars, Clear(w)
  PROVE  IInv'
BY HeldSafe, NoPduAgrees, ReturnObject DEF Clear, Exceptions

\* Copy preserves the invariant.
LEMMA CopyOK ==
  ASSUME IInv, NEW w \in PduVars, NEW d \in PduVars, Copy(w, d)
  PROVE  IInv'
BY HeldSafe, ReturnObject DEF Copy, Exceptions

\* Clone preserves the invariant.
LEMMA CloneOK ==
  ASSUME IInv, NEW w \in PduVars, NEW d \in PduVars, Clone(w, d)
  PROVE  IInv'
<1> DEFINE p == pdu[w].ptr
           l == heap.variables[p]
           s == IF l = NULL THEN <<>> ELSE heap.chain[l]
<1>1. p # NULL => p \in heap.live
  BY DEF Clone, Usable
<1>2. ASSUME p \in heap.live
      PROVE  /\ Deref(heap, p) = heap
             /\ heap.command[p] \in PduTypes
             /\ s \in Seq(Oids)
  <2>1. /\ p \in Pdus /\ heap.chain \in [Lists -> Seq(Oids)]
        /\ heap.variables \in [Pdus -> Lists \cup {NULL}] /\ heap.command \in [Pdus -> PduTypes]
    BY <1>2, HeldSafe, HeapFields
  <2>2. s \in Seq(Oids)
    BY <2>1
  <2>3. QED
    BY <1>2, <2>1, <2>2, HeldSafe, DerefLive
<1>3. CASE /\ p \in heap.live
           /\ \E q \in FreshPdus(heap), k \in FreshLists(heap) :
                LET h == CreateFilled(heap, q, heap.command[p], k, s)
                IN  Return(h, [pdu EXCEPT ![d] = Wrap(h, q)], varlist, "none")
  <2>1. PICK q \in FreshPdus(heap), k \in FreshLists(heap) :
             LET h == CreateFilled(heap, q, heap.command[p], k, s)
             IN  Return(h, [pdu EXCEPT ![d] = Wrap(h, q)], varlist, "none")
    BY <1>3
  <2> DEFINE h == CreateFilled(heap, q, heap.command[p], k, s)
  <2>2. Safe(h) /\ q \in h.live
    <3> DEFINE t == heap.command[p]
    <3>1. t \in PduTypes /\ s \in Seq(Oids)
      BY <1>2, <1>3
    <3> HIDE DEF s, t
    <3>2. LET f == CreateFilled(heap, q, t, k, s) IN Safe(f) /\ q \in f.live
      BY <3>1, HeldSafe, CreateFilledSafe
    <3>3. QED
      BY <3>2 DEF t
  <2>3. Return(h, [pdu EXCEPT ![d] = Wrap(h, q)], varlist, "none")
    BY <2>1
  <2> HIDE DEF h
  <2>4. Agrees(h, Wrap(h, q))
    BY <2>2, WrapAgrees
  <2>5. QED
    BY <2>2, <2>3, <2>4, ReturnObject DEF Exceptions
<1>4. CASE Return(heap, [pdu EXCEPT ![d] = Wrap(heap, NULL)], varlist, "none")
  BY <1>4, HeldSafe, WrapAgrees, ReturnObject DEF Exceptions
<1>5. QED
  BY <1>1, <1>2, <1>3, <1>4 DEF Clone

\* SetVarlist preserves the invariant.
LEMMA CallSetVarlistOK ==
  ASSUME IInv, NEW w \in PduVars, NEW x \in VarlistVars, SetVarlist(w, x)
  PROVE  IInv'
<1>1. CASE Return(heap, pdu, varlist, "logic_error")
  BY <1>1, HeldSafe, ReturnSame DEF Exceptions
<1>2. CASE /\ pdu[w].ptr # NULL
           /\ OwnedList(x) \/ varlist[x] = heap.variables[pdu[w].ptr]
           /\ Return(SetVariables(heap, pdu[w].ptr, varlist[x]), pdu, varlist, "none")
  <2> DEFINE p == pdu[w].ptr
             l == varlist[x]
             h == SetVariables(heap, p, l)
  <2>1. p \in heap.live
    BY <1>2 DEF SetVarlist, Usable
  <2>2. l = heap.variables[p] \/ Loose(heap, l)
    BY <1>2, OwnedLoose
  <2> HIDE DEF p, l
  <2>3. MemoryOK(h) /\ h.live = heap.live /\ h.command = heap.command
    BY <2>1, <2>2, HeldSafe, SetVariablesOK
  <2>4. Return(h, pdu, varlist, "none")
    BY <1>2 DEF p, l
  <2> HIDE DEF h
  <2>5. Safe(h)
    BY <2>3, HeldSafe, SameSafe DEF SameTypes
  <2>6. QED
    BY <2>4, <2>5, HeldSafe, ReturnSame DEF Exceptions
<1>3. QED
  BY <1>1, <1>2 DEF SetVarlist

\* AddVars preserves the invariant.
LEMMA AddVarsOK ==
  ASSUME IInv, NEW w \in PduVars, NEW s \in VecOids, AddVars(w, s)
  PROVE  IInv'
<1> DEFINE p == pdu[w].ptr
<1>1. s \in Seq(OidArgs)
  BY BoundedSeqType DEF VecOids
<1>2. PICK r \in PduAdd(heap, p, s) : Return(r.heap, pdu, varlist, r.exc)
  BY DEF AddVars
<1>3. CASE p = NULL
  <2>1. r.heap = heap /\ r.exc = "logic_error"
    BY <1>3 DEF PduAdd
  <2>2. QED
    BY <1>2, <2>1, HeldSafe, ReturnSame DEF Exceptions
<1>4. CASE p # NULL
  <2>1. p \in heap.live
    BY <1>4 DEF AddVars, Usable
  <2> HIDE DEF p
  <2>2. MemoryOK(r.heap) /\ SameTypes(heap, r.heap) /\ r.exc \in Exceptions
    BY <1>1, <2>1, HeldSafe, PduAddOK
  <2>3. Safe(r.heap)
    BY <2>2, HeldSafe, SameSafe
  <2>4. QED
    BY <1>2, <2>2, <2>3, HeldSafe, ReturnSame
<1>5. QED
  BY <1>3, <1>4

\* and for a call that assigns to one Varlist object.
LEMMA ListResult ==
  ASSUME IInv, NEW h, Safe(h), NEW x \in VarlistVars, NEW l \in Pointers, NEW e \in Exceptions,
         Return(h, pdu, [varlist EXCEPT ![x] = l], e)
  PROVE  IInv'
<1> DEFINE xv == [varlist EXCEPT ![x] = l]
<1>1. xv \in [VarlistVars -> Pointers]
  BY HeldSafe
<1> HIDE DEF xv
<1>2. Return(h, pdu, xv, e)
  BY DEF xv
<1>3. QED
  BY <1>1, <1>2, ReturnSame

\* GetVarlist preserves the invariant.
LEMMA GetVarlistOK ==
  ASSUME IInv, NEW w \in PduVars, NEW x \in VarlistVars, GetVarlist(w, x)
  PROVE  IInv'
<1> DEFINE p == pdu[w].ptr
           l == heap.variables[p]
<1>1. CASE Return(heap, pdu, varlist, "logic_error")
  BY <1>1, HeldSafe, ReturnSame DEF Exceptions
<1>2. CASE p # NULL /\ Return(heap, pdu, [varlist EXCEPT ![x] = l], "none")
  <2>1. p \in heap.live
    BY <1>2 DEF GetVarlist, Usable
  <2>2. l \in Pointers
    BY <2>1, HeldSafe, HeapFields DEF Pointers
  <2>3. QED
    BY <1>2, <2>2, HeldSafe, ListResult DEF Exceptions
<1>3. QED
  BY <1>1, <1>2 DEF GetVarlist

\* AsList preserves the invariant.
LEMMA AsListOK ==
  ASSUME IInv, NEW w \in PduVars, NEW x \in VarlistVars, AsList(w, x)
  PROVE  IInv'
<1> DEFINE p == pdu[w].ptr
           l == heap.variables[p]
<1>1. CASE Return(heap, pdu, varlist, "logic_error")
  BY <1>1, HeldSafe, ReturnSame DEF Exceptions
<1>2. CASE p # NULL /\ Return(heap, pdu, [varlist EXCEPT ![x] = l], "none")
  <2>1. p \in heap.live
    BY <1>2 DEF AsList, Usable
  <2>2. l \in Pointers
    BY <2>1, HeldSafe, HeapFields DEF Pointers
  <2>3. QED
    BY <1>2, <2>2, HeldSafe, ListResult DEF Exceptions
<1>3. QED
  BY <1>1, <1>2 DEF AsList

\* AddListVars preserves the invariant.
LEMMA AddListVarsOK ==
  ASSUME IInv, NEW x \in VarlistVars, NEW s \in VecOids, AddListVars(x, s)
  PROVE  IInv'
<1> DEFINE l == varlist[x]
<1>1. s \in Seq(OidArgs)
  BY BoundedSeqType DEF VecOids
<1>2. PICK a \in VarlistAdd(heap, l, s) : Return(a.heap, pdu, [varlist EXCEPT ![x] = a.list], a.exc)
  BY DEF AddListVars
<1>3. l = NULL \/ (l \in Lists /\ heap.chain[l] # <<>>)
  BY DEF AddListVars, UsableList, Allocated, AllocatedLists
<1> HIDE DEF l
<1>4. MemoryOK(a.heap) /\ SamePdus(heap, a.heap) /\ a.list \in Pointers /\ a.exc \in Exceptions
  BY <1>1, <1>3, HeldSafe, VarlistAddOK DEF Pointers
<1>5. Safe(a.heap)
  BY <1>4, HeldSafe, SameSafe DEF SamePdus, SameTypes
<1>6. QED
  BY <1>2, <1>4, <1>5, ListResult

\* FreeList preserves the invariant.
LEMMA FreeListOK ==
  ASSUME IInv, NEW x \in VarlistVars, FreeList(x)
  PROVE  IInv'
<1> DEFINE h == FreeVarbind(heap, varlist[x])
<1>1. Loose(heap, varlist[x])
  BY OwnedLoose DEF FreeList
<1>2. MemoryOK(h) /\ h.live = heap.live /\ h.command = heap.command
  BY <1>1, HeldSafe, FreeVarbindOK
<1>3. Return(h, pdu, [varlist EXCEPT ![x] = NULL], "none")
  BY DEF FreeList
<1> HIDE DEF h
<1>4. Safe(h)
  BY <1>2, HeldSafe, SameSafe DEF SameTypes
<1>5. QED
  BY <1>3, <1>4, ListResult DEF Exceptions, Pointers

\* ClearList preserves the invariant.
LEMMA ClearListOK ==
  ASSUME IInv, NEW x \in VarlistVars, ClearList(x)
  PROVE  IInv'
BY HeldSafe, ListResult DEF ClearList, Exceptions, Pointers

\* CopyList preserves the invariant.
LEMMA CopyListOK ==
  ASSUME IInv, NEW y \in VarlistVars, NEW x \in VarlistVars, CopyList(y, x)
  PROVE  IInv'
<1>1. varlist[y] \in Pointers
  BY HeldSafe
<1>2. QED
  BY <1>1, HeldSafe, ListResult DEF CopyList, Exceptions

\* The object the response is assigned to agrees.
LEMMA ResponseAgrees ==
  ASSUME NEW r, Outcome(r)
  PROVE  Agrees(r.heap, Wrap(r.heap, r.response))
BY WrapAgrees DEF Outcome

\* A request that is built by the function keeps the invariant.
LEMMA FinishOwnOK ==
  ASSUME IInv, NEW r, Outcome(r), NEW d \in PduVars, FinishOwn(r, d)
  PROVE  IInv'
<1>1. Safe(r.heap) /\ r.exc \in Exceptions
  BY DEF Outcome
<1>2. CASE r.exc = "none"
  <2> DEFINE o == Wrap(r.heap, r.response)
  <2>1. Agrees(r.heap, o)
    BY ResponseAgrees
  <2>2. Return(r.heap, [pdu EXCEPT ![d] = o], varlist, r.exc)
    BY <1>2 DEF FinishOwn, Assign
  <2> HIDE DEF o
  <2>3. QED
    BY <1>1, <2>1, <2>2, ReturnObject
<1>3. CASE r.exc # "none"
  <2>1. Return(r.heap, pdu, varlist, r.exc)
    BY <1>3 DEF FinishOwn, Assign
  <2>2. QED
    BY <1>1, <2>1, HeldSafe, ReturnSame
<1>4. QED
  BY <1>2, <1>3

\* A request that is the client's object keeps the invariant.
LEMMA FinishOK ==
  ASSUME IInv, NEW r, Outcome(r), NEW w \in PduVars, NEW d \in PduVars, Finish(r, w, d)
  PROVE  IInv'
<1> DEFINE q == [pdu EXCEPT ![w] = r.request]
           pv == Assign(r, q, d)
<1>1. /\ Safe(r.heap) /\ r.exc \in Exceptions
      /\ Agrees(r.heap, r.request) /\ r.request \in Objects
  BY DEF Outcome, Agrees
<1>2. pdu \in [PduVars -> Objects] /\ \A u \in PduVars : Agrees(r.heap, pdu[u])
  BY <1>1 DEF IInv, TypeOK, Objects, Safe
<1>3. q \in [PduVars -> Objects] /\ \A u \in PduVars : Agrees(r.heap, q[u])
  BY <1>1, <1>2
<1> HIDE DEF q
<1>4. pv \in [PduVars -> Objects] /\ \A u \in PduVars : Agrees(r.heap, pv[u])
  <2>1. CASE r.exc = "none"
    <3> DEFINE o == Wrap(r.heap, r.response)
    <3>1. Agrees(r.heap, o) /\ o \in Objects
      BY ResponseAgrees DEF Agrees
    <3>2. pv = [q EXCEPT ![d] = o]
      BY <2>1 DEF Assign
    <3> HIDE DEF o, pv
    <3>3. QED
      BY <1>3, <3>1, <3>2
  <2>2. CASE r.exc # "none"
    BY <1>3, <2>2 DEF Assign
  <2>3. QED
    BY <2>1, <2>2
<1>5. Return(r.heap, pv, varlist, r.exc)
  BY DEF Finish, q
<1> HIDE DEF pv
<1>6. QED
  BY <1>1, <1>4, <1>5, HeldSafe, ReturnOK

\* CallSync preserves the invariant.
LEMMA CallSyncOK ==
  ASSUME IInv, NEW w \in PduVars, NEW d \in PduVars, CallSync(w, d)
  PROVE  IInv'
<1>1. PICK hasSession \in BOOLEAN : \E r \in Sync(heap, pdu[w], hasSession) : Finish(r, w, d)
  BY DEF CallSync
<1>2. PICK r \in Sync(heap, pdu[w], hasSession) : Finish(r, w, d)
  BY <1>1
<1>3. Outcome(r)
  BY HeldSafe, SyncOK DEF CallSync, Usable
<1>4. QED
  BY <1>2, <1>3, FinishOK

\* CallGetNext preserves the invariant.
LEMMA CallGetNextOK ==
  ASSUME IInv, NEW w \in PduVars, NEW d \in PduVars, CallGetNext(w, d)
  PROVE  IInv'
<1>1. PICK hasSession \in BOOLEAN : \E r \in GetNext(heap, pdu[w], hasSession) : Finish(r, w, d)
  BY DEF CallGetNext
<1>2. PICK r \in GetNext(heap, pdu[w], hasSession) : Finish(r, w, d)
  BY <1>1
<1>3. Outcome(r)
  BY HeldSafe, GetNextOK DEF CallGetNext, Usable
<1>4. QED
  BY <1>2, <1>3, FinishOK

\* CallGetBulk preserves the invariant.
LEMMA CallGetBulkOK ==
  ASSUME IInv, NEW w \in PduVars, NEW d \in PduVars, CallGetBulk(w, d)
  PROVE  IInv'
<1>1. PICK hasSession \in BOOLEAN : \E r \in GetBulk(heap, pdu[w], hasSession) : Finish(r, w, d)
  BY DEF CallGetBulk
<1>2. PICK r \in GetBulk(heap, pdu[w], hasSession) : Finish(r, w, d)
  BY <1>1
<1>3. Outcome(r)
  BY HeldSafe, GetBulkOK DEF CallGetBulk, Usable
<1>4. QED
  BY <1>2, <1>3, FinishOK

\* CallSendOid preserves the invariant.
LEMMA CallSendOidOK ==
  ASSUME IInv, NEW t \in PduTypes, NEW o \in OidArgs, NEW d \in PduVars, CallSendOid(t, o, d)
  PROVE  IInv'
<1>1. PICK hasSession \in BOOLEAN : \E r \in SendOid(heap, t, o, hasSession) : FinishOwn(r, d)
  BY DEF CallSendOid
<1>2. PICK r \in SendOid(heap, t, o, hasSession) : FinishOwn(r, d)
  BY <1>1
<1>3. Outcome(r)
  BY HeldSafe, SendOidOK
<1>4. QED
  BY <1>2, <1>3, FinishOwnOK

\* CallGetSet preserves the invariant.
LEMMA CallGetSetOK ==
  ASSUME IInv, NEW S, S \subseteq OidArgs, NEW d \in PduVars, CallGetSet(S, d)
  PROVE  IInv'
<1>1. PICK hasSession \in BOOLEAN : \E r \in GetSet(heap, S, hasSession) : FinishOwn(r, d)
  BY DEF CallGetSet
<1>2. PICK r \in GetSet(heap, S, hasSession) : FinishOwn(r, d)
  BY <1>1
<1>3. Outcome(r)
  BY HeldSafe, GetSetOK
<1>4. QED
  BY <1>2, <1>3, FinishOwnOK

\* CallGetBulkOid preserves the invariant.
LEMMA CallGetBulkOidOK ==
  ASSUME IInv, NEW o \in OidArgs, NEW d \in PduVars, CallGetBulkOid(o, d)
  PROVE  IInv'
<1>1. PICK hasSession \in BOOLEAN : \E r \in GetBulkOid(heap, o, hasSession) : FinishOwn(r, d)
  BY DEF CallGetBulkOid
<1>2. PICK r \in GetBulkOid(heap, o, hasSession) : FinishOwn(r, d)
  BY <1>1
<1>3. Outcome(r)
  BY HeldSafe, GetBulkOidOK
<1>4. QED
  BY <1>2, <1>3, FinishOwnOK

-----------------------------------------------------------------------------
\* CallCreateTrapVarlist preserves the invariant.
LEMMA CallCreateTrapVarlistOK ==
  ASSUME IInv, NEW o, NEW x \in VarlistVars, CallCreateTrapVarlist(o, x)
  PROVE  IInv'
<1>1. PICK r \in CreateTrapVarlist(heap, o) :
        Return(r.heap, pdu, IF r.exc = "none" THEN [varlist EXCEPT ![x] = r.list] ELSE varlist, r.exc)
  BY DEF CallCreateTrapVarlist
<1>2. Safe(r.heap) /\ r.list \in Pointers /\ r.exc \in Exceptions
  BY HeldSafe, CreateTrapVarlistOK DEF TrapOutcome, Pointers
<1>3. CASE r.exc = "none"
  BY <1>1, <1>2, <1>3, ListResult
<1>4. CASE r.exc # "none"
  BY <1>1, <1>2, <1>4, HeldSafe, ReturnSame
<1>5. QED
  BY <1>3, <1>4

\* CallSendTrapList preserves the invariant.
LEMMA CallSendTrapListOK ==
  ASSUME IInv, NEW x \in VarlistVars, CallSendTrapList(x)
  PROVE  IInv'
<1>1. PICK r \in SendTrapList(heap, varlist[x]) : Return(r.heap, pdu, [varlist EXCEPT ![x] = r.list], r.exc)
  BY DEF CallSendTrapList
<1>2. Loose(heap, varlist[x])
  BY OwnedLoose DEF CallSendTrapList
<1>3. Safe(r.heap) /\ r.list \in Pointers /\ r.exc \in Exceptions
  BY <1>2, HeldSafe, SendTrapListOK DEF TrapOutcome, Pointers
<1>4. QED
  BY <1>1, <1>3, ListResult

\* CallSendTrapPdu preserves the invariant.
LEMMA CallSendTrapPduOK ==
  ASSUME IInv, NEW w \in PduVars, CallSendTrapPdu(w)
  PROVE  IInv'
<1>1. PICK r \in SendTrapPdu(heap, pdu[w].ptr) : Return(r.heap, [pdu EXCEPT ![w] = NoPdu], varlist, r.exc)
  BY DEF CallSendTrapPdu
<1>2. pdu[w].ptr \in heap.live \cup {NULL}
  BY DEF CallSendTrapPdu, Usable
<1>3. Safe(r.heap) /\ r.exc \in Exceptions
  BY <1>2, HeldSafe, SendTrapPduOK DEF TrapOutcome
<1>4. QED
  BY <1>1, <1>3, NoPduAgrees, ReturnObject

\* CallSendTrapOid preserves the invariant.
LEMMA CallSendTrapOidOK ==
  ASSUME IInv, NEW o, CallSendTrapOid(o)
  PROVE  IInv'
<1>1. PICK r \in SendTrapOid(heap, o) : Return(r.heap, pdu, varlist, r.exc)
  BY DEF CallSendTrapOid
<1>2. Safe(r.heap) /\ r.exc \in Exceptions
  BY HeldSafe, SendTrapOidOK DEF TrapOutcome
<1>3. QED
  BY <1>1, <1>2, HeldSafe, ReturnSame

-----------------------------------------------------------------------------
\* The invariant holds initially.
LEMMA InitOK == Init => IInv
<1> SUFFICES ASSUME Init PROVE IInv
  OBVIOUS
<1>1. heap = EmptyHeap /\ pdu = [w \in PduVars |-> NoPdu] /\ varlist = [x \in VarlistVars |-> NULL] /\ exc = "none"
  BY DEF Init
<1> DEFINE h == EmptyHeap
<1>2. /\ h.live = {} /\ h.misused = {}
      /\ h.variables = [p \in Pdus |-> NULL]
      /\ h \in Heaps
  <2>1. <<>> \in Seq(Oids)
    OBVIOUS
  <2>2. QED
    BY <2>1 DEF EmptyHeap, Heaps, PduTypes
<1> HIDE DEF h
<1>3. MemoryOK(h)
  BY <1>2 DEF MemoryOK
<1>4. NoPdu \in Objects /\ Agrees(h, NoPdu)
  BY <1>2 DEF NoPdu, Objects, PduTypes, Agrees
<1>5. TypeOK
  BY <1>1, <1>2, <1>4 DEF TypeOK, h, Objects, Exceptions
<1>6. Safe(heap)
  BY <1>1, <1>3, <1>4 DEF Safe, h
<1>7. QED
  BY <1>5, <1>6 DEF IInv

\* Every call preserves the invariant.
LEMMA StepOK == IInv /\ [Next]_vars => IInv'
<1> SUFFICES ASSUME IInv, [Next]_vars PROVE IInv'
  OBVIOUS
<1>1. CASE WrapperStep
  <2>1. ASSUME NEW w \in PduVars, NEW t \in ClientTypes, NewPdu(w, t) PROVE IInv'
    BY <2>1, NewPduOK
  <2>2. ASSUME NEW w \in PduVars, Free(w) \/ Clear(w) PROVE IInv'
    BY <2>2, FreeOK, ClearOK
  <2>3. ASSUME NEW w \in PduVars, NEW d \in PduVars, Copy(w, d) \/ Clone(w, d) PROVE IInv'
    BY <2>3, CopyOK, CloneOK
  <2>4. ASSUME NEW w \in PduVars, NEW x \in VarlistVars, SetVarlist(w, x) \/ GetVarlist(w, x) \/ AsList(w, x)
        PROVE  IInv'
    BY <2>4, CallSetVarlistOK, GetVarlistOK, AsListOK
  <2>5. ASSUME NEW w \in PduVars, NEW s \in VecOids, AddVars(w, s) PROVE IInv'
    BY <2>5, AddVarsOK
  <2>6. ASSUME NEW x \in VarlistVars, NEW s \in VecOids, AddListVars(x, s) PROVE IInv'
    BY <2>6, AddListVarsOK
  <2>7. ASSUME NEW x \in VarlistVars, FreeList(x) \/ ClearList(x) PROVE IInv'
    BY <2>7, FreeListOK, ClearListOK
  <2>8. ASSUME NEW x \in VarlistVars, NEW y \in VarlistVars, CopyList(y, x) PROVE IInv'
    BY <2>8, CopyListOK
  <2>9. QED
    BY <1>1, <2>1, <2>2, <2>3, <2>4, <2>5, <2>6, <2>7, <2>8 DEF WrapperStep
<1>2. CASE RequestStep
  <2>1. ASSUME NEW w \in PduVars, NEW d \in PduVars, CallSync(w, d) \/ CallGetNext(w, d) \/ CallGetBulk(w, d)
        PROVE  IInv'
    BY <2>1, CallSyncOK, CallGetNextOK, CallGetBulkOK
  <2>2. ASSUME NEW d \in PduVars, NEW t \in {"kGet", "kGetNext", "kSet"}, NEW o \in OidArgs, CallSendOid(t, o, d)
        PROVE  IInv'
    BY <2>2, CallSendOidOK DEF PduTypes
  <2>3. ASSUME NEW d \in PduVars, NEW S \in OidSets, CallGetSet(S, d) PROVE IInv'
    BY <2>3, CallGetSetOK DEF OidSets
  <2>4. ASSUME NEW d \in PduVars, NEW o \in OidArgs, CallGetBulkOid(o, d) PROVE IInv'
    BY <2>4, CallGetBulkOidOK
  <2>5. QED
    BY <1>2, <2>1, <2>2, <2>3, <2>4 DEF RequestStep
<1>3. CASE TrapStep
  BY <1>3, CallCreateTrapVarlistOK, CallSendTrapListOK, CallSendTrapPduOK, CallSendTrapOidOK DEF TrapStep
<1>4. CASE UNCHANGED vars
  BY <1>4 DEF vars, IInv, TypeOK, Safe, MemoryOK, Agrees, Objects
<1>5. QED
  BY <1>1, <1>2, <1>3, <1>4 DEF Next

(***************************************************************************)
(* IInv is inductive, so it holds in every state of every behaviour:       *)
(* wherever a call of PDU.cpp, Varlist.cpp, Get.cpp, Set.cpp or Trap.cpp   *)
(* returns or throws, the heap is consistent and the objects agree with    *)
(* it.                                                                     *)
(***************************************************************************)
THEOREM Inductive == Spec => []IInv
BY InitOK, StepOK, PTL DEF Spec

(***************************************************************************)
(* Every variable always has its type; in particular no list ever holds an *)
(* empty OID, which addXVar refuses (Varlist.cpp:99-230).                  *)
(***************************************************************************)
THEOREM TypeCorrect == Spec => []TypeOK
<1>1. IInv => TypeOK
  BY DEF IInv
<1>2. QED
  BY <1>1, Inductive, PTL

(***************************************************************************)
(* For any number of blocks, objects and OIDs: no sequence of legal calls  *)
(* frees a block twice or uses one that was freed, whatever the agents     *)
(* answer and wherever net-snmp fails to allocate.                         *)
(***************************************************************************)
THEOREM MemoryIsSafe == Spec => []NoMemoryFault
<1>1. IInv => NoMemoryFault
  BY DEF IInv, Safe, MemoryOK, NoMemoryFault
<1>2. QED
  BY <1>1, Inductive, PTL

(***************************************************************************)
(* Every list a PDU points to is allocated and is that PDU's alone, so     *)
(* snmp_free_pdu never frees a list a second time (PDU.cpp:173-177,        *)
(* Trap.cpp:222-225).                                                      *)
(***************************************************************************)
THEOREM OneOwner == Spec => []ListsHaveOneOwner
<1>1. IInv => ListsHaveOneOwner
  <2>1. ASSUME IInv, NEW p \in heap.live, NEW q \in heap.live, heap.variables[p] # NULL
        PROVE  /\ Allocated(heap, heap.variables[p])
               /\ heap.variables[q] = heap.variables[p] => p = q
    <3>1. heap.variables[p] \in Lists
      BY <2>1, HeldSafe, HeapFields
    <3>2. QED
      BY <2>1, <3>1, HeldSafe DEF MemoryOK, Allocated, AllocatedLists
  <2>2. QED
    BY <2>1 DEF ListsHaveOneOwner
<1>2. QED
  BY <1>1, Inductive, PTL

(***************************************************************************)
(* The type an object caches is the command of the PDU it points to, for   *)
(* every object that may be used: getNext and getBulk (Get.cpp:125, 185)   *)
(* decide by the type that will be sent.                                   *)
(***************************************************************************)
THEOREM TypesAgree == Spec => []CachedTypeAgrees
<1>1. IInv => CachedTypeAgrees
  BY HeldSafe DEF Agrees, CachedTypeAgrees, Usable, Wrap, NoPdu
<1>2. QED
  BY <1>1, Inductive, PTL

-----------------------------------------------------------------------------
(***************************************************************************)
(* That requests and traps are consumed, on every path of every function,  *)
(* for every value of the constants. A block the caller holds, x below, is *)
(* in heap.live until the call returns: what a function allocates is never *)
(* x, and what remains is that each path frees it.                         *)
(***************************************************************************)

\* The response is another block than any the caller has.
LEMMA AnswersAvoid ==
  ASSUME NEW h, Safe(h), NEW p \in h.live \cup {NULL}, NEW a \in Answers(h, p),
         NEW x \in heap.live, x = p \/ x \notin h.live
  PROVE  x \notin a.heap.live
<1> DEFINE g == FreePdu(h, p)
<1>1. PICK q \in FreshPdus(g), l \in FreshLists(g), s \in Chains \cup {<<>>} :
        a = [heap |-> CreateFilled(g, q, "kResponse", l, s), response |-> q]
  BY DEF Answers
<1>2. Safe(g) /\ g.live = h.live \ {p}
  BY FreePduSafe
<1>3. q # x
  BY DEF FreshPdus
<1>4. s \in Seq(Oids)
  <2>1. \A c \in BoundedSeq(Oids, MaxVars) : c \in Seq(Oids)
    BY BoundedSeqType
  <2>2. s \in BoundedSeq(Oids, MaxVars) \/ s = <<>>
    BY DEF Chains
  <2>3. <<>> \in Seq(Oids)
    OBVIOUS
  <2> QED
    BY <2>1, <2>2, <2>3
<1> DEFINE f == CreateFilled(g, q, "kResponse", l, s)
<1>5. "kResponse" \in PduTypes
  BY DEF PduTypes
<1> HIDE DEF g
<1>6. f.live = g.live \cup {q}
  BY <1>2, <1>4, <1>5, CreateFilledSafe
<1>7. a.heap = f
  BY <1>1
<1> QED
  BY <1>2, <1>3, <1>6, <1>7

\* sync leaves no trace of its request.
LEMMA SyncAvoid ==
  ASSUME NEW h, Safe(h), NEW req, Agrees(h, req), req.ptr \in h.live \cup {NULL},
         NEW hasSession, NEW r \in Sync(h, req, hasSession),
         NEW x \in heap.live, x # NULL, x = req.ptr \/ x \notin h.live
  PROVE  x \notin r.heap.live /\ r.request.ptr # x
<1> DEFINE p == req.ptr
           answers == Answers(h, p)
           f == FreePdu(h, p)
<1>1. f.live = h.live \ {p}
  BY FreePduSafe
<1>2. NoPdu.ptr = NULL
  BY DEF NoPdu
<1>3. CASE p = NULL
  <2>1. r = Ended(h, req, NULL, "invalid_argument")
    BY <1>3 DEF Sync
  <2> QED
    BY <1>3, <2>1 DEF Ended
<1>4. CASE \E e \in {"invalid_argument", "runtime_error"} : r = Ended(f, NoPdu, NULL, e)
  <2> HIDE DEF f
  <2> QED
    BY <1>1, <1>2, <1>4 DEF Ended
<1>5. CASE \E a \in answers : \/ r = Ended(FreePdu(a.heap, a.response), NoPdu, NULL, "runtime_error")
                              \/ r = Ended(a.heap, NoPdu, a.response, "none")
  <2>1. PICK a \in answers : \/ r = Ended(FreePdu(a.heap, a.response), NoPdu, NULL, "runtime_error")
                             \/ r = Ended(a.heap, NoPdu, a.response, "none")
    BY <1>5
  <2>2. Safe(a.heap) /\ a.response \in a.heap.live
    BY AnswersOK
  <2>3. x \notin a.heap.live
    BY AnswersAvoid
  <2> DEFINE g == FreePdu(a.heap, a.response)
  <2>4. g.live = a.heap.live \ {a.response}
    BY <2>2, FreePduSafe
  <2> HIDE DEF g
  <2>5. CASE r = Ended(g, NoPdu, NULL, "runtime_error")
    BY <1>2, <2>3, <2>4, <2>5 DEF Ended
  <2>6. CASE r = Ended(a.heap, NoPdu, a.response, "none")
    BY <1>2, <2>3, <2>6 DEF Ended
  <2> QED
    BY <2>1, <2>5, <2>6 DEF g
<1> QED
  BY <1>3, <1>4, <1>5 DEF Sync, NoAnswer

\* A request that a function builds is another block than any the caller has.
LEMMA BuildRequestAvoid ==
  ASSUME NEW h, Safe(h), NEW t \in PduTypes, NEW s \in Seq(OidArgs), NEW inTurn,
         NEW b \in BuildRequest(h, t, s, inTurn),
         NEW x \in heap.live, x # NULL, x \notin h.live
  PROVE  x \notin b.heap.live /\ b.request.ptr # x
<1>1. CASE b = Ended(h, NoPdu, NULL, "runtime_error")
  BY <1>1 DEF Ended, NoPdu
<1>2. CASE \E p \in FreshPdus(h) :
             LET g == CreatePdu(h, p, t)
             IN  b \in {Ended(a.heap, [ptr |-> p, type |-> t], NULL, a.exc) :
                          a \in IF inTurn THEN AddEach(g, p, s) ELSE PduAdd(g, p, s)}
  <2>1. PICK p \in FreshPdus(h) :
             LET g == CreatePdu(h, p, t)
             IN  b \in {Ended(a.heap, [ptr |-> p, type |-> t], NULL, a.exc) :
                          a \in IF inTurn THEN AddEach(g, p, s) ELSE PduAdd(g, p, s)}
    BY <1>2
  <2> DEFINE g == CreatePdu(h, p, t)
  <2>2. PICK a \in IF inTurn THEN AddEach(g, p, s) ELSE PduAdd(g, p, s) :
          b = Ended(a.heap, [ptr |-> p, type |-> t], NULL, a.exc)
    BY <2>1
  <2>3. Safe(g) /\ g.live = h.live \cup {p}
    BY CreatePduSafe
  <2>4. p # x
    BY DEF FreshPdus
  <2>5. a \in AddEach(g, p, s) \/ a \in PduAdd(g, p, s)
    BY <2>2
  <2> HIDE DEF g
  <2>6. MemoryOK(g) /\ p \in g.live
    BY <2>3 DEF Safe
  <2>7. SameTypes(g, a.heap)
    BY <2>5, <2>6, AddEachOK, PduAddOK
  <2> QED
    BY <2>2, <2>3, <2>4, <2>7 DEF Ended, SameTypes
<1> QED
  BY <1>1, <1>2 DEF BuildRequest

LEMMA BuildAndSyncAvoid ==
  ASSUME NEW h, Safe(h), NEW t \in PduTypes, NEW s \in Seq(OidArgs),
         NEW inTurn, NEW hasSession, NEW r \in BuildAndSync(h, t, s, inTurn, hasSession),
         NEW x \in heap.live, x # NULL, x \notin h.live
  PROVE  x \notin r.heap.live /\ r.request.ptr # x
<1>1. PICK b \in BuildRequest(h, t, s, inTurn) :
        r \in IF b.exc # "none" THEN {b} ELSE Sync(b.heap, b.request, hasSession)
  BY DEF BuildAndSync
<1>2. Outcome(b) /\ b.request.ptr \in b.heap.live \cup {NULL}
  BY BuildRequestOK
<1>3. Safe(b.heap) /\ Agrees(b.heap, b.request)
  BY <1>2 DEF Outcome
<1>4. x \notin b.heap.live /\ b.request.ptr # x
  BY BuildRequestAvoid
<1> QED
  BY <1>1, <1>2, <1>3, <1>4, SyncAvoid

\* getNext( pdu ) frees a PDU with variables on every path.
LEMMA GetNextConsumes ==
  ASSUME Safe(heap), NEW req, Agrees(heap, req), req.ptr \in heap.live,
         heap.variables[req.ptr] # NULL,
         NEW hasSession, NEW r \in GetNext(heap, req, hasSession)
  PROVE  Consumed(r, req)
<1> DEFINE p == req.ptr
           l == heap.variables[p]
           g == FreePdu(heap, p)
           o == Last(heap.chain[l])
<1>1. heap \in Heaps /\ heap.chain \in [Lists -> Seq(Oids)] /\ heap.variables \in [Pdus -> Lists \cup {NULL}]
      /\ p \in Pdus /\ p # NULL
  BY HeapFields, BlocksAssumption DEF Safe, MemoryOK
<1>2. Deref(heap, p) = heap
  BY <1>1, DerefLive
<1>3. CASE req.type = "kGetNext"
  <2>1. r \in Sync(heap, req, hasSession)
    BY <1>1, <1>2, <1>3 DEF GetNext
  <2> QED
    BY <1>1, <2>1, SyncAvoid DEF Consumed
<1>4. CASE req.type # "kGetNext"
  <2>1. \E y \in SendOid(g, "kGetNext", o, hasSession) : r = Ended(y.heap, NoPdu, y.response, y.exc)
    BY <1>1, <1>2, <1>4 DEF GetNext
  <2>2. PICK y \in SendOid(g, "kGetNext", o, hasSession) : r = Ended(y.heap, NoPdu, y.response, y.exc)
    BY <2>1
  <2>3. Safe(g) /\ g.live = heap.live \ {p}
    BY FreePduSafe
  <2>4. heap.chain[l] \in Seq(Oids) /\ heap.chain[l] # <<>>
    BY <1>1 DEF Safe, MemoryOK
  <2>5. o \in OidArgs
    BY <2>4 DEF Last, OidArgs
  <2> HIDE DEF g, o
  <2>6. p \notin y.heap.live
    <3>1. CASE o = NoOid
      <4>1. y = Ended(g, NoPdu, NULL, "invalid_argument")
        BY <3>1 DEF SendOid
      <4> QED
        BY <2>3, <4>1 DEF Ended
    <3>2. CASE o # NoOid
      <4>1. y \in BuildAndSync(g, "kGetNext", <<o>>, TRUE, hasSession)
        BY <2>2, <3>2 DEF SendOid
      <4>2. <<o>> \in Seq(OidArgs)
        BY <2>5
      <4> QED
        BY <1>1, <2>3, <4>1, <4>2, BuildAndSyncAvoid DEF PduTypes
    <3> QED
      BY <3>1, <3>2
  <2> QED
    BY <1>1, <2>2, <2>6 DEF Ended, NoPdu, Consumed
<1> QED
  BY <1>3, <1>4

\* getBulk( pdu ) frees a PDU with variables on every path.
LEMMA GetBulkConsumes ==
  ASSUME Safe(heap), NEW req, Agrees(heap, req), req.ptr \in heap.live,
         heap.variables[req.ptr] # NULL,
         NEW hasSession, NEW r \in GetBulk(heap, req, hasSession)
  PROVE  Consumed(r, req)
<1> DEFINE p == req.ptr
           l == heap.variables[p]
           g == FreePdu(heap, p)
           S == Range(heap.chain[l])
<1>1. heap \in Heaps /\ heap.chain \in [Lists -> Seq(Oids)] /\ heap.variables \in [Pdus -> Lists \cup {NULL}]
      /\ p \in Pdus /\ p # NULL
  BY HeapFields, BlocksAssumption DEF Safe, MemoryOK
<1>2. Deref(heap, p) = heap
  BY <1>1, DerefLive
<1>3. CASE req.type = "kGetBulk"
  <2>1. r \in Sync(heap, req, hasSession)
    BY <1>1, <1>2, <1>3 DEF GetBulk
  <2> QED
    BY <1>1, <2>1, SyncAvoid DEF Consumed
<1>4. CASE req.type # "kGetBulk"
  <2>1. PICK s \in InOrder(S) : r \in BuildAndSync(g, "kGetBulk", s, FALSE, hasSession)
    BY <1>1, <1>2, <1>4 DEF GetBulk
  <2>2. Safe(g) /\ g.live = heap.live \ {p}
    BY FreePduSafe
  <2>3. S \subseteq OidArgs
    BY <1>1 DEF Range, OidArgs
  <2> HIDE DEF g, S
  <2>4. s \in Seq(OidArgs)
    BY <2>1, <2>3, OidSeqs
  <2> QED
    <3>1. "kGetBulk" \in PduTypes /\ p \notin g.live /\ p \in heap.live
      BY <2>2 DEF PduTypes
    <3>2. p \notin r.heap.live /\ r.request.ptr # p
      BY <1>1, <2>1, <2>2, <2>4, <3>1, BuildAndSyncAvoid
    <3> QED
      BY <3>2 DEF Consumed
<1> QED
  BY <1>3, <1>4

(***************************************************************************)
(* For any number of blocks, objects and OIDs: a request is freed by the   *)
(* library on every path (Get.cpp:19-31, 128-141, 185-201), and the        *)
(* caller's object does not keep it.                                       *)
(***************************************************************************)
THEOREM RequestsConsumed == Spec => []RequestsAreConsumed
<1>1. ASSUME IInv PROVE RequestsAreConsumed
  <2>1. ASSUME NEW w \in PduVars, NEW hasSession \in BOOLEAN, pdu[w].ptr \in heap.live,
               NEW r \in Sync(heap, pdu[w], hasSession)
        PROVE  Consumed(r, pdu[w])
    <3>1. Safe(heap) /\ Agrees(heap, pdu[w]) /\ pdu[w].ptr # NULL
      BY <1>1, <2>1, HeapFields, BlocksAssumption DEF IInv, Safe, MemoryOK
    <3> QED
      BY <2>1, <3>1, SyncAvoid DEF Consumed
  <2>2. ASSUME NEW w \in PduVars, NEW hasSession \in BOOLEAN, HasVariables(w),
               NEW r \in GetNext(heap, pdu[w], hasSession) \cup GetBulk(heap, pdu[w], hasSession)
        PROVE  Consumed(r, pdu[w])
    <3>1. Safe(heap) /\ Agrees(heap, pdu[w]) /\ pdu[w].ptr \in heap.live
          /\ heap.variables[pdu[w].ptr] # NULL
      BY <1>1, <2>2 DEF IInv, Safe, HasVariables
    <3> QED
      BY <2>2, <3>1, GetNextConsumes, GetBulkConsumes
  <2> QED
    BY <2>1, <2>2 DEF RequestsAreConsumed
<1> QED
  BY <1>1, Inductive, PTL

-----------------------------------------------------------------------------
\* sendV2Trap( varlist ) frees the list.
LEMMA SendTrapListFrees ==
  ASSUME NEW h, MemoryOK(h), NEW l, Loose(h, l), NEW r \in SendTrapList(h, l)
  PROVE  /\ r.list = NULL
         /\ r.heap.live = h.live
         /\ ~Allocated(r.heap, l)
<1>1. CASE l = NULL
  <2>1. r = Sent(h, NULL, "invalid_argument")
    BY <1>1 DEF SendTrapList
  <2> QED
    BY <1>1, <2>1, BlocksAssumption DEF Sent, Allocated, AllocatedLists
<1>2. CASE l # NULL
  <2> DEFINE g == FreeVarbind(h, l)
  <2>1. l \in Lists /\ h.chain[l] # <<>> /\ h \in Heaps
    BY <1>2 DEF Loose, MemoryOK
  <2>2. g.live = h.live /\ g.chain = [h.chain EXCEPT ![l] = <<>>] /\ h.chain \in [Lists -> Seq(Oids)]
    BY <2>1, FreeVarbindFields, HeapFields
  <2>3. \E e \in {"none", "invalid_argument", "runtime_error"} : r = Sent(g, NULL, e)
    BY <1>2 DEF SendTrapList
  <2> HIDE DEF g
  <2> QED
    BY <2>1, <2>2, <2>3 DEF Sent, Allocated, AllocatedLists
<1> QED
  BY <1>1, <1>2

\* sendV2Trap( pdu ) frees the PDU and the list it had.
LEMMA SendTrapPduFrees ==
  ASSUME NEW h, MemoryOK(h), NEW p \in h.live, NEW r \in SendTrapPdu(h, p)
  PROVE  /\ p \notin r.heap.live
         /\ h.variables[p] # NULL => ~Allocated(r.heap, h.variables[p])
<1> DEFINE l == h.variables[p]
<1>1. p # NULL /\ h \in Heaps /\ p \in Pdus /\ h.variables \in [Pdus -> Lists \cup {NULL}]
      /\ h.live \subseteq Pdus
  BY HeapFields, BlocksAssumption DEF MemoryOK
<1>2. CASE l = NULL
  <2>1. r = Sent(FreePdu(h, p), NULL, "invalid_argument")
    BY <1>1, <1>2 DEF SendTrapPdu
  <2>2. FreePdu(h, p).live = h.live \ {p}
    BY FreePduOK
  <2> QED
    BY <1>2, <2>1, <2>2 DEF Sent
<1>3. CASE l # NULL
  <2> DEFINE g == PointTo(h, p, NULL)
             f == FreePdu(g, p)
  <2>1. l \in Lists /\ h.chain[l] # <<>>
    BY <1>1, <1>3 DEF MemoryOK
  <2>2. /\ MemoryOK(g) /\ SameTypes(h, g) /\ g.chain = h.chain
        /\ g.variables = [h.variables EXCEPT ![p] = NULL]
    BY PointToLoose DEF Loose
  <2>3. r \in SendTrapList(f, l)
    BY <1>1, <1>3 DEF SendTrapPdu
  <2> HIDE DEF g
  <2>4. p \in g.live /\ g.variables[p] = NULL
    BY <1>1, <2>2 DEF SameTypes
  <2>5. /\ MemoryOK(f)
        /\ f.live = g.live \ {p}
        /\ \A q \in f.live : f.variables[q] = g.variables[q]
    <3>1. MemoryOK(g)
      BY <2>2
    <3>2. MemoryOK(f)
      BY <2>4, <3>1, FreePduOK
    <3>3. f.live = g.live \ {p}
      BY <2>4, <3>1, FreePduOK
    <3>4. \A q \in f.live : f.variables[q] = g.variables[q]
      BY <2>4, <3>1, FreePduOK
    <3> QED
      BY <3>2, <3>3, <3>4
  <2>6. f.chain[l] = g.chain[l]
    BY <1>3, <2>1, <2>2, <2>4, FreePduOK
  <2> HIDE DEF f
  <2>7. \A q \in f.live : f.variables[q] # l
    BY <1>1, <1>3, <2>2, <2>5 DEF MemoryOK, SameTypes
  <2>8. Loose(f, l)
    BY <2>1, <2>2, <2>6, <2>7 DEF Loose
  <2> QED
    BY <2>3, <2>5, <2>8, SendTrapListFrees
<1> QED
  BY <1>2, <1>3

(***************************************************************************)
(* For any number of blocks, objects and OIDs: sendV2Trap frees the PDU or *)
(* the list it is given on every path (Trap.cpp:178-230).                  *)
(***************************************************************************)
THEOREM TrapsConsumed == Spec => []TrapsAreConsumed
<1>1. ASSUME IInv PROVE TrapsAreConsumed
  <2>1. ASSUME NEW w \in PduVars, Usable(w), NEW r \in SendTrapPdu(heap, pdu[w].ptr)
        PROVE  /\ pdu[w].ptr \notin r.heap.live
               /\ HasVariables(w) => ~Allocated(r.heap, heap.variables[pdu[w].ptr])
    <3>1. MemoryOK(heap) /\ NULL \notin heap.live
      BY <1>1, HeldSafe, HeapFields, BlocksAssumption
    <3>2. CASE pdu[w].ptr = NULL
      <4>1. r = Sent(heap, NULL, "invalid_argument")
        BY <2>1, <3>2 DEF SendTrapPdu
      <4> QED
        BY <3>1, <3>2, <4>1 DEF Sent, HasVariables
    <3>3. CASE pdu[w].ptr \in heap.live
      BY <2>1, <3>1, <3>3, SendTrapPduFrees DEF HasVariables
    <3> QED
      BY <2>1, <3>2, <3>3 DEF Usable
  <2>2. ASSUME NEW x \in VarlistVars, OwnedList(x), NEW r \in SendTrapList(heap, varlist[x])
        PROVE  ~Allocated(r.heap, varlist[x]) /\ r.list = NULL
    BY <1>1, <2>2, HeldSafe, OwnedLoose, SendTrapListFrees
  <2> QED
    BY <2>1, <2>2 DEF TrapsAreConsumed
<1> QED
  BY <1>1, Inductive, PTL
=============================================================================
