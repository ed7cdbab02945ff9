-------------------------- MODULE LifecycleProofs --------------------------
(***************************************************************************)
(* TLAPS proofs that SnmpClient implements BlockLifecycle.  The first part *)
(* is about what each function does to the heap on each of its paths, the  *)
(* second one about the steps of the client.                               *)
(***************************************************************************)
EXTENDS SnmpClientProofs

-----------------------------------------------------------------------------
(***************************************************************************)
(* What the functions of Requests do to the heap, on each of their paths.  *)
(* What a function has done at any point of a call is described relative   *)
(* to the heap the call started with, which is heap: Careful says which    *)
(* blocks it may have changed, Clean what it has allocated and not freed.  *)
(***************************************************************************)

NewPdus(g) == g.live \ heap.live
NewLists(g) == AllocatedLists(g) \ AllocatedLists(heap)

\* The PDUs of the client that are left have the lists they had, the lists that are freed are
\* those of PDUs that are freed, and new PDUs have new lists; no object points to either.
Careful(g) ==
  /\ \A p \in heap.live \cap g.live : g.variables[p] = heap.variables[p]
  /\ \A l \in AllocatedLists(heap) :
       l \notin AllocatedLists(g) <=> \E p \in heap.live \ g.live : heap.variables[p] = l
  /\ \A p \in NewPdus(g) :
       /\ \A w \in PduVars : pdu[w].ptr # p
       /\ g.variables[p] \notin AllocatedLists(heap)
       /\ g.variables[p] # NULL => \A x \in VarlistVars : varlist[x] # g.variables[p]

\* Nothing is new but q and its list.
Clean(g, q) ==
  /\ NewPdus(g) \subseteq {q}
  /\ \A l \in NewLists(g) : q \in g.live /\ g.variables[q] = l

-----------------------------------------------------------------------------
\* The heap of the state is where a call starts.
LEMMA CarefulStart ==
  ASSUME IInv
  PROVE  Careful(heap) /\ \A q : Clean(heap, q)
BY DEF Careful, Clean, NewPdus, NewLists

\* NULL is no block.
LEMMA NullIsNoBlock ==
  ASSUME NEW h, Safe(h)
  PROVE  NULL \notin h.live /\ NULL \notin Lists /\ h.live \subseteq Pdus
BY HeapFields, BlocksAssumption DEF Safe, MemoryOK

\* Freeing a PDU frees its list.
LEMMA FreePduLists ==
  ASSUME NEW h, MemoryOK(h), NEW p \in h.live
  PROVE  LET g == FreePdu(h, p)
         IN  /\ g.live = h.live \ {p}
             /\ g.variables = [h.variables EXCEPT ![p] = NULL]
             /\ AllocatedLists(g) = AllocatedLists(h) \ {h.variables[p]}
<1> DEFINE g == FreePdu(h, p)
<1>1. /\ g \in Heaps
      /\ g.live = h.live \ {p}
      /\ g.command = [h.command EXCEPT ![p] = "kInvalid"]
      /\ g.variables = [h.variables EXCEPT ![p] = NULL]
      /\ \A l \in Lists : g.chain[l] = IF l = h.variables[p] THEN <<>> ELSE h.chain[l]
      /\ g.misused = {}
  BY FreePduFields
<1> HIDE DEF g
<1>2. AllocatedLists(g) = AllocatedLists(h) \ {h.variables[p]}
  BY <1>1 DEF AllocatedLists
<1> QED
  BY <1>1, <1>2 DEF g

\* Freeing a PDU is careful, and leaves nothing of what was new with it.
LEMMA CarefulFree ==
  ASSUME IInv, NEW h, Safe(h), Careful(h), NEW p \in h.live \cup {NULL}
  PROVE  LET g == FreePdu(h, p)
         IN  /\ Careful(g)
             /\ g.live = h.live \ {p}
             /\ Clean(h, p) => Clean(g, NULL)
<1> DEFINE g == FreePdu(h, p)
<1>1. CASE p = NULL
  <2>1. g = h
    BY <1>1 DEF FreePdu
  <2>2. p \notin h.live
    BY <1>1, NullIsNoBlock
  <2> HIDE DEF g
  <2> QED
    BY <1>1, <2>1, <2>2 DEF g
<1>2. CASE p \in h.live
  <2>1. MemoryOK(h) /\ MemoryOK(heap)
    BY HeldSafe DEF Safe
  <2>2. /\ g.live = h.live \ {p}
        /\ g.variables = [h.variables EXCEPT ![p] = NULL]
        /\ AllocatedLists(g) = AllocatedLists(h) \ {h.variables[p]}
    BY <1>2, <2>1, FreePduLists
  <2>3. h.variables \in [Pdus -> Lists \cup {NULL}] /\ h.live \subseteq Pdus
        /\ heap.variables \in [Pdus -> Lists \cup {NULL}] /\ heap.live \subseteq Pdus
    BY <2>1, HeapFields DEF MemoryOK
  <2> HIDE DEF g
  <2>5. \A q \in g.live : g.variables[q] = h.variables[q]
    BY <2>2, <2>3
  <2>6. NewPdus(g) \subseteq NewPdus(h)
    BY <2>2 DEF NewPdus
  <2>7. ASSUME NEW l \in AllocatedLists(heap)
        PROVE  l \notin AllocatedLists(g) <=> \E q \in heap.live \ g.live : heap.variables[q] = l
    <3>1. CASE l = h.variables[p]
      <4>1. p \notin NewPdus(h)
        BY <2>7, <3>1 DEF Careful
      <4>2. p \in heap.live /\ heap.variables[p] = l
        BY <1>2, <3>1, <4>1 DEF NewPdus, Careful
      <4> QED
        BY <2>2, <3>1, <4>2
    <3>2. CASE l # h.variables[p]
      <4>1. l \notin AllocatedLists(g) <=> l \notin AllocatedLists(h)
        BY <2>2, <3>2
      <4>2. (\E q \in heap.live \ g.live : heap.variables[q] = l) <=> (\E q \in heap.live \ h.live : heap.variables[q] = l)
        BY <1>2, <2>2, <3>2 DEF Careful
      <4> QED
        BY <2>7, <4>1, <4>2 DEF Careful
    <3> QED
      BY <3>1, <3>2
  <2>8. Careful(g)
    <3>1. \A q \in heap.live \cap g.live : g.variables[q] = heap.variables[q]
      BY <2>2, <2>5 DEF Careful
    <3>2. \A q \in NewPdus(g) :
            /\ \A w \in PduVars : pdu[w].ptr # q
            /\ g.variables[q] \notin AllocatedLists(heap)
            /\ g.variables[q] # NULL => \A x \in VarlistVars : varlist[x] # g.variables[q]
      BY <2>5, <2>6 DEF Careful, NewPdus
    <3> QED
      BY <2>7, <3>1, <3>2 DEF Careful
  <2>9. Clean(h, p) => Clean(g, NULL)
    BY <2>2, <2>6 DEF Clean, NewLists, NewPdus
  <2> QED
    BY <2>2, <2>8, <2>9 DEF g
<1> QED
  BY <1>1, <1>2

\* Creating a PDU is careful.
LEMMA CarefulCreate ==
  ASSUME IInv, NEW h, Safe(h), Careful(h), NEW p \in FreshPdus(h), NEW t \in PduTypes
  PROVE  LET g == CreatePdu(h, p, t)
         IN  Careful(g) /\ p \in NewPdus(g) /\ (Clean(h, NULL) => Clean(g, p))
<1> DEFINE g == CreatePdu(h, p, t)
<1>1. p \in Pdus \ h.live /\ p # NULL /\ p \notin heap.live /\ \A w \in PduVars : pdu[w].ptr # p
  BY FreshPduFacts DEF FreshPdus
<1>2. h \in Heaps /\ MemoryOK(h)
  BY DEF Safe, MemoryOK
<1>3. g.live = h.live \cup {p} /\ g.variables = h.variables /\ g.chain = h.chain
  BY <1>1, <1>2, CreatePduFields
<1>4. h.variables[p] = NULL
  BY <1>1, <1>2 DEF MemoryOK
<1> HIDE DEF g
<1>5. AllocatedLists(g) = AllocatedLists(h)
  BY <1>3 DEF AllocatedLists
<1>6. NULL \notin AllocatedLists(heap) /\ NULL \notin h.live
  BY NullIsNoBlock DEF AllocatedLists
<1>7. NewPdus(g) = NewPdus(h) \cup {p}
  BY <1>1, <1>3 DEF NewPdus
<1>8. Careful(g)
  <2>1. \A q \in heap.live \cap g.live : g.variables[q] = heap.variables[q]
    BY <1>1, <1>3 DEF Careful
  <2>2. heap.live \ g.live = heap.live \ h.live
    BY <1>1, <1>3
  <2>3. \A l \in AllocatedLists(heap) :
          l \notin AllocatedLists(g) <=> \E q \in heap.live \ g.live : heap.variables[q] = l
    BY <1>5, <2>2 DEF Careful
  <2>4. \A q \in NewPdus(g) :
          /\ \A w \in PduVars : pdu[w].ptr # q
          /\ g.variables[q] \notin AllocatedLists(heap)
          /\ g.variables[q] # NULL => \A x \in VarlistVars : varlist[x] # g.variables[q]
    BY <1>1, <1>3, <1>4, <1>6, <1>7 DEF Careful
  <2> QED
    BY <2>1, <2>3, <2>4 DEF Careful
<1>9. Clean(h, NULL) => Clean(g, p)
  BY <1>3, <1>5, <1>6, <1>7 DEF Clean, NewLists, NewPdus
<1> QED
  BY <1>7, <1>8, <1>9 DEF g

\* What is fresh was not allocated when the call started, and no object points to it.
LEMMA FreshListIsNew ==
  ASSUME NEW h, NEW l \in FreshLists(h)
  PROVE  /\ l \in Lists \ AllocatedLists(heap) /\ h.chain[l] = <<>>
         /\ \A x \in VarlistVars : varlist[x] # l
BY DEF FreshLists, AllocatedLists

\* A fresh list may be created,
LEMMA CarefulNewList ==
  ASSUME IInv, NEW h, Safe(h), Careful(h), NEW l \in FreshLists(h), NEW s \in Seq(Oids), s # <<>>
  PROVE  LET g == NewList(h, l, s)
         IN  /\ Careful(g)
             /\ g.live = h.live /\ g.variables = h.variables
             /\ AllocatedLists(g) = AllocatedLists(h) \cup {l}
<1> DEFINE g == NewList(h, l, s)
<1>1. l \in Lists \ AllocatedLists(heap) /\ h \in Heaps /\ h.chain \in [Lists -> Seq(Oids)]
  BY FreshListIsNew, HeapFields DEF Safe, MemoryOK
<1>2. g.live = h.live /\ g.variables = h.variables /\ g.chain = [h.chain EXCEPT ![l] = s]
  BY <1>1, NewListFields
<1> HIDE DEF g
<1>3. AllocatedLists(g) = AllocatedLists(h) \cup {l}
  BY <1>1, <1>2 DEF AllocatedLists
<1>4. Careful(g)
  BY <1>1, <1>2, <1>3 DEF Careful, NewPdus
<1> QED
  BY <1>2, <1>3, <1>4 DEF g

\* and given to a PDU without a list that was created in the same call.
LEMMA CarefulFill ==
  ASSUME IInv, NEW h, Safe(h), Careful(h), NEW p \in NewPdus(h), h.variables[p] = NULL,
         NEW l \in FreshLists(h), NEW s \in Seq(Oids), s # <<>>
  PROVE  LET g == PointTo(NewList(h, l, s), p, l)
         IN  Careful(g) /\ g.live = h.live /\ (Clean(h, p) => Clean(g, p))
<1> DEFINE n == NewList(h, l, s)
           g == PointTo(n, p, l)
<1>1. /\ Careful(n)
      /\ n.live = h.live /\ n.variables = h.variables
      /\ AllocatedLists(n) = AllocatedLists(h) \cup {l}
  BY CarefulNewList
<1>2. /\ l \in Lists \ AllocatedLists(heap) /\ h.chain[l] = <<>>
      /\ \A x \in VarlistVars : varlist[x] # l
  BY FreshListIsNew
<1>3. MemoryOK(n)
  BY <1>2, NewListOK DEF Safe
<1>4. n \in Heaps /\ n.variables \in [Pdus -> Lists \cup {NULL}] /\ n.live \subseteq Pdus
  BY <1>3, HeapFields DEF MemoryOK
<1> HIDE DEF n
<1>5. p \in n.live /\ p \notin heap.live
  BY <1>1 DEF NewPdus
<1>6. g.live = n.live /\ g.variables = [n.variables EXCEPT ![p] = l] /\ g.chain = n.chain
  BY <1>2, <1>4, <1>5, PointToFields
<1> HIDE DEF g
<1>7. AllocatedLists(g) = AllocatedLists(n) /\ NewPdus(g) = NewPdus(n)
  BY <1>6 DEF AllocatedLists, NewPdus
<1>8. g.variables[p] = l /\ \A q \in n.live \ {p} : g.variables[q] = n.variables[q]
  BY <1>4, <1>5, <1>6
<1>9. Careful(g)
  <2>1. \A q \in heap.live \cap g.live : g.variables[q] = heap.variables[q]
    BY <1>1, <1>5, <1>6, <1>8 DEF Careful
  <2>2. \A k \in AllocatedLists(heap) :
          k \notin AllocatedLists(g) <=> \E q \in heap.live \ g.live : heap.variables[q] = k
    BY <1>1, <1>6, <1>7 DEF Careful
  <2>3. \A q \in NewPdus(g) :
          /\ \A w \in PduVars : pdu[w].ptr # q
          /\ g.variables[q] \notin AllocatedLists(heap)
          /\ g.variables[q] # NULL => \A x \in VarlistVars : varlist[x] # g.variables[q]
    BY <1>1, <1>2, <1>7, <1>8 DEF Careful, NewPdus
  <2> QED
    BY <2>1, <2>2, <2>3 DEF Careful
<1>10. Clean(h, p) => Clean(g, p)
  <2>1. NULL \notin Lists
    BY BlocksAssumption
  <2>2. Clean(h, p) => NewLists(h) = {}
    BY <2>1 DEF Clean, NewLists, AllocatedLists
  <2>3. NewLists(g) \subseteq NewLists(h) \cup {l}
    BY <1>1, <1>7 DEF NewLists
  <2>4. NewPdus(g) = NewPdus(h) /\ p \in g.live
    BY <1>1, <1>5, <1>6, <1>7 DEF NewPdus
  <2> QED
    BY <1>8, <2>2, <2>3, <2>4 DEF Clean
<1> QED
  BY <1>1, <1>6, <1>9, <1>10 DEF g, n

\* A PDU and its list, created together.
LEMMA CarefulCreateFilled ==
  ASSUME IInv, NEW h, Safe(h), Careful(h), NEW q \in FreshPdus(h), NEW t \in PduTypes,
         NEW l \in FreshLists(h), NEW s \in Seq(Oids)
  PROVE  LET f == CreateFilled(h, q, t, l, s)
         IN  /\ Careful(f) /\ q \in NewPdus(f) /\ f.live = h.live \cup {q}
             /\ Clean(h, NULL) => Clean(f, q)
<1> DEFINE c == CreatePdu(h, q, t)
           f == CreateFilled(h, q, t, l, s)
<1>1. Safe(c) /\ c.live = h.live \cup {q} /\ c.variables[q] = NULL /\ c.chain = h.chain
  BY CreatePduSafe
<1>2. Careful(c) /\ q \in NewPdus(c) /\ (Clean(h, NULL) => Clean(c, q))
  BY CarefulCreate
<1>3. Careful(f) /\ f.live = c.live /\ (Clean(c, q) => Clean(f, q))
  <2>1. CASE s = <<>>
    BY <1>2, <2>1 DEF CreateFilled
  <2>2. CASE s # <<>>
    <3>1. f = PointTo(NewList(c, l, s), q, l)
      BY <2>2 DEF CreateFilled
    <3>2. l \in FreshLists(c)
      BY <1>1 DEF FreshLists, AllocatedLists
    <3> HIDE DEF c, f
    <3>3. LET k == PointTo(NewList(c, l, s), q, l)
          IN  Careful(k) /\ k.live = c.live /\ (Clean(c, q) => Clean(k, q))
      BY <1>1, <1>2, <2>2, <3>2, CarefulFill
    <3> QED
      BY <3>1, <3>3
  <2> QED
    BY <2>1, <2>2
<1> HIDE DEF c, f
<1>4. q \in NewPdus(f)
  BY <1>2, <1>3 DEF NewPdus
<1> QED
  BY <1>1, <1>2, <1>3, <1>4 DEF f

-----------------------------------------------------------------------------
\* The response is careful, and all that is new when the request was.
LEMMA AnswersCareful ==
  ASSUME IInv, NEW h, Safe(h), Careful(h), NEW p \in h.live \cup {NULL}, NEW a \in Answers(h, p)
  PROVE  /\ Careful(a.heap)
         /\ heap.live \cap a.heap.live = heap.live \cap (h.live \ {p})
         /\ a.response \in NewPdus(a.heap)
         /\ Clean(h, p) => Clean(a.heap, a.response)
<1> DEFINE g == FreePdu(h, p)
<1>1. PICK q \in FreshPdus(g), l \in FreshLists(g), s \in Chains \cup {<<>>} :
        a = [heap |-> CreateFilled(g, q, "kResponse", l, s), response |-> q]
  BY DEF Answers
<1>2. Safe(g) /\ g.live = h.live \ {p}
  BY FreePduSafe
<1>3. Careful(g) /\ (Clean(h, p) => Clean(g, NULL))
  BY CarefulFree
<1>4. s \in Seq(Oids)
  <2>1. \A c \in BoundedSeq(Oids, MaxVars) : c \in Seq(Oids)
    BY BoundedSeqType
  <2>2. s \in BoundedSeq(Oids, MaxVars) \/ s = <<>>
    BY DEF Chains
  <2>3. <<>> \in Seq(Oids)
    OBVIOUS
  <2> QED
    BY <2>1, <2>2, <2>3
<1>5. "kResponse" \in PduTypes
  BY DEF PduTypes
<1> DEFINE f == CreateFilled(g, q, "kResponse", l, s)
<1>6. a.heap = f /\ a.response = q
  BY <1>1
<1> HIDE DEF g
<1>7. Careful(f) /\ q \in NewPdus(f) /\ f.live = g.live \cup {q} /\ (Clean(g, NULL) => Clean(f, q))
  BY <1>2, <1>3, <1>4, <1>5, CarefulCreateFilled
<1> HIDE DEF f
<1>8. heap.live \cap f.live = heap.live \cap (h.live \ {p})
  BY <1>2, <1>7 DEF NewPdus
<1> QED
  BY <1>3, <1>6, <1>7, <1>8

\* How sync ends: its request is freed and out of the caller's object.
LEMMA SyncCareful ==
  ASSUME IInv, NEW h, Safe(h), Careful(h), NEW req, req.ptr \in h.live \cup {NULL},
         NEW hasSession, NEW r \in Sync(h, req, hasSession)
  PROVE  /\ Careful(r.heap)
         /\ heap.live \cap r.heap.live = heap.live \cap (h.live \ {req.ptr})
         /\ r.response \in {NULL} \cup NewPdus(r.heap)
         /\ r.request.ptr = NULL
         /\ r.exc = "none" /\ Clean(h, req.ptr) => Clean(r.heap, r.response)
<1> DEFINE p == req.ptr
           answers == Answers(h, p)
           f == FreePdu(h, p)
<1>1. Careful(f) /\ f.live = h.live \ {p}
  BY CarefulFree
<1>2. NoPdu.ptr = NULL /\ NULL \notin h.live
  BY NullIsNoBlock DEF NoPdu
<1>3. CASE p = NULL
  <2>1. r = Ended(h, req, NULL, "invalid_argument")
    BY <1>3 DEF Sync
  <2> QED
    BY <1>2, <1>3, <2>1 DEF Ended
<1>4. CASE \E e \in {"invalid_argument", "runtime_error"} : r = Ended(f, NoPdu, NULL, e)
  <2> HIDE DEF f
  <2> QED
    BY <1>1, <1>2, <1>4 DEF Ended
<1>5. CASE \E a \in answers : \/ r = Ended(FreePdu(a.heap, a.response), NoPdu, NULL, "runtime_error")
                              \/ r = Ended(a.heap, NoPdu, a.response, "none")
  <2>1. PICK a \in answers : \/ r = Ended(FreePdu(a.heap, a.response), NoPdu, NULL, "runtime_error")
                             \/ r = Ended(a.heap, NoPdu, a.response, "none")
    BY <1>5
  <2>2. Safe(a.heap) /\ a.response \in a.heap.live
    BY AnswersOK
  <2>3. /\ Careful(a.heap)
        /\ heap.live \cap a.heap.live = heap.live \cap (h.live \ {p})
        /\ a.response \in NewPdus(a.heap)
        /\ Clean(h, p) => Clean(a.heap, a.response)
    BY AnswersCareful
  <2> DEFINE g == FreePdu(a.heap, a.response)
  <2>4. Careful(g) /\ g.live = a.heap.live \ {a.response}
    BY <2>2, <2>3, CarefulFree
  <2> HIDE DEF g
  <2>5. CASE r = Ended(g, NoPdu, NULL, "runtime_error")
    <3>1. heap.live \cap g.live = heap.live \cap a.heap.live
      BY <2>3, <2>4 DEF NewPdus
    <3> QED
      BY <1>2, <2>3, <2>4, <2>5, <3>1 DEF Ended
  <2>6. CASE r = Ended(a.heap, NoPdu, a.response, "none")
    BY <1>2, <2>3, <2>6 DEF Ended
  <2> QED
    BY <2>1, <2>5, <2>6 DEF g
<1> QED
  BY <1>3, <1>4, <1>5 DEF Sync, NoAnswer

\* The variables of a PDU that was created in the same call.
LEMMA AddCareful ==
  ASSUME IInv, NEW h, Safe(h), Careful(h), NEW p \in NewPdus(h), h.variables[p] = NULL,
         NEW s \in Seq(OidArgs), NEW a \in AddEach(h, p, s) \cup PduAdd(h, p, s)
  PROVE  /\ Careful(a.heap)
         /\ a.heap.live = h.live
         /\ a.exc = "none" /\ Clean(h, p) => Clean(a.heap, p)
<1> DEFINE Filled(l, t) == PointTo(NewList(h, l, t), p, l)
<1>1. h \in Heaps /\ p \in h.live /\ p # NULL /\ p \in Pdus /\ NULL \notin Lists
  BY NullIsNoBlock DEF Safe, MemoryOK, NewPdus
<1>2. Deref(h, p) = h
  BY <1>1, DerefLive
<1>3. ASSUME NEW t \in Seq(Oids), t # <<>>, NEW l \in FreshLists(h)
      PROVE  /\ Careful(Filled(l, t))
             /\ Filled(l, t).live = h.live
             /\ Clean(h, p) => Clean(Filled(l, t), p)
  BY <1>3, CarefulFill
<1>4. ASSUME NEW t \in Seq(Oids), t # <<>>, NEW l \in FreshLists(h)
      PROVE  /\ Careful(NewList(h, l, t))
             /\ NewList(h, l, t).live = h.live /\ NewList(h, l, t).variables = h.variables
             /\ NewList(h, l, t) \in Heaps
  <2>1. NewList(h, l, t) \in Heaps
    BY <1>1, <1>4, FreshListIsNew, NewListFields
  <2> QED
    BY <1>4, <2>1, CarefulNewList
<1>5. CASE \E e : a = [heap |-> h, exc |-> e]
  BY <1>5
<1>6. CASE \E t \in Seq(Oids), l \in FreshLists(h) : \E e : t # <<>> /\ a = [heap |-> Filled(l, t), exc |-> e]
  <2>1. PICK t \in Seq(Oids), l \in FreshLists(h) : \E e : t # <<>> /\ a = [heap |-> Filled(l, t), exc |-> e]
    BY <1>6
  <2>2. a.heap = Filled(l, t)
    BY <2>1
  <2> HIDE DEF Filled
  <2> QED
    BY <1>3, <2>1, <2>2
<1>7. CASE \E t \in Seq(Oids), l \in FreshLists(h) : \E e :
             t # <<>> /\ e # "none" /\ a = [heap |-> NewList(h, l, t), exc |-> e]
  <2>1. PICK t \in Seq(Oids), l \in FreshLists(h) : \E e :
             t # <<>> /\ e # "none" /\ a = [heap |-> NewList(h, l, t), exc |-> e]
    BY <1>7
  <2> QED
    BY <1>4, <2>1
<1>8. CASE a \in AddEach(h, p, s)
  <2>1. PICK r \in AddLoop(s) :
          a \in IF r.added = <<>> THEN {[heap |-> h, exc |-> r.exc]}
                ELSE {[heap |-> PointTo(NewList(h, l, r.added), p, l), exc |-> r.exc] : l \in FreshLists(h)}
    BY <1>8 DEF AddEach
  <2>2. r.added \in Seq(Oids)
    BY AddLoopType
  <2>3. CASE r.added = <<>>
    BY <1>5, <2>1, <2>3
  <2>4. CASE r.added # <<>>
    BY <1>6, <2>1, <2>2, <2>4
  <2> QED
    BY <2>3, <2>4
<1>9. CASE a \in PduAdd(h, p, s)
  <2>1. PICK v \in VarlistAdd(h, NULL, s) :
          a = [heap |-> IF v.exc = "none" THEN SetVariables(v.heap, p, v.list) ELSE v.heap, exc |-> v.exc]
    BY <1>1, <1>2, <1>9 DEF PduAdd
  <2>2. PICK r \in AddLoop(s) :
          v \in IF r.added = <<>> THEN {[heap |-> h, list |-> NULL, exc |-> r.exc]}
                ELSE {[heap |-> NewList(h, n, r.added), list |-> n, exc |-> r.exc] : n \in FreshLists(h)}
    BY <2>1 DEF VarlistAdd
  <2>3. r.added \in Seq(Oids)
    BY AddLoopType
  <2>4. CASE r.added = <<>>
    <3>1. v = [heap |-> h, list |-> NULL, exc |-> r.exc]
      BY <2>2, <2>4
    <3>2. SetVariables(h, p, NULL) = h
      BY <1>2 DEF SetVariables
    <3> QED
      BY <1>5, <2>1, <3>1, <3>2
  <2>5. CASE r.added # <<>>
    <3>1. PICK n \in FreshLists(h) : v = [heap |-> NewList(h, n, r.added), list |-> n, exc |-> r.exc]
      BY <2>2, <2>5
    <3>2. n # NULL
      BY <1>1 DEF FreshLists
    <3> DEFINE k == NewList(h, n, r.added)
    <3>3. k.variables[p] = NULL
      BY <1>4, <2>3, <2>5
    <3> HIDE DEF k
    <3>4. SetVariables(k, p, n) = PointTo(k, p, n)
      BY <3>2, <3>3 DEF SetVariables, FreeVarbind
    <3>5. v.heap = k /\ v.list = n
      BY <3>1 DEF k
    <3>6. CASE v.exc = "none"
      <4>1. a = [heap |-> Filled(n, r.added), exc |-> v.exc]
        BY <2>1, <3>4, <3>5, <3>6 DEF k
      <4> QED
        BY <1>6, <2>3, <2>5, <4>1
    <3>7. CASE v.exc # "none"
      <4>1. a = [heap |-> NewList(h, n, r.added), exc |-> v.exc]
        BY <2>1, <3>5, <3>7 DEF k
      <4> QED
        BY <1>7, <2>3, <2>5, <3>7, <4>1
    <3> QED
      BY <3>6, <3>7
  <2> QED
    BY <2>4, <2>5
<1> QED
  BY <1>8, <1>9

\* How a function ends that builds its request from the heap h of the call on.
Own(h, r) ==
  /\ Careful(r.heap)
  /\ heap.live \cap r.heap.live = heap.live \cap h.live
  /\ r.response \in {NULL} \cup NewPdus(r.heap)
  /\ r.request.ptr \in {NULL} \cup NewPdus(r.heap)
  /\ r.exc = "none" /\ Clean(h, NULL) => Clean(r.heap, r.response)

\* What is new when a request is built is the request.
LEMMA BuildRequestCareful ==
  ASSUME IInv, NEW h, Safe(h), Careful(h), NEW t \in PduTypes, NEW s \in Seq(OidArgs), NEW inTurn,
         NEW b \in BuildRequest(h, t, s, inTurn)
  PROVE  /\ Careful(b.heap)
         /\ heap.live \cap b.heap.live = heap.live \cap h.live
         /\ b.response = NULL
         /\ b.request.ptr \in {NULL} \cup NewPdus(b.heap)
         /\ b.exc = "none" /\ Clean(h, NULL) => Clean(b.heap, b.request.ptr)
<1>1. CASE b = Ended(h, NoPdu, NULL, "runtime_error")
  BY <1>1 DEF Ended, NoPdu
<1>2. CASE \E p \in FreshPdus(h) :
             LET g == CreatePdu(h, p, t)
             IN  b \in {Ended(a.heap, [ptr |-> p, type |-> t], NULL, a.exc) :
                          a \in IF inTurn THEN AddEach(g, p, s) ELSE PduAdd(g, p, s)}
  <2>1. PICK p \in FreshPdus(h) :
             LET g == CreatePdu(h, p, t)
             IN  b \in {Ended(a.heap, [ptr |-> p, type |-> t], NULL, a.exc) :
                          a \in IF inTurn THEN AddEach(g, p, s) ELSE PduAdd(g, p, s)}
    BY <1>2
  <2> DEFINE g == CreatePdu(h, p, t)
  <2>2. PICK a \in IF inTurn THEN AddEach(g, p, s) ELSE PduAdd(g, p, s) :
          b = Ended(a.heap, [ptr |-> p, type |-> t], NULL, a.exc)
    BY <2>1
  <2>3. Safe(g) /\ g.live = h.live \cup {p} /\ g.variables[p] = NULL
    BY CreatePduSafe
  <2>4. Careful(g) /\ p \in NewPdus(g) /\ (Clean(h, NULL) => Clean(g, p))
    BY CarefulCreate
  <2>5. a \in AddEach(g, p, s) \cup PduAdd(g, p, s)
    BY <2>2
  <2> HIDE DEF g
  <2>6. /\ Careful(a.heap)
        /\ a.heap.live = g.live
        /\ a.exc = "none" /\ Clean(g, p) => Clean(a.heap, p)
    BY <2>3, <2>4, <2>5, AddCareful
  <2>7. b.heap = a.heap /\ b.request.ptr = p /\ b.response = NULL /\ b.exc = a.exc
    BY <2>2 DEF Ended
  <2>8. p \in NewPdus(a.heap) /\ heap.live \cap a.heap.live = heap.live \cap h.live
    BY <2>3, <2>4, <2>6 DEF NewPdus
  <2> QED
    BY <2>4, <2>6, <2>7, <2>8
<1> QED
  BY <1>1, <1>2 DEF BuildRequest

\* What is new when a request was built and sent is the response.
LEMMA BuildAndSyncCareful ==
  ASSUME IInv, NEW h, Safe(h), Careful(h), NEW t \in PduTypes, NEW s \in Seq(OidArgs),
         NEW inTurn, NEW hasSession, NEW r \in BuildAndSync(h, t, s, inTurn, hasSession)
  PROVE  Own(h, r)
<1>1. PICK b \in BuildRequest(h, t, s, inTurn) :
        r \in IF b.exc # "none" THEN {b} ELSE Sync(b.heap, b.request, hasSession)
  BY DEF BuildAndSync
<1>2. Outcome(b) /\ b.request.ptr \in b.heap.live \cup {NULL}
  BY BuildRequestOK
<1>3. Safe(b.heap)
  BY <1>2 DEF Outcome
<1>4. /\ Careful(b.heap)
      /\ heap.live \cap b.heap.live = heap.live \cap h.live
      /\ b.response = NULL
      /\ b.request.ptr \in {NULL} \cup NewPdus(b.heap)
      /\ b.exc = "none" /\ Clean(h, NULL) => Clean(b.heap, b.request.ptr)
  BY BuildRequestCareful
<1>5. CASE b.exc # "none"
  BY <1>1, <1>4, <1>5 DEF Own
<1>6. CASE b.exc = "none"
  <2>1. r \in Sync(b.heap, b.request, hasSession)
    BY <1>1, <1>6
  <2>2. /\ Careful(r.heap)
        /\ heap.live \cap r.heap.live = heap.live \cap (b.heap.live \ {b.request.ptr})
        /\ r.response \in {NULL} \cup NewPdus(r.heap)
        /\ r.request.ptr = NULL
        /\ r.exc = "none" /\ Clean(b.heap, b.request.ptr) => Clean(r.heap, r.response)
    BY <1>2, <1>3, <1>4, <2>1, SyncCareful
  <2>3. b.request.ptr \notin heap.live
    BY <1>4, HeldSafe, NullIsNoBlock DEF NewPdus
  <2> QED
    BY <1>4, <1>6, <2>2, <2>3 DEF Own
<1> QED
  BY <1>5, <1>6

\* The same for a request for one OID.
LEMMA SendOidCareful ==
  ASSUME IInv, NEW h, Safe(h), Careful(h), NEW t \in PduTypes, NEW o \in OidArgs,
         NEW hasSession, NEW r \in SendOid(h, t, o, hasSession)
  PROVE  Own(h, r)
<1>1. CASE o = NoOid
  <2>1. r = Ended(h, NoPdu, NULL, "invalid_argument")
    BY <1>1 DEF SendOid
  <2> QED
    BY <2>1 DEF Own, Ended, NoPdu
<1>2. CASE o # NoOid
  <2>1. <<o>> \in Seq(OidArgs)
    OBVIOUS
  <2>2. r \in BuildAndSync(h, t, <<o>>, TRUE, hasSession)
    BY <1>2 DEF SendOid
  <2> QED
    BY <2>1, <2>2, BuildAndSyncCareful
<1> QED
  BY <1>1, <1>2

\* How a function ends that was given the request p of the client.
Ends(r, p) ==
  /\ Careful(r.heap)
  /\ heap.live \ r.heap.live \subseteq {p}
  /\ r.response \in {NULL} \cup NewPdus(r.heap)
  /\ r.request.ptr \in {NULL, p} \cup NewPdus(r.heap)
  /\ p \in heap.live \cap r.heap.live => r.request.ptr = p /\ r.exc # "none"
  /\ r.exc = "none" => Clean(r.heap, r.response)

\* sync ends so.
LEMMA SyncEnds ==
  ASSUME IInv, NEW req, req.ptr \in heap.live \cup {NULL}, NEW hasSession, NEW r \in Sync(heap, req, hasSession)
  PROVE  Ends(r, req.ptr)
<1>1. Safe(heap) /\ Careful(heap) /\ Clean(heap, req.ptr)
  BY HeldSafe, CarefulStart
<1>2. /\ Careful(r.heap)
      /\ heap.live \cap r.heap.live = heap.live \cap (heap.live \ {req.ptr})
      /\ r.response \in {NULL} \cup NewPdus(r.heap)
      /\ r.request.ptr = NULL
      /\ r.exc = "none" /\ Clean(heap, req.ptr) => Clean(r.heap, r.response)
  BY <1>1, SyncCareful
<1> QED
  BY <1>1, <1>2 DEF Ends

\* So does a function that does nothing but throw,
LEMMA ThrowEnds ==
  ASSUME IInv, NEW req, NEW e, e # "none"
  PROVE  Ends(Ended(heap, req, NULL, e), req.ptr)
BY CarefulStart DEF Ends, Ended

\* one that frees the request and sends another,
LEMMA ReplaceEnds ==
  ASSUME IInv, NEW p \in heap.live, NEW r, Own(FreePdu(heap, p), r)
  PROVE  Ends(r, p)
<1> DEFINE g == FreePdu(heap, p)
<1>1. Careful(g) /\ g.live = heap.live \ {p} /\ (Clean(heap, p) => Clean(g, NULL))
  BY HeldSafe, CarefulStart, CarefulFree
<1>2. Clean(heap, p)
  BY CarefulStart
<1> HIDE DEF g
<1>3. Own(g, r)
  BY DEF g
<1> QED
  BY <1>1, <1>2, <1>3 DEF Own, Ends

\* getNext, whether or not it replaces the request,
LEMMA GetNextEnds ==
  ASSUME IInv, NEW req, Agrees(heap, req), req.ptr \in heap.live \cup {NULL},
         NEW hasSession, NEW r \in GetNext(heap, req, hasSession)
  PROVE  Ends(r, req.ptr)
<1> DEFINE p == req.ptr
           l == heap.variables[p]
<1>1. CASE p = NULL \/ l = NULL
  <2>1. r = Ended(heap, req, NULL, "invalid_argument")
    BY <1>1 DEF GetNext
  <2> QED
    BY <2>1, ThrowEnds
<1>2. CASE p \in heap.live /\ p # NULL /\ l # NULL
  <2>1. heap \in Heaps /\ heap.chain \in [Lists -> Seq(Oids)] /\ p \in Pdus
        /\ heap.variables \in [Pdus -> Lists \cup {NULL}]
    BY <1>2, HeldSafe, HeapFields
  <2>2. Deref(heap, p) = heap
    BY <1>2, <2>1, DerefLive
  <2>3. CASE req.type = "kGetNext"
    <3>1. r \in Sync(heap, req, hasSession)
      BY <1>2, <2>2, <2>3 DEF GetNext
    <3> QED
      BY <3>1, SyncEnds
  <2>4. CASE req.type # "kGetNext"
    <3> DEFINE g == FreePdu(heap, p)
               o == Last(heap.chain[l])
    <3>1. \E x \in SendOid(g, "kGetNext", o, hasSession) : r = Ended(x.heap, NoPdu, x.response, x.exc)
      BY <1>2, <2>2, <2>4 DEF GetNext
    <3>2. PICK x \in SendOid(g, "kGetNext", o, hasSession) : r = Ended(x.heap, NoPdu, x.response, x.exc)
      BY <3>1
    <3>3. Safe(g) /\ Careful(g)
      BY <1>2, HeldSafe, CarefulStart, FreePduSafe, CarefulFree
    <3>4. heap.chain[l] \in Seq(Oids) /\ heap.chain[l] # <<>>
      BY <1>2, <2>1, HeldSafe DEF MemoryOK
    <3>5. o \in OidArgs
      BY <3>4 DEF Last, OidArgs
    <3> HIDE DEF g, o
    <3>6. Own(g, x)
      BY <3>3, <3>5, SendOidCareful DEF PduTypes
    <3>7. Own(g, r)
      BY <3>2, <3>6 DEF Own, Ended, NoPdu
    <3> QED
      BY <1>2, <3>7, ReplaceEnds DEF g
  <2> QED
    BY <2>3, <2>4
<1> QED
  BY <1>1, <1>2

\* and getBulk.
LEMMA GetBulkEnds ==
  ASSUME IInv, NEW req, Agrees(heap, req), req.ptr \in heap.live \cup {NULL},
         NEW hasSession, NEW r \in GetBulk(heap, req, hasSession)
  PROVE  Ends(r, req.ptr)
<1> DEFINE p == req.ptr
           l == heap.variables[p]
<1>1. CASE p = NULL
  <2>1. r = Ended(heap, req, NULL, "invalid_argument")
    BY <1>1 DEF GetBulk
  <2> QED
    BY <2>1, ThrowEnds
<1>2. CASE p \in heap.live /\ p # NULL
  <2>1. heap \in Heaps /\ heap.chain \in [Lists -> Seq(Oids)] /\ p \in Pdus
        /\ heap.variables \in [Pdus -> Lists \cup {NULL}]
    BY <1>2, HeldSafe, HeapFields
  <2>2. Deref(heap, p) = heap
    BY <1>2, <2>1, DerefLive
  <2>3. CASE req.type = "kGetBulk"
    <3>1. r \in Sync(heap, req, hasSession)
      BY <1>2, <2>2, <2>3 DEF GetBulk
    <3> QED
      BY <3>1, SyncEnds
  <2>4. CASE req.type # "kGetBulk" /\ l = NULL
    <3>1. r = Ended(heap, req, NULL, "logic_error")
      BY <1>2, <2>2, <2>4 DEF GetBulk
    <3> QED
      BY <3>1, ThrowEnds
  <2>5. CASE req.type # "kGetBulk" /\ l # NULL
    <3> DEFINE g == FreePdu(heap, p)
               S == Range(heap.chain[l])
    <3>1. PICK s \in InOrder(S) : r \in BuildAndSync(g, "kGetBulk", s, FALSE, hasSession)
      BY <1>2, <2>2, <2>5 DEF GetBulk
    <3>2. Safe(g) /\ Careful(g)
      BY <1>2, HeldSafe, CarefulStart, FreePduSafe, CarefulFree
    <3>3. S \subseteq OidArgs
      BY <2>1, <2>5 DEF Range, OidArgs
    <3> HIDE DEF g, S
    <3>4. "kGetBulk" \in PduTypes /\ s \in Seq(OidArgs)
      BY <3>1, <3>3, OidSeqs DEF PduTypes
    <3>5. Own(g, r)
      BY <3>1, <3>2, <3>4, BuildAndSyncCareful
    <3> QED
      BY <1>2, <3>5, ReplaceEnds DEF g
  <2> QED
    BY <2>3, <2>4, <2>5
<1> QED
  BY <1>1, <1>2

-----------------------------------------------------------------------------
(***************************************************************************)
(* That SnmpClient implements BlockLifecycle, for every value of the       *)
(* constants: no call loses a block the client could reach before it, one  *)
(* that returns loses nothing at all, and what was lost is never touched.  *)
(*                                                                         *)
(* The argument needs one more invariant, NoStray: no Varlist object       *)
(* points to the list of a PDU that was lost; otherwise that list would be *)
(* lost when the object is cleared.                                        *)
(***************************************************************************)

LostPdus == heap.live \ HeldPdus
LostLists == AllocatedLists(heap) \ HeldLists

\* No object points into a lost PDU.
NoStray ==
  \A p \in LostPdus, x \in VarlistVars : heap.variables[p] # NULL => varlist[x] # heap.variables[p]

LInv == IInv /\ NoStray

-----------------------------------------------------------------------------
\* A step of the client is one of BlockLifecycle if it is one for PDUs and one for lists.
LEMMA CallFromParts ==
  ASSUME IInv, IInv',
         LostPdus \subseteq LostPdus', LostLists \subseteq LostLists',
         HeldPdus \cap LostPdus' = {}, HeldLists \cap LostLists' = {},
         exc' = "none" => LostPdus' \subseteq LostPdus /\ LostLists' \subseteq LostLists
  PROVE  Lifecycle!Call
<1>1. heap.live \subseteq Pdus /\ (heap.live \subseteq Pdus)'
  BY HeapFields DEF IInv, TypeOK
<1>2. /\ LostPdus \subseteq Pdus /\ HeldPdus \subseteq Pdus
      /\ LostLists \subseteq Lists /\ HeldLists \subseteq Lists
  BY <1>1 DEF LostPdus, HeldPdus, LostLists, HeldLists, AllocatedLists
<1>3. /\ LostPdus' \subseteq Pdus /\ HeldPdus' \subseteq Pdus
      /\ LostLists' \subseteq Lists /\ HeldLists' \subseteq Lists
  BY <1>1 DEF LostPdus, HeldPdus, LostLists, HeldLists, AllocatedLists
<1>4. HeldPdus' \cap LostPdus' = {} /\ HeldLists' \cap LostLists' = {}
  BY DEF LostPdus, LostLists
<1>5. Lifecycle!Call <=>
        /\ (HeldPdus \cup HeldLists)' \in SUBSET (Pdus \cup Lists)
        /\ (LostPdus \cup LostLists)' \in SUBSET (Pdus \cup Lists)
        /\ (exc # "none")' \in BOOLEAN
        /\ (LostPdus \cup LostLists) \subseteq (LostPdus \cup LostLists)'
        /\ (LostPdus \cup LostLists)' \cap ((HeldPdus \cup HeldLists) \cup (HeldPdus \cup HeldLists)') = {}
        /\ (LostPdus \cup LostLists)' # (LostPdus \cup LostLists) => (exc # "none")'
  BY DEF Lifecycle!Call, LostPdus, LostLists
<1> QED
  BY <1>2, <1>3, <1>4, <1>5, BlocksAssumption

\* A call that changes PDUs and PDU objects, and no Varlist object.
LEMMA PduCall ==
  ASSUME LInv, IInv', NEW h, heap' = h, Careful(h), varlist' = varlist,
         heap.live \ h.live \subseteq HeldPdus,
         \A w \in PduVars : pdu'[w].ptr \in heap.live => pdu'[w].ptr \in HeldPdus,
         HeldPdus \cap h.live \subseteq HeldPdus',
         exc' = "none" => /\ NewPdus(h) \subseteq HeldPdus'
                          /\ \A l \in NewLists(h) : \E p \in HeldPdus' : h.variables[p] = l
  PROVE  Lifecycle!Call /\ NoStray'
<1>1. /\ HeldPdus' = {pdu'[w].ptr : w \in PduVars} \cap h.live
      /\ LostPdus' = h.live \ HeldPdus'
      /\ LostLists' = AllocatedLists(h) \ HeldLists'
      /\ HeldLists' = AllocatedLists(h) \cap
                        ({varlist[x] : x \in VarlistVars} \cup {h.variables[p] : p \in HeldPdus'})
  BY DEF HeldPdus, LostPdus, HeldLists, LostLists
<1> DEFINE HP == HeldPdus'
           HL == HeldLists'
           LP == LostPdus'
           LL == LostLists'
<1> HIDE DEF HP, HL, LP, LL
<1>2. HP \cap heap.live \subseteq HeldPdus
  BY <1>1 DEF HP
<1>3. LostPdus \subseteq LP
  BY <1>1, <1>2 DEF HP, LP, LostPdus
<1>4. HeldPdus \cap LP = {}
  BY <1>1 DEF HP, LP
<1>5. ASSUME NEW l \in AllocatedLists(heap), NEW p \in HP, h.variables[p] = l
      PROVE  p \in HeldPdus /\ heap.variables[p] = l
  <2>1. p \in h.live
    BY <1>1, <1>5 DEF HP
  <2>2. p \in heap.live
    BY <1>5, <2>1 DEF Careful, NewPdus
  <2> QED
    BY <1>2, <1>5, <2>1, <2>2 DEF Careful
<1>6. HL \cap AllocatedLists(heap) \subseteq HeldLists
  BY <1>1, <1>5 DEF HP, HL, HeldLists
<1>7. AllocatedLists(heap) \ AllocatedLists(h) \subseteq HeldLists
  BY DEF Careful, HeldLists
<1>8. LostLists \subseteq LL
  BY <1>1, <1>6, <1>7 DEF HL, LL, LostLists
<1>9. HeldLists \cap AllocatedLists(h) \subseteq HL
  <2>1. ASSUME NEW l \in HeldLists, l \in AllocatedLists(h), NEW p \in HeldPdus, heap.variables[p] = l
        PROVE  p \in HP /\ h.variables[p] = l
    <3>1. p \in heap.live /\ l \in AllocatedLists(heap)
      BY <2>1 DEF HeldPdus, HeldLists
    <3>2. p \in h.live
      BY <2>1, <3>1 DEF Careful
    <3> QED
      BY <2>1, <3>1, <3>2 DEF Careful, HP
  <2> QED
    BY <1>1, <2>1 DEF HP, HL, HeldLists
<1>10. HeldLists \cap LL = {}
  BY <1>1, <1>9 DEF HL, LL
<1>11. exc' = "none" => LP \subseteq LostPdus /\ LL \subseteq LostLists
  <2> SUFFICES ASSUME exc' = "none" PROVE LP \subseteq LostPdus /\ LL \subseteq LostLists
    OBVIOUS
  <2>1. LP \subseteq LostPdus
    BY <1>1, <1>4 DEF HP, LP, LostPdus, NewPdus
  <2>2. NewLists(h) \subseteq HL
    BY <1>1 DEF HP, HL, NewLists
  <2>3. LL \subseteq LostLists
    BY <1>1, <1>10, <2>2 DEF HL, LL, LostLists, NewLists
  <2> QED
    BY <2>1, <2>3
<1>12. NoStray'
  <2>1. ASSUME NEW p \in LP, NEW x \in VarlistVars, h.variables[p] # NULL
        PROVE  varlist[x] # h.variables[p]
    <3>1. CASE p \in heap.live
      <4>1. p \in h.live /\ p \notin HeldPdus
        BY <1>1, <1>4, <2>1 DEF LP
      <4>2. h.variables[p] = heap.variables[p]
        BY <3>1, <4>1 DEF Careful
      <4> QED
        BY <2>1, <3>1, <4>1, <4>2 DEF LInv, NoStray, LostPdus
    <3>2. CASE p \notin heap.live
      <4>1. p \in NewPdus(h)
        BY <1>1, <2>1, <3>2 DEF LP, NewPdus
      <4> QED
        BY <2>1, <4>1 DEF Careful
    <3> QED
      BY <3>1, <3>2
  <2> QED
    BY <2>1 DEF NoStray, LP
<1>13. Lifecycle!Call
  BY <1>3, <1>4, <1>8, <1>10, <1>11, CallFromParts DEF LInv, LP, LL
<1> QED
  BY <1>12, <1>13

\* A call that ends with the heap h and the Varlist objects xv, and changes neither PDU objects
\* nor which PDUs there are.  Some object holds each list the client held that is left, and each
\* new one when the call returns.
ListsChanged(h, xv) ==
  LET Holds(l) == (\E x \in VarlistVars : xv[x] = l) \/ (\E p \in HeldPdus : h.variables[p] = l)
  IN  /\ heap' = h /\ h.live = heap.live /\ pdu' = pdu /\ varlist' = xv
      /\ \A p \in LostPdus : h.variables[p] = heap.variables[p]
      /\ \A p \in LostPdus, x \in VarlistVars : heap.variables[p] # NULL => xv[x] # heap.variables[p]
      /\ AllocatedLists(heap) \ AllocatedLists(h) \subseteq HeldLists
      /\ \A l \in AllocatedLists(heap) : Holds(l) => l \in HeldLists
      /\ \A l \in HeldLists \cap AllocatedLists(h) : Holds(l)
      /\ exc' = "none" => \A l \in NewLists(h) : Holds(l)

\* Such a call is a step of BlockLifecycle.
LEMMA ListCall ==
  ASSUME LInv, IInv', NEW h, NEW xv, ListsChanged(h, xv)
  PROVE  Lifecycle!Call /\ NoStray'
<1> USE DEF ListsChanged
<1>1. HeldPdus' = HeldPdus /\ LostPdus' = LostPdus
  BY DEF HeldPdus, LostPdus
<1>2. /\ LostLists' = AllocatedLists(h) \ HeldLists'
      /\ HeldLists' = AllocatedLists(h) \cap
                        ({xv[x] : x \in VarlistVars} \cup {h.variables[p] : p \in HeldPdus'})
  BY DEF HeldLists, LostLists
<1> DEFINE HL == HeldLists'
           LL == LostLists'
<1> HIDE DEF HL, LL
<1>3. HL = AllocatedLists(h) \cap ({xv[x] : x \in VarlistVars} \cup {h.variables[p] : p \in HeldPdus})
  BY <1>1, <1>2 DEF HL
<1>4. LL = AllocatedLists(h) \ HL
  BY <1>2 DEF HL, LL
<1>5. HL \cap AllocatedLists(heap) \subseteq HeldLists
  BY <1>3
<1>6. LostLists \subseteq LL
  BY <1>4, <1>5 DEF LostLists
<1>7. HeldLists \cap LL = {}
  BY <1>3, <1>4
<1>8. exc' = "none" => LL \subseteq LostLists
  BY <1>3, <1>4, <1>7 DEF LostLists, NewLists
<1>9. NoStray'
  BY <1>1 DEF NoStray
<1>10. HeldPdus \cap LostPdus = {}
  BY DEF LostPdus
<1>11. Lifecycle!Call
  BY <1>1, <1>6, <1>7, <1>8, <1>10, CallFromParts DEF LInv, LL
<1> QED
  BY <1>9, <1>11

-----------------------------------------------------------------------------
\* What a step must be, and keep.
Kept == Lifecycle!Call /\ NoStray'

\* An object made from a pointer holds it.
LEMMA WrapPtr == ASSUME NEW h, NEW p PROVE Wrap(h, p).ptr = p
BY DEF Wrap, NoPdu

\* The variables of the client are functions.
LEMMA PduFunction ==
  ASSUME IInv
  PROVE  pdu \in [PduVars -> Objects] /\ varlist \in [VarlistVars -> Pointers]
BY DEF IInv, TypeOK, Objects, Pointers

\* A PDU of the client is held by an object that is not overwritten.
LEMMA HeldBy == \A p : p \in HeldPdus <=> p \in heap.live /\ \E w \in PduVars : pdu[w].ptr = p
BY DEF HeldPdus

\* The same in the next state.
LEMMA HeldByNext == \A p : p \in HeldPdus' <=> p \in heap'.live /\ \E w \in PduVars : pdu'[w].ptr = p
BY DEF HeldPdus

\* A PDU whose object may be overwritten has another object.
LEMMA SpareHeld ==
  ASSUME NEW d \in PduVars, Spare(d), NEW p \in HeldPdus
  PROVE  \E u \in PduVars \ {d} : pdu[u].ptr = p
BY HeldBy DEF Spare

\* A call on the client's request, whose response is assigned to d.
LEMMA FinishCall ==
  ASSUME LInv, IInv', NEW r, NEW w \in PduVars, NEW d \in PduVars, d = w \/ Spare(d),
         pdu[w].ptr \in heap.live \cup {NULL}, Ends(r, pdu[w].ptr), Finish(r, w, d)
  PROVE  Kept
<1> DEFINE h == r.heap
           p == pdu[w].ptr
           pv == pdu'
<1>1. heap' = h /\ varlist' = varlist /\ exc' = r.exc
      /\ pdu' = Assign(r, [pdu EXCEPT ![w] = r.request], d)
  BY DEF Finish, Return
<1>2. Careful(h) /\ NULL \notin heap.live /\ NULL \notin h.live
  <2>1. NULL \notin h.live
    BY <1>1, HeapFields, BlocksAssumption DEF IInv, TypeOK
  <2> QED
    BY <2>1, HeldSafe, NullIsNoBlock DEF Ends, LInv
<1>3. \A u \in PduVars \ {w, d} : pv[u] = pdu[u]
  BY <1>1, PduFunction DEF Assign, LInv
<1>4. r.exc # "none" => pv[w].ptr = r.request.ptr /\ (d # w => pv[d] = pdu[d])
  BY <1>1, PduFunction DEF Assign, LInv
<1>5. r.exc = "none" => pv[d].ptr = r.response /\ (d # w => pv[w].ptr = r.request.ptr)
  BY <1>1, PduFunction, WrapPtr DEF Assign, LInv
<1>6. /\ heap.live \ h.live \subseteq {p}
      /\ r.response \in {NULL} \cup NewPdus(h)
      /\ r.request.ptr \in {NULL, p} \cup NewPdus(h)
      /\ p \in heap.live \cap h.live => r.request.ptr = p /\ r.exc # "none"
      /\ r.exc = "none" => Clean(h, r.response)
  BY DEF Ends
<1> HIDE DEF h, p, pv
<1>7. p \in HeldPdus \cup {NULL}
  BY HeldBy DEF p
<1>8. heap.live \ h.live \subseteq HeldPdus
  BY <1>2, <1>6, <1>7
<1>9. ASSUME NEW u \in PduVars, pv[u].ptr \in heap.live
      PROVE  pv[u].ptr \in HeldPdus
  <2>1. r.response \notin heap.live
    BY <1>2, <1>6 DEF NewPdus
  <2>2. r.request.ptr \in heap.live => r.request.ptr \in HeldPdus
    BY <1>2, <1>6, <1>7 DEF NewPdus
  <2>3. pv[u] = pdu[u] \/ pv[u].ptr = r.request.ptr \/ pv[u].ptr = r.response
    BY <1>3, <1>4, <1>5
  <2> QED
    BY <1>9, <2>1, <2>2, <2>3, HeldBy
<1>10. ASSUME NEW q \in HeldPdus, q \in h.live
       PROVE  \E u \in PduVars : pv[u].ptr = q
  <2>1. q \in heap.live
    BY HeldBy
  <2>2. CASE q = p
    <3>1. r.request.ptr = p /\ r.exc # "none"
      BY <1>6, <1>10, <2>1, <2>2
    <3> QED
      BY <1>4, <2>2, <3>1
  <2>3. CASE q # p
    <3>1. PICK u \in PduVars : pdu[u].ptr = q /\ (d = w \/ u # d)
      BY SpareHeld, HeldBy
    <3>2. u # w
      BY <2>3, <3>1 DEF p
    <3> QED
      BY <1>3, <3>1, <3>2
  <2> QED
    BY <2>2, <2>3
<1>11. HeldPdus \cap h.live \subseteq HeldPdus'
  BY <1>1, <1>10, HeldByNext DEF h, pv
<1>12. exc' = "none" => /\ NewPdus(h) \subseteq HeldPdus'
                        /\ \A l \in NewLists(h) : \E q \in HeldPdus' : h.variables[q] = l
  <2> SUFFICES ASSUME r.exc = "none"
               PROVE  /\ NewPdus(h) \subseteq HeldPdus'
                      /\ \A l \in NewLists(h) : \E q \in HeldPdus' : h.variables[q] = l
    BY <1>1
  <2>1. pv[d].ptr = r.response /\ Clean(h, r.response)
    BY <1>5, <1>6
  <2>2. r.response \in h.live => r.response \in HeldPdus'
    BY <1>1, <2>1, HeldByNext DEF h, pv
  <2> QED
    BY <2>1, <2>2 DEF Clean, NewPdus
<1>13. heap' = h /\ (\A u \in PduVars : pdu'[u].ptr \in heap.live => pdu'[u].ptr \in HeldPdus)
  BY <1>1, <1>9 DEF h, pv
<1> QED
  BY <1>1, <1>2, <1>8, <1>11, <1>12, <1>13, PduCall DEF Kept

\* A call that ends with the heap h, and assigns o to the PDU object d or nothing to any.
Assigned(h, d, o) ==
  /\ heap' = h /\ Careful(h) /\ varlist' = varlist
  /\ pdu' \in {pdu, [pdu EXCEPT ![d] = o]}
  /\ o.ptr \in heap.live => o.ptr \in HeldPdus
  /\ heap.live \ h.live \subseteq {pdu[d].ptr}
  /\ heap.live \subseteq h.live => pdu' = pdu \/ Spare(d)
  /\ exc' = "none" => Clean(h, NULL) \/ (pdu'[d].ptr = o.ptr /\ Clean(h, o.ptr))

\* Such a call keeps what Kept says.
LEMMA ObjectCall ==
  ASSUME LInv, IInv', NEW h, NEW d \in PduVars, NEW o, Assigned(h, d, o)
  PROVE  Kept
<1> USE DEF Assigned
<1>1. pdu \in [PduVars -> Objects]
  BY PduFunction DEF LInv
<1>2. pdu'[d] \in {pdu[d], o} /\ \A u \in PduVars \ {d} : pdu'[u] = pdu[u]
  BY <1>1
<1>3. heap.live \ h.live \subseteq HeldPdus
  BY HeldBy
<1>4. \A u \in PduVars : pdu'[u].ptr \in heap.live => pdu'[u].ptr \in HeldPdus
  BY <1>2, HeldBy
<1>5. ASSUME NEW q \in HeldPdus, q \in h.live
      PROVE  \E u \in PduVars : pdu'[u].ptr = q
  <2>1. PICK u \in PduVars : pdu[u].ptr = q
    BY HeldBy
  <2>2. CASE pdu' = pdu \/ u # d
    BY <1>2, <2>1, <2>2
  <2>3. CASE Spare(d)
    BY <1>2, <1>5, <2>3, SpareHeld
  <2>4. CASE ~(heap.live \subseteq h.live) /\ u = d
    BY <1>5, <2>1, <2>4
  <2> QED
    BY <2>2, <2>3, <2>4
<1>6. HeldPdus \cap h.live \subseteq HeldPdus'
  BY <1>5, HeldByNext
<1>7. NULL \notin h.live
  BY HeapFields, BlocksAssumption DEF IInv, TypeOK
<1>8. exc' = "none" => /\ NewPdus(h) \subseteq HeldPdus'
                       /\ \A l \in NewLists(h) : \E q \in HeldPdus' : h.variables[q] = l
  <2>1. pdu'[d].ptr = o.ptr /\ o.ptr \in h.live => o.ptr \in HeldPdus'
    BY HeldByNext
  <2> QED
    BY <1>7, <2>1 DEF Clean, NewPdus
<1> QED
  BY <1>3, <1>4, <1>6, <1>8, PduCall DEF Kept

\* A call whose request is the function's own, and whose response is assigned to d.
LEMMA FinishOwnCall ==
  ASSUME LInv, IInv', NEW r, NEW d \in PduVars, Spare(d), Own(heap, r), FinishOwn(r, d)
  PROVE  Kept
<1> DEFINE h == r.heap
           o == Wrap(h, r.response)
<1>1. heap' = h /\ varlist' = varlist /\ exc' = r.exc
      /\ pdu' = IF r.exc = "none" THEN [pdu EXCEPT ![d] = o] ELSE pdu
  BY DEF FinishOwn, Return, Assign
<1>2. o.ptr = r.response
  BY WrapPtr
<1>3. /\ Careful(h)
      /\ heap.live \subseteq h.live
      /\ r.response \in {NULL} \cup NewPdus(h)
      /\ r.exc = "none" => Clean(h, r.response)
  BY CarefulStart DEF Own, LInv
<1>4. o.ptr \notin heap.live
  BY <1>2, <1>3, HeldSafe, NullIsNoBlock DEF NewPdus, LInv
<1> HIDE DEF h, o
<1>5. r.exc = "none" => pdu'[d].ptr = o.ptr
  BY <1>1, PduFunction DEF LInv
<1> QED
  BY <1>1, <1>2, <1>3, <1>4, <1>5, ObjectCall DEF Assigned

-----------------------------------------------------------------------------
\* A call that only throws.
LEMMA NothingDone ==
  ASSUME LInv, IInv', NEW e, Return(heap, pdu, varlist, e)
  PROVE  Kept
<1>1. heap' = heap /\ pdu' = pdu /\ varlist' = varlist
  BY DEF Return
<1>2. Careful(heap) /\ NewPdus(heap) = {} /\ NewLists(heap) = {}
  BY CarefulStart DEF NewPdus, NewLists, LInv
<1>3. \A w \in PduVars : pdu[w].ptr \in heap.live => pdu[w].ptr \in HeldPdus
  BY HeldBy
<1>4. HeldPdus' = HeldPdus
  BY <1>1 DEF HeldPdus
<1> QED
  BY <1>1, <1>2, <1>3, <1>4, PduCall DEF Kept

\* NewPdu: the new PDU is held by the object.
LEMMA NewPduKept ==
  ASSUME LInv, IInv', NEW w \in PduVars, NEW t \in ClientTypes, NewPdu(w, t)
  PROVE  Kept
<1>1. CASE Return(heap, pdu, varlist, "runtime_error")
  BY <1>1, NothingDone
<1>2. CASE \E p \in FreshPdus(heap) :
             Return(CreatePdu(heap, p, t), [pdu EXCEPT ![w] = [ptr |-> p, type |-> t]], varlist, "none")
  <2>1. PICK p \in FreshPdus(heap) :
             Return(CreatePdu(heap, p, t), [pdu EXCEPT ![w] = [ptr |-> p, type |-> t]], varlist, "none")
    BY <1>2
  <2> DEFINE h == CreatePdu(heap, p, t)
             o == [ptr |-> p, type |-> t]
  <2>2. t \in PduTypes /\ Spare(w)
    BY ClientTypesAssumption DEF NewPdu
  <2>3. Careful(h) /\ p \in NewPdus(h) /\ Clean(h, p)
    BY <2>2, HeldSafe, CarefulStart, CarefulCreate DEF LInv
  <2>4. h.live = heap.live \cup {p}
    BY <2>2, HeldSafe, CreatePduSafe DEF LInv
  <2>5. heap' = h /\ varlist' = varlist /\ pdu' = [pdu EXCEPT ![w] = o]
    BY <2>1 DEF Return
  <2>6. o.ptr = p /\ p \notin heap.live
    BY <2>3 DEF NewPdus
  <2> HIDE DEF h, o
  <2>7. pdu'[w].ptr = p
    BY <2>5, <2>6, PduFunction DEF LInv
  <2> QED
    BY <2>2, <2>3, <2>4, <2>5, <2>6, <2>7, ObjectCall DEF Assigned
<1> QED
  BY <1>1, <1>2 DEF NewPdu

\* Free: the PDU goes with its list.
LEMMA FreeKept ==
  ASSUME LInv, IInv', NEW w \in PduVars, Free(w)
  PROVE  Kept
<1> DEFINE p == pdu[w].ptr
           h == FreePdu(heap, p)
<1>1. p \in heap.live \cup {NULL} /\ heap' = h /\ varlist' = varlist /\ pdu' = [pdu EXCEPT ![w] = NoPdu]
  BY DEF Free, Usable, Return
<1>2. Careful(h) /\ h.live = heap.live \ {p} /\ Clean(h, NULL)
  BY <1>1, HeldSafe, CarefulStart, CarefulFree DEF LInv
<1>3. NoPdu.ptr = NULL /\ NULL \notin heap.live
  BY HeldSafe, NullIsNoBlock DEF NoPdu, LInv
<1>4. heap.live \subseteq h.live => Spare(w)
  BY <1>2 DEF Spare
<1> HIDE DEF h
<1> QED
  BY <1>1, <1>2, <1>3, <1>4, ObjectCall DEF Assigned

\* Clear and Copy overwrite an object whose PDU is held elsewhere.
LEMMA ClearKept ==
  ASSUME LInv, IInv', NEW w \in PduVars, Clear(w)
  PROVE  Kept
<1>1. Spare(w) /\ heap' = heap /\ varlist' = varlist /\ pdu' = [pdu EXCEPT ![w] = NoPdu]
  BY DEF Clear, Return
<1>2. Careful(heap) /\ Clean(heap, NULL) /\ NoPdu.ptr = NULL /\ NULL \notin heap.live
  BY CarefulStart, HeldSafe, NullIsNoBlock DEF NoPdu, LInv
<1> QED
  BY <1>1, <1>2, ObjectCall DEF Assigned

\* Copy: the PDU then has two objects.
LEMMA CopyKept ==
  ASSUME LInv, IInv', NEW w \in PduVars, NEW d \in PduVars, Copy(w, d)
  PROVE  Kept
<1>1. Spare(d) /\ heap' = heap /\ varlist' = varlist /\ pdu' = [pdu EXCEPT ![d] = pdu[w]]
  BY DEF Copy, Return
<1>2. Careful(heap) /\ Clean(heap, NULL)
  BY CarefulStart DEF LInv
<1>3. pdu[w].ptr \in heap.live => pdu[w].ptr \in HeldPdus
  BY HeldBy
<1> QED
  BY <1>1, <1>2, <1>3, ObjectCall DEF Assigned

\* Clone: the copy is held by d.
LEMMA CloneKept ==
  ASSUME LInv, IInv', NEW w \in PduVars, NEW d \in PduVars, Clone(w, d)
  PROVE  Kept
<1> DEFINE p == pdu[w].ptr
           l == heap.variables[p]
           s == IF l = NULL THEN <<>> ELSE heap.chain[l]
           t == heap.command[p]
<1>1. Spare(d) /\ (p # NULL => p \in heap.live)
  BY DEF Clone, Usable
<1>2. ASSUME p \in heap.live
      PROVE  Deref(heap, p) = heap /\ t \in PduTypes /\ s \in Seq(Oids)
  <2>1. /\ p \in Pdus /\ heap.chain \in [Lists -> Seq(Oids)]
        /\ heap.variables \in [Pdus -> Lists \cup {NULL}] /\ heap.command \in [Pdus -> PduTypes]
        /\ heap \in Heaps
    BY <1>2, HeldSafe, HeapFields DEF LInv
  <2>2. s \in Seq(Oids)
    BY <2>1
  <2> QED
    BY <1>2, <2>1, <2>2, DerefLive
<1>3. \/ /\ p \in heap.live
         /\ \E q \in FreshPdus(heap), k \in FreshLists(heap) :
              LET h == CreateFilled(heap, q, t, k, s)
              IN  Return(h, [pdu EXCEPT ![d] = Wrap(h, q)], varlist, "none")
      \/ Return(heap, [pdu EXCEPT ![d] = Wrap(heap, NULL)], varlist, "none")
  BY <1>1, <1>2 DEF Clone
<1> HIDE DEF s, t
<1>4. CASE /\ p \in heap.live
           /\ \E q \in FreshPdus(heap), k \in FreshLists(heap) :
                LET h == CreateFilled(heap, q, t, k, s)
                IN  Return(h, [pdu EXCEPT ![d] = Wrap(h, q)], varlist, "none")
  <2>1. PICK q \in FreshPdus(heap), k \in FreshLists(heap) :
             LET h == CreateFilled(heap, q, t, k, s)
             IN  Return(h, [pdu EXCEPT ![d] = Wrap(h, q)], varlist, "none")
    BY <1>4
  <2> DEFINE h == CreateFilled(heap, q, t, k, s)
             o == Wrap(h, q)
  <2>2. Careful(h) /\ q \in NewPdus(h) /\ h.live = heap.live \cup {q} /\ Clean(h, q)
    BY <1>2, <1>4, HeldSafe, CarefulStart, CarefulCreateFilled DEF LInv
  <2>3. heap' = h /\ pdu' = [pdu EXCEPT ![d] = o] /\ varlist' = varlist
    BY <2>1 DEF Return
  <2>4. o.ptr = q /\ q \notin heap.live
    BY <2>2, WrapPtr DEF NewPdus
  <2> HIDE DEF h, o
  <2>5. pdu'[d].ptr = q
    BY <2>3, <2>4, PduFunction DEF LInv
  <2> QED
    BY <1>1, <2>2, <2>3, <2>4, <2>5, ObjectCall DEF Assigned
<1>5. CASE Return(heap, [pdu EXCEPT ![d] = Wrap(heap, NULL)], varlist, "none")
  <2> DEFINE o == Wrap(heap, NULL)
  <2>1. heap' = heap /\ pdu' = [pdu EXCEPT ![d] = o] /\ varlist' = varlist
    BY <1>5 DEF Return
  <2>2. o.ptr = NULL /\ NULL \notin heap.live
    BY WrapPtr, HeldSafe, NullIsNoBlock DEF LInv
  <2>3. Careful(heap) /\ Clean(heap, NULL)
    BY CarefulStart DEF LInv
  <2> HIDE DEF o
  <2> QED
    BY <1>1, <2>1, <2>2, <2>3, ObjectCall DEF Assigned
<1> QED
  BY <1>3, <1>4, <1>5

\* CallSync, CallGetNext and CallGetBulk end as FinishCall asks.
LEMMA RequestKept ==
  ASSUME LInv, IInv', NEW w \in PduVars, NEW d \in PduVars,
         CallSync(w, d) \/ CallGetNext(w, d) \/ CallGetBulk(w, d)
  PROVE  Kept
<1>1. IInv /\ Agrees(heap, pdu[w])
  BY HeldSafe DEF LInv
<1>2. pdu[w].ptr \in heap.live \cup {NULL} /\ (d = w \/ Spare(d))
  BY DEF CallSync, CallGetNext, CallGetBulk, Usable
<1>3. PICK hasSession \in BOOLEAN :
        \E r \in Sync(heap, pdu[w], hasSession) \cup GetNext(heap, pdu[w], hasSession)
                   \cup GetBulk(heap, pdu[w], hasSession) : Finish(r, w, d)
  BY DEF CallSync, CallGetNext, CallGetBulk
<1>4. PICK r \in Sync(heap, pdu[w], hasSession) \cup GetNext(heap, pdu[w], hasSession)
                   \cup GetBulk(heap, pdu[w], hasSession) : Finish(r, w, d)
  BY <1>3
<1>5. Ends(r, pdu[w].ptr)
  BY <1>1, <1>2, <1>4, SyncEnds, GetNextEnds, GetBulkEnds
<1> QED
  BY <1>2, <1>4, <1>5, FinishCall

\* The requests the functions build themselves end as FinishOwnCall asks.
LEMMA CallSendOidKept ==
  ASSUME LInv, IInv', NEW t \in PduTypes, NEW o \in OidArgs, NEW d \in PduVars, CallSendOid(t, o, d)
  PROVE  Kept
<1>1. PICK hasSession \in BOOLEAN : \E r \in SendOid(heap, t, o, hasSession) : FinishOwn(r, d)
  BY DEF CallSendOid
<1>2. PICK r \in SendOid(heap, t, o, hasSession) : FinishOwn(r, d)
  BY <1>1
<1>3. Own(heap, r)
  BY HeldSafe, CarefulStart, SendOidCareful DEF LInv
<1> QED
  BY <1>2, <1>3, FinishOwnCall DEF CallSendOid

\* get( set of OIDs ) builds one request, or none.
LEMMA CallGetSetKept ==
  ASSUME LInv, IInv', NEW S, S \subseteq OidArgs, NEW d \in PduVars, CallGetSet(S, d)
  PROVE  Kept
<1>1. PICK hasSession \in BOOLEAN : \E r \in GetSet(heap, S, hasSession) : FinishOwn(r, d)
  BY DEF CallGetSet
<1>2. PICK r \in GetSet(heap, S, hasSession) : FinishOwn(r, d)
  BY <1>1
<1>3. CASE S = {}
  <2>1. r = Ended(heap, NoPdu, NULL, "invalid_argument")
    BY <1>3 DEF GetSet
  <2>2. Own(heap, r)
    BY <2>1, CarefulStart DEF Own, Ended, NoPdu, LInv
  <2> QED
    BY <1>2, <2>2, FinishOwnCall DEF CallGetSet
<1>4. CASE S # {}
  <2>1. PICK s \in InOrder(S) : r \in BuildAndSync(heap, "kGet", s, TRUE, hasSession)
    BY <1>4 DEF GetSet
  <2>2. "kGet" \in PduTypes /\ s \in Seq(OidArgs)
    BY <2>1, OidSeqs DEF PduTypes
  <2>3. Own(heap, r)
    BY <2>1, <2>2, HeldSafe, CarefulStart, BuildAndSyncCareful DEF LInv
  <2> QED
    BY <1>2, <2>3, FinishOwnCall DEF CallGetSet
<1> QED
  BY <1>3, <1>4

\* getBulk( oid ) builds one request.
LEMMA CallGetBulkOidKept ==
  ASSUME LInv, IInv', NEW o \in OidArgs, NEW d \in PduVars, CallGetBulkOid(o, d)
  PROVE  Kept
<1>1. PICK hasSession \in BOOLEAN : \E r \in GetBulkOid(heap, o, hasSession) : FinishOwn(r, d)
  BY DEF CallGetBulkOid
<1>2. PICK r \in BuildAndSync(heap, "kGetBulk", <<o>>, TRUE, hasSession) : FinishOwn(r, d)
  BY <1>1 DEF GetBulkOid
<1>3. "kGetBulk" \in PduTypes /\ <<o>> \in Seq(OidArgs)
  BY DEF PduTypes
<1>4. Own(heap, r)
  BY <1>2, <1>3, HeldSafe, CarefulStart, BuildAndSyncCareful DEF LInv
<1> QED
  BY <1>2, <1>4, FinishOwnCall DEF CallGetBulkOid

\* sendV2Trap( pdu ) frees the PDU and the list it has stolen from it.
LEMMA CallSendTrapPduKept ==
  ASSUME LInv, IInv', NEW w \in PduVars, CallSendTrapPdu(w)
  PROVE  Kept
<1> DEFINE p == pdu[w].ptr
           l == heap.variables[p]
<1>1. PICK r \in SendTrapPdu(heap, p) : Return(r.heap, [pdu EXCEPT ![w] = NoPdu], varlist, r.exc)
  BY DEF CallSendTrapPdu
<1>2. p \in heap.live \cup {NULL} /\ NULL \notin heap.live /\ NoPdu.ptr = NULL
  BY HeldSafe, NullIsNoBlock DEF CallSendTrapPdu, Usable, NoPdu, LInv
<1>3. /\ Careful(r.heap) /\ r.heap.live = heap.live \ {p} /\ Clean(r.heap, NULL)
  <2>1. CASE p = NULL
    <3>1. r.heap = heap
      BY <2>1 DEF SendTrapPdu, Sent
    <3> QED
      BY <1>2, <2>1, <3>1, CarefulStart DEF LInv
  <2>2. CASE p # NULL /\ l = NULL
    <3>1. r.heap = FreePdu(heap, p)
      BY <2>2 DEF SendTrapPdu, Sent
    <3>2. LET g == FreePdu(heap, p) IN Careful(g) /\ g.live = heap.live \ {p} /\ (Clean(heap, p) => Clean(g, NULL))
      BY <1>2, HeldSafe, CarefulStart, CarefulFree DEF LInv
    <3> QED
      BY <3>1, <3>2, CarefulStart DEF LInv
  <2>3. CASE p # NULL /\ l # NULL
    <3> DEFINE g == PointTo(heap, p, NULL)
               f == FreePdu(g, p)
               e == FreeVarbind(f, l)
    <3>1. p \in heap.live /\ heap \in Heaps /\ MemoryOK(heap) /\ p \in Pdus /\ l \in Lists
          /\ heap.live \subseteq Pdus
          /\ heap.chain[l] # <<>> /\ heap.variables \in [Pdus -> Lists \cup {NULL}]
      BY <1>2, <2>3, HeldSafe, HeapFields DEF LInv, MemoryOK
    <3>2. Loose(heap, NULL)
      BY DEF Loose
    <3>3. /\ g \in Heaps /\ MemoryOK(g) /\ g.live = heap.live
          /\ g.variables = [heap.variables EXCEPT ![p] = NULL] /\ g.chain = heap.chain
      <4>1. MemoryOK(g) /\ SameTypes(heap, g) /\ g.chain = heap.chain
            /\ g.variables = [heap.variables EXCEPT ![p] = NULL]
        BY <3>1, <3>2, PointToLoose
      <4> HIDE DEF g
      <4> QED
        BY <4>1 DEF SameTypes, MemoryOK
    <3>4. r.heap = e
      BY <2>3 DEF SendTrapPdu, SendTrapList, Sent
    <3> HIDE DEF g
    <3>5. /\ f.live = g.live \ {p}
          /\ f.variables = [g.variables EXCEPT ![p] = NULL]
          /\ AllocatedLists(f) = AllocatedLists(g) \ {g.variables[p]}
      BY <3>1, <3>3, FreePduLists
    <3>6. MemoryOK(f)
      BY <3>1, <3>3, FreePduOK
    <3> HIDE DEF f
    <3>7. f \in Heaps /\ l \in AllocatedLists(g) /\ g.variables[p] = NULL /\ NULL \notin Lists
      BY <3>1, <3>3, <3>6, BlocksAssumption DEF MemoryOK, AllocatedLists
    <3>8. f.chain[l] # <<>> /\ f.chain \in [Lists -> Seq(Oids)]
      BY <3>1, <3>5, <3>7, HeapFields DEF AllocatedLists
    <3>9. e.live = f.live /\ e.variables = f.variables /\ e.chain = [f.chain EXCEPT ![l] = <<>>]
      BY <3>1, <3>7, <3>8, FreeVarbindFields
    <3> HIDE DEF e
    <3>10. AllocatedLists(e) = AllocatedLists(heap) \ {l}
      BY <3>3, <3>5, <3>7, <3>8, <3>9 DEF AllocatedLists
    <3>11. e.live = heap.live \ {p} /\ \A q \in e.live : e.variables[q] = heap.variables[q]
      BY <3>1, <3>3, <3>5, <3>9
    <3>12. NewPdus(e) = {} /\ NewLists(e) = {}
      BY <3>10, <3>11 DEF NewPdus, NewLists
    <3>13. Careful(e)
      BY <3>1, <3>10, <3>11, <3>12 DEF Careful
    <3> QED
      BY <3>4, <3>11, <3>12, <3>13 DEF Clean
  <2> QED
    BY <2>1, <2>2, <2>3
<1>4. heap.live \subseteq r.heap.live => Spare(w)
  BY <1>3 DEF Spare
<1>5. heap' = r.heap /\ varlist' = varlist /\ pdu' = [pdu EXCEPT ![w] = NoPdu]
  BY <1>1 DEF Return
<1> QED
  BY <1>2, <1>3, <1>4, <1>5, ObjectCall DEF Assigned

\* sendV2Trap( oid ) frees the list it has created.
LEMMA CallSendTrapOidKept ==
  ASSUME LInv, IInv', NEW o, CallSendTrapOid(o)
  PROVE  Kept
<1>1. PICK r \in SendTrapOid(heap, o) : Return(r.heap, pdu, varlist, r.exc)
  BY DEF CallSendTrapOid
<1>2. PICK c \in CreateTrapVarlist(heap, o) :
        r \in IF c.exc # "none" THEN {c} ELSE SendTrapList(c.heap, c.list)
  BY DEF SendTrapOid
<1>3. /\ r.heap.live = heap.live /\ r.heap.variables = heap.variables
      /\ AllocatedLists(r.heap) = AllocatedLists(heap)
  <2>1. CASE c.heap = heap /\ c.list = NULL
    <3>1. r = c \/ r = Sent(heap, NULL, "invalid_argument")
      BY <1>2, <2>1 DEF SendTrapList
    <3> QED
      BY <2>1, <3>1 DEF Sent
  <2>2. CASE \E l \in FreshLists(heap), s \in {<<kSysUpTime>>, <<kTrap>>, <<kSysUpTime, kTrap>>} :
               c = Sent(NewList(heap, l, s), l, "none")
    <3>1. PICK l \in FreshLists(heap), s \in {<<kSysUpTime>>, <<kTrap>>, <<kSysUpTime, kTrap>>} :
               c = Sent(NewList(heap, l, s), l, "none")
      BY <2>2
    <3>2. s \in Seq(Oids) /\ s # <<>>
      <4>1. kSysUpTime \in Oids /\ kTrap \in Oids
        BY TrapOidsAssumption
      <4>2. <<kSysUpTime>> \in Seq(Oids) /\ <<kTrap>> \in Seq(Oids) /\ <<kSysUpTime, kTrap>> \in Seq(Oids)
        BY <4>1
      <4>3. <<kSysUpTime>> # <<>> /\ <<kTrap>> # <<>> /\ <<kSysUpTime, kTrap>> # <<>>
        OBVIOUS
      <4> QED
        BY <3>1, <4>2, <4>3
    <3>3. heap \in Heaps /\ heap.chain \in [Lists -> Seq(Oids)] /\ l \in Lists /\ heap.chain[l] = <<>> /\ l # NULL
      BY HeldSafe, HeapFields, FreshListIsNew, BlocksAssumption DEF LInv
    <3> DEFINE n == NewList(heap, l, s)
               e == FreeVarbind(n, l)
    <3>4. n \in Heaps /\ n.live = heap.live /\ n.variables = heap.variables /\ n.chain = [heap.chain EXCEPT ![l] = s]
      BY <3>2, <3>3, NewListFields
    <3>5. c.heap = n /\ c.list = l /\ c.exc = "none"
      BY <3>1 DEF Sent
    <3> HIDE DEF n
    <3>6. r.heap = e
      BY <1>2, <3>3, <3>5 DEF SendTrapList, Sent
    <3>7. n.chain[l] # <<>> /\ n.chain \in [Lists -> Seq(Oids)]
      BY <3>2, <3>3, <3>4
    <3>8. e.live = n.live /\ e.variables = n.variables /\ e.chain = [n.chain EXCEPT ![l] = <<>>]
      BY <3>3, <3>4, <3>7, FreeVarbindFields
    <3> HIDE DEF e
    <3>9. AllocatedLists(e) = AllocatedLists(heap)
      BY <3>3, <3>4, <3>7, <3>8 DEF AllocatedLists
    <3> QED
      BY <3>4, <3>6, <3>8, <3>9
  <2> QED
    BY <1>2, <2>1, <2>2 DEF CreateTrapVarlist, Sent
<1>4. heap' = r.heap /\ varlist' = varlist /\ pdu' = pdu /\ exc' = r.exc
  BY <1>1 DEF Return
<1>5. Careful(r.heap) /\ NewPdus(r.heap) = {} /\ NewLists(r.heap) = {}
  BY <1>3 DEF Careful, NewPdus, NewLists
<1>6. \A w \in PduVars : pdu[w].ptr \in heap.live => pdu[w].ptr \in HeldPdus
  BY HeldBy
<1>7. HeldPdus' = HeldPdus
  BY <1>3, <1>4 DEF HeldPdus
<1> QED
  BY <1>3, <1>4, <1>5, <1>6, <1>7, PduCall DEF Kept
-----------------------------------------------------------------------------
\* A list is held by a Varlist object or by a PDU that is held.
LEMMA ListHeldBy ==
  \A l : l \in HeldLists <=> /\ l \in AllocatedLists(heap)
                             /\ (\E x \in VarlistVars : varlist[x] = l) \/ (\E p \in HeldPdus : heap.variables[p] = l)
BY DEF HeldLists

\* The list of an allocated PDU is allocated.
LEMMA PduListAllocated ==
  ASSUME IInv, NEW p \in heap.live, heap.variables[p] # NULL
  PROVE  heap.variables[p] \in AllocatedLists(heap)
<1>1. heap.variables[p] \in Lists
  BY HeldSafe, HeapFields
<1> QED
  BY <1>1, HeldSafe DEF MemoryOK, AllocatedLists

\* The list of a lost PDU is lost with it.
LEMMA HeldNotStray ==
  ASSUME LInv, NEW l \in HeldLists, NEW p \in LostPdus
  PROVE  heap.variables[p] # l
<1>1. l \in Lists /\ l # NULL
  BY BlocksAssumption DEF HeldLists, AllocatedLists
<1>2. \A q \in HeldPdus : heap.variables[q] = l => heap.variables[p] # l
  BY <1>1, HeldSafe DEF LInv, MemoryOK, HeldPdus, LostPdus
<1>3. \A x \in VarlistVars : varlist[x] = l => heap.variables[p] # l
  BY <1>1 DEF LInv, NoStray
<1> QED
  BY <1>2, <1>3, ListHeldBy

\* A list whose object may be overwritten is held elsewhere.
LEMMA SpareListHeld ==
  ASSUME LInv, NEW x \in VarlistVars, SpareList(x), varlist[x] \in AllocatedLists(heap)
  PROVE  \/ \E y \in VarlistVars \ {x} : varlist[y] = varlist[x]
         \/ \E p \in HeldPdus : heap.variables[p] = varlist[x]
<1>1. varlist[x] # NULL
  BY BlocksAssumption DEF AllocatedLists
<1>2. ASSUME NEW p \in heap.live, heap.variables[p] = varlist[x]
      PROVE  p \in HeldPdus
  BY <1>1, <1>2 DEF LInv, NoStray, LostPdus
<1> QED
  BY <1>2 DEF SpareList, Allocated, Attached

\* A call that ends with the heap h, in which PDUs have the lists they had, and assigns l to the
\* Varlist object x or nothing to any.
ListAssigned(h, x, l) ==
  /\ heap' = h /\ h.live = heap.live /\ h.variables = heap.variables
  /\ pdu' = pdu /\ varlist' \in {varlist, [varlist EXCEPT ![x] = l]}
  /\ l \in AllocatedLists(heap) => l \in HeldLists
  /\ AllocatedLists(heap) \ AllocatedLists(h) \subseteq {varlist[x]}
  /\ AllocatedLists(heap) \subseteq AllocatedLists(h) => varlist' = varlist \/ SpareList(x)
  /\ NewLists(h) = {} \/ (NewLists(h) = {l} /\ varlist'[x] = l)

\* Such a call keeps what Kept says.
LEMMA ListObjectCall ==
  ASSUME LInv, IInv', NEW h, NEW x \in VarlistVars, NEW l, ListAssigned(h, x, l)
  PROVE  Kept
<1> DEFINE xv == varlist'
           Holds(k) == (\E y \in VarlistVars : xv[y] = k) \/ (\E p \in HeldPdus : h.variables[p] = k)
<1>1. /\ heap' = h /\ h.live = heap.live /\ h.variables = heap.variables /\ pdu' = pdu
      /\ l \in AllocatedLists(heap) => l \in HeldLists
      /\ AllocatedLists(heap) \ AllocatedLists(h) \subseteq {varlist[x]}
      /\ NewLists(h) = {} \/ (NewLists(h) = {l} /\ xv[x] = l)
  BY DEF ListAssigned
<1>2. xv[x] \in {varlist[x], l} /\ \A y \in VarlistVars \ {x} : xv[y] = varlist[y]
  BY PduFunction DEF ListAssigned, LInv
<1>3. AllocatedLists(heap) \subseteq AllocatedLists(h) => xv = varlist \/ SpareList(x)
  BY DEF ListAssigned
<1> HIDE DEF xv
<1>4. ASSUME NEW p \in LostPdus, NEW y \in VarlistVars, heap.variables[p] # NULL
      PROVE  xv[y] # heap.variables[p]
  <2>1. varlist[y] # heap.variables[p]
    BY <1>4 DEF LInv, NoStray
  <2>2. l # heap.variables[p]
    BY <1>1, <1>4, PduListAllocated, HeldNotStray DEF LInv, LostPdus
  <2> QED
    BY <1>2, <2>1, <2>2
<1>5. AllocatedLists(heap) \ AllocatedLists(h) \subseteq HeldLists
  BY <1>1, ListHeldBy
<1>6. \A k \in AllocatedLists(heap) : Holds(k) => k \in HeldLists
  BY <1>1, <1>2, ListHeldBy
<1>7. ASSUME NEW k \in HeldLists \cap AllocatedLists(h)
      PROVE  Holds(k)
  <2>1. CASE \E p \in HeldPdus : heap.variables[p] = k
    BY <1>1, <2>1
  <2>2. CASE \E y \in VarlistVars \ {x} : varlist[y] = k
    BY <1>2, <2>2
  <2>3. CASE varlist[x] = k
    <3>1. AllocatedLists(heap) \subseteq AllocatedLists(h)
      BY <1>1, <1>7, <2>3
    <3>2. CASE xv = varlist
      BY <2>3, <3>2
    <3>3. CASE SpareList(x)
      <4>1. k \in AllocatedLists(heap)
        BY <1>7, ListHeldBy
      <4> QED
        BY <2>1, <2>2, <2>3, <3>3, <4>1, SpareListHeld
    <3> QED
      BY <1>3, <3>1, <3>2, <3>3
  <2> QED
    BY <1>7, <2>1, <2>2, <2>3, ListHeldBy
<1>8. \A k \in NewLists(h) : Holds(k)
  BY <1>1
<1>9. ListsChanged(h, xv)
  BY <1>1, <1>4, <1>5, <1>6, <1>7, <1>8 DEF ListsChanged, xv
<1> QED
  BY <1>9, ListCall DEF Kept

\* A call that ends with the heap h, and gives the PDU p the list l or none another list.
ListGiven(h, p, l) ==
  /\ heap' = h /\ h.live = heap.live /\ pdu' = pdu /\ varlist' = varlist
  /\ h.variables \in {heap.variables, [heap.variables EXCEPT ![p] = l]}
  /\ l \in AllocatedLists(heap) => l \in HeldLists
  /\ AllocatedLists(heap) \ AllocatedLists(h) \subseteq {heap.variables[p]}
  /\ heap.variables[p] \in AllocatedLists(h) => h.variables = heap.variables
  /\ exc' = "none" => NewLists(h) = {} \/ (NewLists(h) = {l} /\ h.variables[p] = l)

\* Such a call keeps what Kept says.
LEMMA ListPduCall ==
  ASSUME LInv, IInv', NEW h, NEW p \in HeldPdus, NEW l, ListGiven(h, p, l)
  PROVE  Kept
<1> DEFINE Holds(k) == (\E y \in VarlistVars : varlist[y] = k) \/ (\E q \in HeldPdus : h.variables[q] = k)
<1>1. /\ heap' = h /\ h.live = heap.live /\ pdu' = pdu /\ varlist' = varlist
      /\ l \in AllocatedLists(heap) => l \in HeldLists
      /\ AllocatedLists(heap) \ AllocatedLists(h) \subseteq {heap.variables[p]}
      /\ heap.variables[p] \in AllocatedLists(h) => h.variables = heap.variables
      /\ exc' = "none" => NewLists(h) = {} \/ (NewLists(h) = {l} /\ h.variables[p] = l)
  BY DEF ListGiven
<1>2. p \in Pdus /\ heap.variables \in [Pdus -> Lists \cup {NULL}] /\ heap.live \subseteq Pdus
      /\ LostPdus \subseteq Pdus /\ HeldPdus \subseteq Pdus /\ p \notin LostPdus
  BY HeldSafe, HeapFields DEF HeldPdus, LostPdus, LInv
<1>3. h.variables[p] \in {heap.variables[p], l} /\ \A q \in Pdus \ {p} : h.variables[q] = heap.variables[q]
  BY <1>2 DEF ListGiven
<1>4. \A q \in LostPdus : h.variables[q] = heap.variables[q]
  BY <1>2, <1>3
<1>5. \A q \in LostPdus, x \in VarlistVars : heap.variables[q] # NULL => varlist[x] # heap.variables[q]
  BY DEF LInv, NoStray
<1>6. AllocatedLists(heap) \ AllocatedLists(h) \subseteq HeldLists
  BY <1>1, ListHeldBy
<1>7. \A k \in AllocatedLists(heap) : Holds(k) => k \in HeldLists
  BY <1>1, <1>2, <1>3, ListHeldBy
<1>8. ASSUME NEW k \in HeldLists \cap AllocatedLists(h)
      PROVE  Holds(k)
  <2>1. CASE \E y \in VarlistVars : varlist[y] = k
    BY <2>1
  <2>2. CASE \E q \in HeldPdus : heap.variables[q] = k
    BY <1>1, <1>2, <1>3, <1>8, <2>2
  <2> QED
    BY <1>8, <2>1, <2>2, ListHeldBy
<1>9. exc' = "none" => \A k \in NewLists(h) : Holds(k)
  BY <1>1
<1>10. ListsChanged(h, varlist)
  BY <1>1, <1>4, <1>5, <1>6, <1>7, <1>8, <1>9 DEF ListsChanged
<1> QED
  BY <1>10, ListCall DEF Kept

\* Freeing a loose list, or NULL.
LEMMA FreeVarbindLists ==
  ASSUME NEW h, MemoryOK(h), NEW l, Loose(h, l)
  PROVE  LET g == FreeVarbind(h, l)
         IN  g.live = h.live /\ g.variables = h.variables /\ AllocatedLists(g) = AllocatedLists(h) \ {l}
<1> DEFINE g == FreeVarbind(h, l)
<1>1. CASE l = NULL
  <2>1. g = h
    BY <1>1 DEF FreeVarbind
  <2>2. l \notin AllocatedLists(h)
    BY <1>1, BlocksAssumption DEF AllocatedLists
  <2> HIDE DEF g
  <2> QED
    BY <2>1, <2>2 DEF g
<1>2. CASE l # NULL
  <2>1. l \in Lists /\ h \in Heaps /\ h.chain[l] # <<>> /\ h.chain \in [Lists -> Seq(Oids)]
    BY <1>2, HeapFields DEF Loose, MemoryOK
  <2>2. g.live = h.live /\ g.variables = h.variables /\ g.chain = [h.chain EXCEPT ![l] = <<>>]
    BY <2>1, FreeVarbindFields
  <2> HIDE DEF g
  <2>3. AllocatedLists(g) = AllocatedLists(h) \ {l}
    BY <2>1, <2>2 DEF AllocatedLists
  <2> QED
    BY <2>2, <2>3 DEF g
<1> QED
  BY <1>1, <1>2

\* What adding variables does to which lists there are.
LEMMA VarlistAddLists ==
  ASSUME IInv, NEW l, l = NULL \/ l \in AllocatedLists(heap), NEW s \in Seq(OidArgs), NEW a \in VarlistAdd(heap, l, s)
  PROVE  /\ a.heap.live = heap.live /\ a.heap.variables = heap.variables
         /\ \/ a.list = l /\ AllocatedLists(a.heap) = AllocatedLists(heap)
            \/ /\ l = NULL /\ a.list \in Lists \ AllocatedLists(heap)
               /\ AllocatedLists(a.heap) = AllocatedLists(heap) \cup {a.list}
<1>1. PICK r \in AddLoop(s) :
        a \in IF r.added = <<>> THEN {[heap |-> heap, list |-> l, exc |-> r.exc]}
              ELSE IF l # NULL THEN {[heap |-> GrowList(heap, l, r.added), list |-> l, exc |-> r.exc]}
              ELSE {[heap |-> NewList(heap, n, r.added), list |-> n, exc |-> r.exc] : n \in FreshLists(heap)}
  BY DEF VarlistAdd
<1>2. r.added \in Seq(Oids) /\ heap \in Heaps /\ heap.chain \in [Lists -> Seq(Oids)]
  BY AddLoopType, HeldSafe, HeapFields
<1>3. CASE r.added = <<>>
  BY <1>1, <1>3
<1>4. CASE r.added # <<>> /\ l # NULL
  <2> DEFINE g == GrowList(heap, l, r.added)
  <2>1. l \in Lists /\ heap.chain[l] # <<>>
    BY <1>4 DEF AllocatedLists
  <2>2. g.live = heap.live /\ g.variables = heap.variables /\ g.chain = [heap.chain EXCEPT ![l] = @ \o r.added]
    BY <1>2, <2>1, GrowListFields
  <2>3. heap.chain[l] \o r.added # <<>>
    BY <1>2, <2>1
  <2>4. a.heap = g /\ a.list = l
    BY <1>1, <1>4
  <2> HIDE DEF g
  <2>5. AllocatedLists(g) = AllocatedLists(heap)
    BY <1>2, <2>1, <2>2, <2>3 DEF AllocatedLists
  <2> QED
    BY <2>2, <2>4, <2>5
<1>5. CASE r.added # <<>> /\ l = NULL
  <2>1. PICK n \in FreshLists(heap) : a = [heap |-> NewList(heap, n, r.added), list |-> n, exc |-> r.exc]
    BY <1>1, <1>5
  <2> DEFINE g == NewList(heap, n, r.added)
  <2>2. g.live = heap.live /\ g.variables = heap.variables /\ AllocatedLists(g) = AllocatedLists(heap) \cup {n}
    BY <1>2, <1>5, HeldSafe, CarefulStart, CarefulNewList
  <2>3. a.heap = g /\ a.list = n
    BY <2>1
  <2> HIDE DEF g
  <2> QED
    BY <1>5, <2>2, <2>3, FreshListIsNew
<1> QED
  BY <1>3, <1>4, <1>5

-----------------------------------------------------------------------------
\* GetVarlist and AsList share the list of a PDU the client holds,
LEMMA PduListKept ==
  ASSUME LInv, IInv', NEW w \in PduVars, NEW x \in VarlistVars, GetVarlist(w, x) \/ AsList(w, x)
  PROVE  Kept
<1> DEFINE p == pdu[w].ptr
           l == heap.variables[p]
<1>1. CASE Return(heap, pdu, varlist, "logic_error")
  BY <1>1, NothingDone
<1>2. CASE p # NULL /\ Return(heap, pdu, [varlist EXCEPT ![x] = l], "none")
  <2>1. p \in HeldPdus /\ SpareList(x)
    BY <1>2, HeldBy DEF GetVarlist, AsList, Usable
  <2>2. l \in AllocatedLists(heap) => l \in HeldLists
    BY <2>1, ListHeldBy
  <2>3. heap' = heap /\ pdu' = pdu /\ varlist' = [varlist EXCEPT ![x] = l]
    BY <1>2 DEF Return
  <2> HIDE DEF l
  <2>4. ListAssigned(heap, x, l)
    BY <2>1, <2>2, <2>3 DEF ListAssigned, NewLists
  <2> QED
    BY <2>4, ListObjectCall
<1> QED
  BY <1>1, <1>2 DEF GetVarlist, AsList

\* ClearList forgets one that is held elsewhere,
LEMMA ClearListKept ==
  ASSUME LInv, IInv', NEW x \in VarlistVars, ClearList(x)
  PROVE  Kept
<1>1. SpareList(x) /\ heap' = heap /\ pdu' = pdu /\ varlist' = [varlist EXCEPT ![x] = NULL]
  BY DEF ClearList, Return
<1>2. NULL \notin AllocatedLists(heap)
  BY BlocksAssumption DEF AllocatedLists
<1>3. ListAssigned(heap, x, NULL)
  BY <1>1, <1>2 DEF ListAssigned, NewLists
<1> QED
  BY <1>3, ListObjectCall

\* CopyList replaces such a one by that of another object.
LEMMA CopyListKept ==
  ASSUME LInv, IInv', NEW y \in VarlistVars, NEW x \in VarlistVars, CopyList(y, x)
  PROVE  Kept
<1>1. SpareList(x) /\ heap' = heap /\ pdu' = pdu /\ varlist' = [varlist EXCEPT ![x] = varlist[y]]
  BY DEF CopyList, Return
<1>2. varlist[y] \in AllocatedLists(heap) => varlist[y] \in HeldLists
  BY ListHeldBy
<1>3. ListAssigned(heap, x, varlist[y])
  BY <1>1, <1>2 DEF ListAssigned, NewLists
<1> QED
  BY <1>3, ListObjectCall

\* AddListVars creates the object's list, or lengthens it.
LEMMA AddListVarsKept ==
  ASSUME LInv, IInv', NEW x \in VarlistVars, NEW s \in VecOids, AddListVars(x, s)
  PROVE  Kept
<1> DEFINE l == varlist[x]
<1>1. PICK a \in VarlistAdd(heap, l, s) : Return(a.heap, pdu, [varlist EXCEPT ![x] = a.list], a.exc)
  BY DEF AddListVars
<1>2. s \in Seq(OidArgs) /\ (l = NULL \/ l \in AllocatedLists(heap))
  BY BoundedSeqType DEF VecOids, AddListVars, UsableList, Allocated
<1> DEFINE h == a.heap
           n == a.list
<1>3. /\ h.live = heap.live /\ h.variables = heap.variables
      /\ \/ n = l /\ AllocatedLists(h) = AllocatedLists(heap)
         \/ /\ l = NULL /\ n \in Lists \ AllocatedLists(heap)
            /\ AllocatedLists(h) = AllocatedLists(heap) \cup {n}
  <2> HIDE DEF l
  <2> QED
    BY <1>1, <1>2, VarlistAddLists DEF LInv
<1>4. heap' = h /\ pdu' = pdu /\ varlist' = [varlist EXCEPT ![x] = n]
  BY <1>1 DEF Return
<1> HIDE DEF h, n
<1>5. varlist'[x] = n
  BY <1>4, PduFunction DEF LInv
<1>6. l = NULL => SpareList(x)
  BY BlocksAssumption DEF SpareList, Allocated, AllocatedLists
<1>7. n = l => varlist' = varlist
  BY <1>4, PduFunction DEF LInv
<1>8. n \in AllocatedLists(heap) => n \in HeldLists
  BY <1>3, ListHeldBy
<1>9. ListAssigned(h, x, n)
  BY <1>3, <1>4, <1>5, <1>6, <1>7, <1>8 DEF ListAssigned, NewLists
<1> QED
  BY <1>9, ListObjectCall

\* A call that frees the object's list, if it has one, and leaves it none.
LEMMA FreeOwnedKept ==
  ASSUME LInv, IInv', NEW x \in VarlistVars, OwnedList(x), NEW e,
         Return(FreeVarbind(heap, varlist[x]), pdu, [varlist EXCEPT ![x] = NULL], e)
  PROVE  Kept
<1> DEFINE l == varlist[x]
           h == FreeVarbind(heap, l)
<1>1. heap' = h /\ pdu' = pdu /\ varlist' = [varlist EXCEPT ![x] = NULL]
  BY DEF Return
<1>2. Loose(heap, l) /\ MemoryOK(heap)
  BY OwnedLoose, HeldSafe DEF LInv
<1>3. h.live = heap.live /\ h.variables = heap.variables /\ AllocatedLists(h) = AllocatedLists(heap) \ {l}
  BY <1>2, FreeVarbindLists
<1> HIDE DEF h
<1>4. NULL \notin AllocatedLists(heap) /\ NewLists(h) = {}
  BY <1>3, BlocksAssumption DEF AllocatedLists, NewLists
<1>5. AllocatedLists(heap) \subseteq AllocatedLists(h) => SpareList(x)
  BY <1>3 DEF SpareList, Allocated
<1>6. ListAssigned(h, x, NULL)
  BY <1>1, <1>3, <1>4, <1>5 DEF ListAssigned
<1> QED
  BY <1>6, ListObjectCall

\* FreeList and sendV2Trap( varlist ) do that.
LEMMA ListFreedKept ==
  ASSUME LInv, IInv', NEW x \in VarlistVars, FreeList(x) \/ CallSendTrapList(x)
  PROVE  Kept
<1>1. OwnedList(x)
  BY DEF FreeList, CallSendTrapList
<1>2. CASE FreeList(x)
  BY <1>1, <1>2, FreeOwnedKept DEF FreeList
<1>3. CASE CallSendTrapList(x)
  <2>1. PICK r \in SendTrapList(heap, varlist[x]) : Return(r.heap, pdu, [varlist EXCEPT ![x] = r.list], r.exc)
    BY <1>3 DEF CallSendTrapList
  <2>2. r.heap = FreeVarbind(heap, varlist[x]) /\ r.list = NULL
    BY DEF SendTrapList, Sent, FreeVarbind
  <2> QED
    BY <1>1, <2>1, <2>2, FreeOwnedKept
<1> QED
  BY <1>2, <1>3

\* CallCreateTrapVarlist gives the object a new list, or none.
LEMMA CallCreateTrapVarlistKept ==
  ASSUME LInv, IInv', NEW o, NEW x \in VarlistVars, CallCreateTrapVarlist(o, x)
  PROVE  Kept
<1>1. PICK r \in CreateTrapVarlist(heap, o) :
        Return(r.heap, pdu, IF r.exc = "none" THEN [varlist EXCEPT ![x] = r.list] ELSE varlist, r.exc)
  BY DEF CallCreateTrapVarlist
<1>2. SpareList(x)
  BY DEF CallCreateTrapVarlist
<1>3. CASE r.exc # "none"
  <2>1. r.heap = heap
    BY <1>3 DEF CreateTrapVarlist, Sent
  <2> QED
    BY <1>1, <1>3, <2>1, NothingDone
<1>4. CASE r = Sent(heap, NULL, "none")
  <2>1. heap' = heap /\ pdu' = pdu /\ varlist' = [varlist EXCEPT ![x] = NULL]
    BY <1>1, <1>4 DEF Return, Sent
  <2>2. NULL \notin AllocatedLists(heap)
    BY BlocksAssumption DEF AllocatedLists
  <2>3. ListAssigned(heap, x, NULL)
    BY <1>2, <2>1, <2>2 DEF ListAssigned, NewLists
  <2> QED
    BY <2>3, ListObjectCall
<1>5. CASE \E l \in FreshLists(heap), s \in {<<kSysUpTime>>, <<kTrap>>, <<kSysUpTime, kTrap>>} :
             r = Sent(NewList(heap, l, s), l, "none")
  <2>1. PICK l \in FreshLists(heap), s \in {<<kSysUpTime>>, <<kTrap>>, <<kSysUpTime, kTrap>>} :
             r = Sent(NewList(heap, l, s), l, "none")
    BY <1>5
  <2>2. s \in Seq(Oids) /\ s # <<>>
    <3>1. kSysUpTime \in Oids /\ kTrap \in Oids
      BY TrapOidsAssumption
    <3>2. <<kSysUpTime>> \in Seq(Oids) /\ <<kTrap>> \in Seq(Oids) /\ <<kSysUpTime, kTrap>> \in Seq(Oids)
      BY <3>1
    <3>3. <<kSysUpTime>> # <<>> /\ <<kTrap>> # <<>> /\ <<kSysUpTime, kTrap>> # <<>>
      OBVIOUS
    <3> QED
      BY <2>1, <3>2, <3>3
  <2> DEFINE h == NewList(heap, l, s)
  <2>3. h.live = heap.live /\ h.variables = heap.variables /\ AllocatedLists(h) = AllocatedLists(heap) \cup {l}
    BY <2>2, HeldSafe, CarefulStart, CarefulNewList DEF LInv
  <2>4. heap' = h /\ pdu' = pdu /\ varlist' = [varlist EXCEPT ![x] = l]
    BY <1>1, <2>1 DEF Return, Sent
  <2> HIDE DEF h
  <2>5. varlist'[x] = l /\ l \notin AllocatedLists(heap)
    BY <2>4, PduFunction, FreshListIsNew DEF LInv
  <2>6. ListAssigned(h, x, l)
    BY <1>2, <2>3, <2>4, <2>5 DEF ListAssigned, NewLists
  <2> QED
    BY <2>6, ListObjectCall
<1> QED
  BY <1>3, <1>4, <1>5 DEF CreateTrapVarlist, Sent

\* setVarlist frees the PDU's list and gives it that of the object.
LEMMA SetVarlistKept ==
  ASSUME LInv, IInv', NEW w \in PduVars, NEW x \in VarlistVars, SetVarlist(w, x)
  PROVE  Kept
<1> DEFINE p == pdu[w].ptr
           l == varlist[x]
           o == heap.variables[p]
<1>1. CASE Return(heap, pdu, varlist, "logic_error")
  BY <1>1, NothingDone
<1>2. CASE p # NULL /\ l = o /\ Return(SetVariables(heap, p, l), pdu, varlist, "none")
  <2>1. SetVariables(heap, p, l) = heap
    BY <1>2, HeldSafe, DerefLive DEF SetVarlist, Usable, SetVariables, LInv
  <2> QED
    BY <1>2, <2>1, NothingDone
<1>3. CASE p # NULL /\ l # o /\ OwnedList(x) /\ Return(SetVariables(heap, p, l), pdu, varlist, "none")
  <2> DEFINE f == FreeVarbind(heap, o)
             h == PointTo(f, p, l)
  <2>1. p \in heap.live /\ p \in HeldPdus /\ p \in Pdus /\ heap \in Heaps /\ MemoryOK(heap)
        /\ heap.variables \in [Pdus -> Lists \cup {NULL}] /\ heap.chain \in [Lists -> Seq(Oids)]
        /\ l \in Lists \cup {NULL}
    BY <1>3, HeldBy, HeldSafe, HeapFields DEF SetVarlist, Usable, LInv, Pointers
  <2>2. /\ f \in Heaps /\ f.live = heap.live /\ f.variables = heap.variables
        /\ AllocatedLists(f) = AllocatedLists(heap) \ {o}
    <3>1. CASE o = NULL
      <4>1. f = heap
        BY <3>1 DEF FreeVarbind
      <4>2. o \notin AllocatedLists(heap)
        BY <3>1, BlocksAssumption DEF AllocatedLists
      <4> HIDE DEF f
      <4> QED
        BY <2>1, <4>1, <4>2
    <3>2. CASE o # NULL
      <4>1. o \in Lists /\ heap.chain[o] # <<>>
        BY <2>1, <3>2 DEF MemoryOK
      <4>2. f \in Heaps /\ f.live = heap.live /\ f.variables = heap.variables /\ f.chain = [heap.chain EXCEPT ![o] = <<>>]
        BY <2>1, <4>1, FreeVarbindFields
      <4> HIDE DEF f
      <4>3. AllocatedLists(f) = AllocatedLists(heap) \ {o}
        BY <2>1, <4>1, <4>2 DEF AllocatedLists
      <4> QED
        BY <4>2, <4>3
    <3> QED
      BY <3>1, <3>2
  <2>3. SetVariables(heap, p, l) = h
    BY <1>3 DEF SetVariables
  <2> HIDE DEF f
  <2>4. h.live = f.live /\ h.variables = [f.variables EXCEPT ![p] = l] /\ h.chain = f.chain
    BY <2>1, <2>2, PointToFields
  <2>5. heap' = h /\ pdu' = pdu /\ varlist' = varlist
    BY <1>3, <2>3 DEF Return
  <2> HIDE DEF h
  <2>6. AllocatedLists(h) = AllocatedLists(heap) \ {o}
    BY <2>2, <2>4 DEF AllocatedLists
  <2>7. l \in AllocatedLists(heap) => l \in HeldLists
    BY ListHeldBy
  <2>8. ListGiven(h, p, l)
    BY <2>2, <2>4, <2>5, <2>6, <2>7 DEF ListGiven, NewLists
  <2> QED
    BY <2>1, <2>8, ListPduCall
<1> QED
  BY <1>1, <1>2, <1>3 DEF SetVarlist

\* AddVars lengthens the PDU's list, or creates it.
LEMMA AddVarsKept ==
  ASSUME LInv, IInv', NEW w \in PduVars, NEW s \in VecOids, AddVars(w, s)
  PROVE  Kept
<1> DEFINE p == pdu[w].ptr
           o == heap.variables[p]
<1>1. PICK r \in PduAdd(heap, p, s) : Return(r.heap, pdu, varlist, r.exc)
  BY DEF AddVars
<1>2. s \in Seq(OidArgs)
  BY BoundedSeqType DEF VecOids
<1>3. CASE p = NULL
  <2>1. r.heap = heap
    BY <1>3 DEF PduAdd
  <2> QED
    BY <1>1, <2>1, NothingDone
<1>4. CASE p # NULL
  <2>1. p \in heap.live /\ p \in HeldPdus /\ p \in Pdus /\ heap \in Heaps
        /\ heap.variables \in [Pdus -> Lists \cup {NULL}] /\ heap.live \subseteq Pdus
    BY <1>4, HeldBy, HeldSafe, HeapFields DEF AddVars, Usable, LInv
  <2>2. Deref(heap, p) = heap
    BY <2>1, DerefLive
  <2>3. PICK a \in VarlistAdd(heap, o, s) :
          r = [heap |-> IF a.exc = "none" THEN SetVariables(a.heap, p, a.list) ELSE a.heap, exc |-> a.exc]
    BY <1>4, <2>2 DEF PduAdd
  <2>4. o = NULL \/ o \in AllocatedLists(heap)
    BY <2>1, PduListAllocated DEF LInv
  <2> DEFINE g == a.heap
             n == a.list
  <2>5. /\ g.live = heap.live /\ g.variables = heap.variables
        /\ \/ n = o /\ AllocatedLists(g) = AllocatedLists(heap)
           \/ /\ o = NULL /\ n \in Lists \ AllocatedLists(heap)
              /\ AllocatedLists(g) = AllocatedLists(heap) \cup {n}
    <3> HIDE DEF o
    <3> QED
      BY <1>2, <2>3, <2>4, VarlistAddLists DEF LInv
  <2>6. MemoryOK(g)
    <3>1. o = NULL \/ (o \in Lists /\ heap.chain[o] # <<>>)
      BY <2>4 DEF AllocatedLists
    <3> HIDE DEF o
    <3> QED
      BY <1>2, <2>3, <3>1, HeldSafe, VarlistAddOK DEF LInv
  <2>7. r.exc = a.exc /\ r.heap = IF a.exc = "none" THEN SetVariables(g, p, n) ELSE g
    BY <2>3
  <2> HIDE DEF g, n
  <2>8. g \in Heaps /\ NULL \notin Lists
    BY <2>6, BlocksAssumption DEF MemoryOK
  <2>9. heap' = r.heap /\ pdu' = pdu /\ varlist' = varlist /\ exc' = r.exc
    BY <1>1 DEF Return
  <2>10. n \in AllocatedLists(heap) => n \in HeldLists
    BY <2>1, <2>5, ListHeldBy
  <2>11. CASE a.exc # "none" \/ n = o
    <3>1. r.heap = g
      BY <2>1, <2>5, <2>7, <2>8, <2>11, DerefLive DEF SetVariables
    <3>2. r.exc = "none" => NewLists(g) = {}
      BY <2>5, <2>7, <2>8, <2>11 DEF NewLists
    <3>3. ListGiven(g, p, n)
      BY <2>5, <2>9, <2>10, <3>1, <3>2 DEF ListGiven
    <3> QED
      BY <2>1, <3>3, ListPduCall
  <2>12. CASE a.exc = "none" /\ n # o
    <3> DEFINE h == PointTo(g, p, n)
    <3>1. n \in Lists /\ o = NULL /\ g.variables[p] = NULL /\ p \in g.live
      BY <2>1, <2>5, <2>12
    <3>2. r.heap = h
      BY <2>7, <2>12, <3>1 DEF SetVariables, FreeVarbind
    <3>3. h.live = g.live /\ h.variables = [g.variables EXCEPT ![p] = n] /\ h.chain = g.chain
      BY <2>8, <3>1, PointToFields
    <3> HIDE DEF h
    <3>4. AllocatedLists(h) = AllocatedLists(heap) \cup {n} /\ NULL \notin AllocatedLists(h)
      BY <2>5, <2>8, <2>12, <3>3 DEF AllocatedLists
    <3>5. h.variables = [heap.variables EXCEPT ![p] = n] /\ h.variables[p] = n
      BY <2>1, <2>5, <3>3
    <3>6. NewLists(h) \subseteq {n}
      BY <3>4 DEF NewLists
    <3>7. ListGiven(h, p, n)
      BY <2>5, <2>9, <2>10, <3>1, <3>2, <3>3, <3>4, <3>5, <3>6 DEF ListGiven
    <3> QED
      BY <2>1, <3>7, ListPduCall
  <2> QED
    BY <2>11, <2>12
<1> QED
  BY <1>3, <1>4

-----------------------------------------------------------------------------
\* Nothing is held or lost initially.
LEMMA LInit == Init => LInv /\ Lifecycle!Init
<1> SUFFICES ASSUME Init PROVE LInv /\ Lifecycle!Init
  OBVIOUS
<1>1. heap.live = {} /\ AllocatedLists(heap) = {} /\ exc = "none"
  BY DEF Init, EmptyHeap, AllocatedLists
<1>2. HeldPdus = {} /\ HeldLists = {} /\ LostPdus = {}
  BY <1>1 DEF HeldPdus, HeldLists, LostPdus
<1>3. LInv
  BY <1>2, InitOK DEF LInv, NoStray
<1>4. Lifecycle!Init
  BY <1>1, <1>2 DEF Lifecycle!Init
<1> QED
  BY <1>3, <1>4

\* Every call is a step of BlockLifecycle and keeps the invariant.
LEMMA NextKept ==
  ASSUME LInv, IInv', Next
  PROVE  Kept
<1>1. CASE WrapperStep
  <2>1. ASSUME NEW w \in PduVars, NEW t \in ClientTypes, NewPdu(w, t) PROVE Kept
    BY <2>1, NewPduKept
  <2>2. ASSUME NEW w \in PduVars, Free(w) \/ Clear(w) PROVE Kept
    BY <2>2, FreeKept, ClearKept
  <2>3. ASSUME NEW w \in PduVars, NEW d \in PduVars, Copy(w, d) \/ Clone(w, d) PROVE Kept
    BY <2>3, CopyKept, CloneKept
  <2>4. ASSUME NEW w \in PduVars, NEW x \in VarlistVars, SetVarlist(w, x) \/ GetVarlist(w, x) \/ AsList(w, x)
        PROVE  Kept
    BY <2>4, SetVarlistKept, PduListKept
  <2>5. ASSUME NEW w \in PduVars, NEW s \in VecOids, AddVars(w, s) PROVE Kept
    BY <2>5, AddVarsKept
  <2>6. ASSUME NEW x \in VarlistVars, NEW s \in VecOids, AddListVars(x, s) PROVE Kept
    BY <2>6, AddListVarsKept
  <2>7. ASSUME NEW x \in VarlistVars, FreeList(x) \/ ClearList(x) PROVE Kept
    BY <2>7, ListFreedKept, ClearListKept
  <2>8. ASSUME NEW x \in VarlistVars, NEW y \in VarlistVars, CopyList(y, x) PROVE Kept
    BY <2>8, CopyListKept
  <2> QED
    BY <1>1, <2>1, <2>2, <2>3, <2>4, <2>5, <2>6, <2>7, <2>8 DEF WrapperStep
<1>2. CASE RequestStep
  <2>1. ASSUME NEW w \in PduVars, NEW d \in PduVars, CallSync(w, d) \/ CallGetNext(w, d) \/ CallGetBulk(w, d)
        PROVE  Kept
    BY <2>1, RequestKept
  <2>2. ASSUME NEW d \in PduVars, NEW t \in {"kGet", "kGetNext", "kSet"}, NEW o \in OidArgs, CallSendOid(t, o, d)
        PROVE  Kept
    BY <2>2, CallSendOidKept DEF PduTypes
  <2>3. ASSUME NEW d \in PduVars, NEW S \in OidSets, CallGetSet(S, d) PROVE Kept
    BY <2>3, CallGetSetKept DEF OidSets
  <2>4. ASSUME NEW d \in PduVars, NEW o \in OidArgs, CallGetBulkOid(o, d) PROVE Kept
    BY <2>4, CallGetBulkOidKept
  <2> QED
    BY <1>2, <2>1, <2>2, <2>3, <2>4 DEF RequestStep
<1>3. CASE TrapStep
  BY <1>3, CallCreateTrapVarlistKept, ListFreedKept, CallSendTrapPduKept, CallSendTrapOidKept DEF TrapStep
<1> QED
  BY <1>1, <1>2, <1>3 DEF Next

\* So is a step that changes nothing.
LEMMA LStep == LInv /\ [Next]_vars => LInv' /\ [Lifecycle!Call]_<<HeldPdus \cup HeldLists, LostPdus \cup LostLists, exc # "none">>
<1> SUFFICES ASSUME LInv, [Next]_vars
             PROVE  LInv' /\ [Lifecycle!Call]_<<HeldPdus \cup HeldLists, LostPdus \cup LostLists, exc # "none">>
  OBVIOUS
<1>1. IInv'
  BY StepOK DEF LInv
<1>2. CASE Next
  BY <1>1, <1>2, NextKept DEF Kept, LInv
<1>3. CASE UNCHANGED vars
  <2>1. HeldPdus' = HeldPdus /\ HeldLists' = HeldLists /\ LostPdus' = LostPdus /\ LostLists' = LostLists /\ exc' = exc
    BY <1>3 DEF vars, HeldPdus, HeldLists, LostPdus, LostLists
  <2>2. NoStray'
    BY <1>3, <2>1 DEF vars, LInv, NoStray
  <2> QED
    BY <1>1, <2>1, <2>2 DEF LInv
<1> QED
  BY <1>2, <1>3

(***************************************************************************)
(* For any number of blocks, objects and OIDs, whatever the agents answer  *)
(* and wherever net-snmp fails: a call of the library that returns leaks   *)
(* nothing, one that throws leaks only what it allocated itself            *)
(* (PDU.cpp:340-346, Get.cpp:75-78, 153-163), and what has leaked is never *)
(* touched again.                                                          *)
(***************************************************************************)
THEOREM LifecycleImplemented == Spec => ImplementsLifecycle
<1>1. Lifecycle!Spec <=> Lifecycle!Init /\ [][Lifecycle!Call]_<<HeldPdus \cup HeldLists, LostPdus \cup LostLists, exc # "none">>
  BY DEF Lifecycle!Spec, LostPdus, LostLists
<1> QED
  BY <1>1, LInit, LStep, PTL DEF Spec, ImplementsLifecycle
=============================================================================
