------------------------------ MODULE Requests ------------------------------
(***************************************************************************)
(* Sending a request and waiting for its response: Get.cpp and Set.cpp.    *)
(* Every function ends in sync(), which hands the request to               *)
(* snmp_sess_synch_response; net-snmp frees it whatever the answer is.     *)
(* A call is one action: the PDUs, lists and objects it works on belong to *)
(* the calling thread.  What the session and the agent answer is chosen    *)
(* freely: nothing, an error, or a response with any variables.            *)
(***************************************************************************)
EXTENDS Wrappers

\* How a call ends: the heap, the request object, the response (NULL unless
\* the call returns) and the exception.
Ended(h, req, resp, e) == [heap |-> h, request |-> req, response |-> resp, exc |-> e]

-----------------------------------------------------------------------------
\* What snmp_sess_synch_response does: it frees the request p and sets the response.

NoAnswer(h, p) == FreePdu(h, p)

Answers(h, p) ==
  LET g == FreePdu(h, p)
  IN  {[heap |-> CreateFilled(g, q, "kResponse", l, s), response |-> q] :
         q \in FreshPdus(g), l \in FreshLists(g), s \in Chains \cup {<<>>}}

-----------------------------------------------------------------------------
\* Mutant of Sync: the request is not freed when there is no session.
SyncKeepsRequest(h, req, hasSession) ==
  IF req.ptr = NULL \/ ~hasSession THEN {Ended(h, req, NULL, "invalid_argument")}
  ELSE {Ended(a.heap, NoPdu, a.response, "none") : a \in Answers(h, req.ptr)}

\* sync: req is the request object.
Sync(h, req, hasSession) ==
  IF req.ptr = NULL THEN {Ended(h, req, NULL, "invalid_argument")}
  ELSE IF ~hasSession THEN {Ended(FreePdu(h, req.ptr), NoPdu, NULL, "invalid_argument")}
  ELSE LET answers == Answers(h, req.ptr)
       IN  {Ended(NoAnswer(h, req.ptr), NoPdu, NULL, "runtime_error")}
             \cup {Ended(FreePdu(a.heap, a.response), NoPdu, NULL, "runtime_error") : a \in answers}
             \cup {Ended(a.heap, NoPdu, a.response, "none") : a \in answers}

\* addXVar for each OID of s in turn, on a PDU without a list: what was added before
\* one of them throws stays in the PDU.
AddEach(h, p, s) ==
  UNION {IF r.added = <<>> THEN {[heap |-> h, exc |-> r.exc]}
         ELSE {[heap |-> PointTo(NewList(h, l, r.added), p, l), exc |-> r.exc] : l \in FreshLists(h)} :
           r \in AddLoop(s)}

\* A new PDU of type t for the OIDs s, held by the function's own object.  The OIDs
\* are added one by one (inTurn) or with one call of addNullVars.
BuildRequest(h, t, s, inTurn) ==
  {Ended(h, NoPdu, NULL, "runtime_error")}
    \cup UNION {LET g == CreatePdu(h, p, t)
                IN  {Ended(a.heap, [ptr |-> p, type |-> t], NULL, a.exc) :
                       a \in IF inTurn THEN AddEach(g, p, s) ELSE PduAdd(g, p, s)} : p \in FreshPdus(h)}

\* Build a request and send it, unless building it throws.
BuildAndSync(h, t, s, inTurn, hasSession) ==
  UNION {IF b.exc # "none" THEN {b} ELSE Sync(b.heap, b.request, hasSession) :
           b \in BuildRequest(h, t, s, inTurn)}

\* get( oid ), getNext( oid ), setBooleanVar ... setOctetStringVar
SendOid(h, t, o, hasSession) ==
  IF o = NoOid THEN {Ended(h, NoPdu, NULL, "invalid_argument")}
  ELSE BuildAndSync(h, t, <<o>>, TRUE, hasSession)

\* A std::set of OIDs as the function iterates over it: sorted, without duplicates.
InOrder(S) ==
  {s \in BoundedSeq(S, MaxVars) : Range(s) = S /\ \A i, j \in DOMAIN s : i < j => s[i] < s[j]}

\* get( set of OIDs )
GetSet(h, S, hasSession) ==
  IF S = {} THEN {Ended(h, NoPdu, NULL, "invalid_argument")}
  ELSE UNION {BuildAndSync(h, "kGet", s, TRUE, hasSession) : s \in InOrder(S)}

\* getBulk( oid ): the empty OID is refused by addNullVar, after the PDU was created
GetBulkOid(h, o, hasSession) == BuildAndSync(h, "kGetBulk", <<o>>, TRUE, hasSession)

\* Mutant of GetNext: the PDU is freed before its last OID is read.
GetNextFreesFirst(h, req, hasSession) ==
  IF req.ptr = NULL THEN {Ended(h, req, NULL, "invalid_argument")}
  ELSE {Ended(r.heap, NoPdu, r.response, r.exc) :
          r \in SendOid(Deref(FreePdu(h, req.ptr), req.ptr), "kGetNext", Max(Oids), hasSession)}

\* getNext( pdu ): a PDU of another type is replaced by one that asks for its last OID
GetNext(h, req, hasSession) ==
  LET l == h.variables[req.ptr]
      g == Deref(h, req.ptr)
  IN  IF req.ptr = NULL \/ l = NULL THEN {Ended(h, req, NULL, "invalid_argument")}
      ELSE IF req.type = "kGetNext" THEN Sync(g, req, hasSession)
      ELSE {Ended(r.heap, NoPdu, r.response, r.exc) :
              r \in SendOid(FreePdu(g, req.ptr), "kGetNext", Last(h.chain[l]), hasSession)}

\* Mutant of GetBulk: the PDU that is replaced is not freed.
GetBulkKeepsPdu(h, req, hasSession) ==
  IF req.ptr = NULL \/ h.variables[req.ptr] = NULL THEN {Ended(h, req, NULL, "invalid_argument")}
  ELSE UNION {BuildAndSync(h, "kGetBulk", s, FALSE, hasSession) :
                s \in InOrder(Range(h.chain[h.variables[req.ptr]]))}

\* getBulk( pdu ): a PDU of another type is replaced, in the caller's object, by
\* a kGetBulk one that asks for the set of its OIDs
GetBulk(h, req, hasSession) ==
  LET l == h.variables[req.ptr]
      g == Deref(h, req.ptr)
  IN  IF req.ptr = NULL THEN {Ended(h, req, NULL, "invalid_argument")}
      ELSE IF req.type = "kGetBulk" THEN Sync(g, req, hasSession)
      ELSE IF l = NULL THEN {Ended(g, req, NULL, "logic_error")}
      ELSE UNION {BuildAndSync(FreePdu(g, req.ptr), "kGetBulk", s, FALSE, hasSession) :
                    s \in InOrder(Range(h.chain[l]))}

-----------------------------------------------------------------------------
\* The client's calls.  The response is assigned to object d when the call returns.

Assign(r, pv, d) ==
  IF r.exc = "none" THEN [pv EXCEPT ![d] = Wrap(r.heap, r.response)] ELSE pv

\* The request is object w.
Finish(r, w, d) ==
  Return(r.heap, Assign(r, [pdu EXCEPT ![w] = r.request], d), varlist, r.exc)

CallSync(w, d) ==
  /\ Usable(w) /\ (d = w \/ Spare(d))
  /\ \E hasSession \in BOOLEAN :
       \E r \in Sync(heap, pdu[w], hasSession) : Finish(r, w, d)

CallGetNext(w, d) ==
  /\ Usable(w) /\ (d = w \/ Spare(d))
  /\ \E hasSession \in BOOLEAN :
       \E r \in GetNext(heap, pdu[w], hasSession) : Finish(r, w, d)

CallGetBulk(w, d) ==
  /\ Usable(w) /\ (d = w \/ Spare(d))
  /\ \E hasSession \in BOOLEAN :
       \E r \in GetBulk(heap, pdu[w], hasSession) : Finish(r, w, d)

\* The request is built by the function, in an object the caller never sees.
FinishOwn(r, d) == Return(r.heap, Assign(r, pdu, d), varlist, r.exc)

CallSendOid(t, o, d) ==
  /\ Spare(d)
  /\ \E hasSession \in BOOLEAN :
       \E r \in SendOid(heap, t, o, hasSession) : FinishOwn(r, d)

CallGetSet(S, d) ==
  /\ Spare(d)
  /\ \E hasSession \in BOOLEAN :
       \E r \in GetSet(heap, S, hasSession) : FinishOwn(r, d)

CallGetBulkOid(o, d) ==
  /\ Spare(d)
  /\ \E hasSession \in BOOLEAN :
       \E r \in GetBulkOid(heap, o, hasSession) : FinishOwn(r, d)

\* A std::set of OIDs the client passes; it may contain the empty one.
OidSets == {S \in SUBSET OidArgs : Cardinality(S) <= MaxVars}

RequestStep ==
  \E d \in PduVars :
    \/ \E w \in PduVars : CallSync(w, d) \/ CallGetNext(w, d) \/ CallGetBulk(w, d)
    \/ \E t \in {"kGet", "kGetNext", "kSet"}, o \in OidArgs : CallSendOid(t, o, d)
    \/ \E S \in OidSets : CallGetSet(S, d)
    \/ \E o \in OidArgs : CallGetBulkOid(o, d)
=============================================================================
