--------------------------- MODULE ExchangeProofs ---------------------------
(***************************************************************************)
(* That Exchange implements RemoteCall, for any number of clients,         *)
(* requests, retries and duplicates.                                       *)
(***************************************************************************)
EXTENDS Exchange, TLAPS

\* What the counters of a request have to do with each other and with its outcome.
CountsOK(r) ==
  /\ times[r] + underway[r] <= sent[r] + copied[r]
  /\ sent[r] <= Retries + 1
  /\ copied[r] <= MaxCopies
  /\ outcome[r] = "new" => sent[r] = 0 /\ copied[r] = 0
  /\ outcome[r] = "returned" => times[r] > 0
  /\ oks[r] > 0 => times[r] > 0

\* What a client's call has to do with the outcome of its request.
CallOK(c) ==
  /\ current[c] = None => response[c] = "none"
  /\ current[c] # None => outcome[current[c]] = "calling"
  /\ response[c] = "ok" => times[current[c]] > 0

OneCaller == \A c, d \in Clients : current[c] = current[d] /\ current[c] # None => c = d

IInv ==
  /\ TypeOK
  /\ \A r \in Requests : CountsOK(r)
  /\ \A c \in Clients : CallOK(c)
  /\ OneCaller

LEMMA InitOK == Init => IInv
BY RequestsAssumption, RetriesAssumption
   DEF Init, IInv, TypeOK, CountsOK, CallOK, OneCaller, Zero

LEMMA CallSyncOK ==
  ASSUME IInv, NEW c \in Clients, NEW r \in Requests, CallSync(c, r)
  PROVE  IInv'
<1>1. TypeOK'
  BY DEF IInv, TypeOK, CallSync
<1>2. ASSUME NEW q \in Requests PROVE CountsOK(q)'
  BY RetriesAssumption DEF IInv, TypeOK, CountsOK, CallSync
<1>3. ASSUME NEW d \in Clients PROVE CallOK(d)'
  BY RequestsAssumption DEF IInv, TypeOK, CallOK, CallSync
<1>4. OneCaller'
  BY RequestsAssumption DEF IInv, TypeOK, CallOK, OneCaller, CallSync
<1> QED
  BY <1>1, <1>2, <1>3, <1>4 DEF IInv

LEMMA StepOK ==
  ASSUME IInv, NEW c \in Clients, Step(c) \/ SocketFails(c)
  PROVE  IInv'
<1> USE RequestsAssumption, RetriesAssumption
<1>1. CASE Resend(c)
  BY <1>1 DEF IInv, TypeOK, CountsOK, CallOK, OneCaller, Resend, Waiting
<1>2. CASE GiveUp(c) \/ SocketFails(c)
  BY <1>2 DEF IInv, TypeOK, CountsOK, CallOK, OneCaller, GiveUp, SocketFails, Waiting, network
<1>3. CASE Receive(c)
  <2>1. current[c] \in Requests /\ times[current[c]] >= 0
    BY <1>3 DEF IInv, TypeOK, Receive, Waiting
  <2>2. /\ UNCHANGED <<current, outcome, sent, copied, underway, times>>
        /\ response' \in [Clients -> {"none", "ok", "errstat", "NULL"}]
        /\ \A d \in Clients \ {c} : response'[d] = response[d]
        /\ response'[c] = "ok" => oks[current[c]] > 0
    BY <1>3, <2>1 DEF IInv, TypeOK, Receive
  <2>3. /\ oks' \in [Requests -> Nat] /\ errors' \in [Requests -> Nat]
        /\ \A q \in Requests : oks'[q] <= oks[q]
    BY <1>3, <2>1 DEF IInv, TypeOK, Receive
  <2>4. TypeOK'
    BY <2>2, <2>3 DEF IInv, TypeOK
  <2>5. ASSUME NEW q \in Requests PROVE CountsOK(q)'
    BY <2>2, <2>3 DEF IInv, TypeOK, CountsOK
  <2>6. ASSUME NEW d \in Clients PROVE CallOK(d)'
    BY <1>3, <2>1, <2>2 DEF IInv, CountsOK, CallOK, Receive, Waiting
  <2>7. OneCaller'
    BY <2>2 DEF IInv, OneCaller
  <2> QED
    BY <2>4, <2>5, <2>6, <2>7 DEF IInv
<1>4. CASE Finish(c)
  <2>1. current[c] \in Requests
    BY <1>4 DEF IInv, TypeOK, CallOK, Finish
  <2>2. TypeOK'
    BY <1>4, <2>1 DEF IInv, TypeOK, Finish, network
  <2>3. ASSUME NEW q \in Requests PROVE CountsOK(q)'
    BY <1>4, <2>1 DEF IInv, TypeOK, CountsOK, CallOK, Finish, network
  <2>4. ASSUME NEW d \in Clients PROVE CallOK(d)'
    BY <1>4, <2>1 DEF IInv, TypeOK, CallOK, OneCaller, Finish, network
  <2>5. OneCaller'
    BY <1>4 DEF IInv, TypeOK, OneCaller, Finish
  <2> QED
    BY <2>2, <2>3, <2>4, <2>5 DEF IInv
<1> QED
  BY <1>1, <1>2, <1>3, <1>4 DEF Step

LEMMA NetworkOK ==
  ASSUME IInv, NEW r \in Requests, Lose(r) \/ Duplicate(r) \/ CarryOut(r) \/ Refuse(r)
  PROVE  IInv'
<1> USE RequestsAssumption, RetriesAssumption
<1>1. CASE Lose(r)
  <2>1. /\ UNCHANGED <<current, response, outcome, sent, copied, times>>
        /\ underway' \in [Requests -> Nat] /\ oks' \in [Requests -> Nat] /\ errors' \in [Requests -> Nat]
        /\ \A q \in Requests : underway'[q] <= underway[q] /\ oks'[q] <= oks[q]
    BY <1>1 DEF IInv, TypeOK, Lose
  <2>2. TypeOK'
    BY <2>1 DEF IInv, TypeOK
  <2>3. ASSUME NEW q \in Requests PROVE CountsOK(q)'
    BY <2>1 DEF IInv, TypeOK, CountsOK
  <2>4. (\A c \in Clients : CallOK(c))' /\ OneCaller'
    BY <2>1 DEF IInv, CallOK, OneCaller
  <2> QED
    BY <2>2, <2>3, <2>4 DEF IInv
<1>2. CASE Duplicate(r)
  BY <1>2 DEF IInv, TypeOK, CountsOK, CallOK, OneCaller, Duplicate
<1>3. CASE CarryOut(r)
  BY <1>3 DEF IInv, TypeOK, CountsOK, CallOK, OneCaller, CarryOut
<1>4. CASE Refuse(r)
  BY <1>4 DEF IInv, TypeOK, CountsOK, CallOK, OneCaller, Refuse
<1> QED
  BY <1>1, <1>2, <1>3, <1>4

LEMMA NextOK ==
  ASSUME IInv, [Next]_vars
  PROVE  IInv'
<1>1. CASE UNCHANGED vars
  BY <1>1 DEF IInv, TypeOK, CountsOK, CallOK, OneCaller, vars
<1> QED
  BY <1>1, CallSyncOK, StepOK, NetworkOK DEF Next

LEMMA Inductive == Spec => []IInv
BY InitOK, NextOK, PTL DEF Spec

\* The types, for any number of clients and requests.
THEOREM TypeCorrect == Spec => []TypeOK
<1>1. IInv => TypeOK
  BY DEF IInv
<1> QED
  BY <1>1, Inductive, PTL

\* sync is a remote call that may be carried out more than once: it returns only if the
\* agent has carried the request out, for any number of clients, retries and duplicates.
THEOREM SyncIsARemoteCall == Spec => ImplementsRemoteCall
<1>1. Init => Call!Init
  BY DEF Init, Call!Init, Zero
<1>2. ASSUME IInv, [Next]_vars PROVE [Call!Next]_(Call!vars)
  <2> USE RequestsAssumption, RetriesAssumption
  <2>1. ASSUME NEW c \in Clients, NEW r \in Requests, CallSync(c, r)
        PROVE  Call!Call(r)
    BY <2>1 DEF CallSync, Call!Call
  <2>2. ASSUME NEW c \in Clients, Resend(c) \/ GiveUp(c) \/ SocketFails(c) \/ Receive(c)
        PROVE  UNCHANGED Call!vars
    BY <2>2 DEF Resend, GiveUp, SocketFails, Receive, network, Call!vars
  <2>3. ASSUME NEW c \in Clients, Finish(c)
        PROVE  Call!Return(current[c]) \/ Call!Throw(current[c])
    <3>1. outcome[current[c]] = "calling"
      BY <1>2, <2>3 DEF IInv, CallOK, Finish
    <3>2. response[c] = "ok" => times[current[c]] > 0
      BY <1>2 DEF IInv, CallOK
    <3> QED
      BY <2>3, <3>1, <3>2 DEF Finish, network, Call!Return, Call!Throw
  <2>4. ASSUME NEW c \in Clients, Finish(c) PROVE current[c] \in Requests
    BY <1>2, <2>4 DEF IInv, TypeOK, CallOK, Finish
  <2>5. ASSUME NEW r \in Requests, Lose(r) \/ Duplicate(r) \/ Refuse(r)
        PROVE  UNCHANGED Call!vars
    BY <2>5 DEF Lose, Duplicate, Refuse, Call!vars
  <2>6. ASSUME NEW r \in Requests, CarryOut(r)
        PROVE  Call!CarryOut(r)
    <3>1. outcome[r] # "new" /\ times[r] < Retries + 1 + MaxCopies
      BY <1>2, <2>6 DEF IInv, TypeOK, CountsOK, CarryOut
    <3> QED
      BY <2>6, <3>1 DEF CarryOut, Call!CarryOut
  <2>7. CASE UNCHANGED vars
    BY <2>7 DEF vars, Call!vars
  <2> QED
    BY <1>2, <2>1, <2>2, <2>3, <2>4, <2>5, <2>6, <2>7 DEF Next, Step, Call!Next
<1> QED
  BY <1>1, <1>2, Inductive, PTL DEF Spec, ImplementsRemoteCall, Call!Spec

\* A request that was sent once and whose call has returned is never carried out again.
THEOREM ReturnedStaysReturned == Spec => OnlyRetriesComeBack
<1> DEFINE Back == \A r \in Requests :
      outcome[r] = "returned" /\ times'[r] # times[r] => sent[r] > 1 \/ copied[r] > 0
<1>1. ASSUME IInv, [Next]_vars PROVE [Back]_vars
  <2>1. ASSUME NEW r \in Requests, outcome[r] = "returned", times'[r] # times[r]
        PROVE  sent[r] > 1 \/ copied[r] > 0
    <3>1. underway[r] > 0
      BY <1>1, <2>1 DEF IInv, TypeOK, Next, Step, CallSync, Resend, GiveUp, SocketFails, Receive,
                        Finish, Lose, Duplicate, CarryOut, Refuse, network, vars
    <3>2. times[r] > 0 /\ times[r] + underway[r] <= sent[r] + copied[r]
      BY <1>1, <2>1 DEF IInv, CountsOK
    <3> QED
      BY <1>1, <3>1, <3>2 DEF IInv, TypeOK
  <2> QED
    BY <2>1
<1> QED
  BY <1>1, Inductive, PTL DEF Spec, OnlyRetriesComeBack
=============================================================================
