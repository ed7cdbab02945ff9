------------------------------ MODULE Exchange ------------------------------
(***************************************************************************)
(* What becomes of a request between sync (Get.cpp:11-58) and the agent.   *)
(* snmp_sess_synch_response sends it, waits for the session's timeout,     *)
(* sends it again as often as the session's retries say (Session.cpp:22,   *)
(* 78), and returns the first answer.  The datagrams may be lost,          *)
(* duplicated and delayed; the agent carries out or refuses each copy that *)
(* reaches it.  Each client is a thread with a session of its own, which   *)
(* makes one call after the other.                                         *)
(***************************************************************************)
EXTENDS Integers

CONSTANTS
  Clients,
  Requests,   \* one value per call, net-snmp's reqid
  None,       \* the request of a client that is in no call
  Retries,    \* the retries of the sessions
  MaxCopies   \* bound: how often the network duplicates a request

ASSUME RequestsAssumption == None \notin Requests
ASSUME RetriesAssumption == Retries \in Nat /\ MaxCopies \in Nat

VARIABLES
  current,    \* the request of each client's call
  response,   \* what snmp_sess_synch_response has returned to each client
  outcome,    \* how the call of each request has ended
  sent,       \* how often each request has been sent
  copied,     \* how often the network has duplicated it
  underway,   \* its copies on the way to the agent
  oks,        \* the answers on the way back that say it was carried out
  errors,     \* and those that carry an error status
  times       \* how often the agent has carried it out

vars == <<current, response, outcome, sent, copied, underway, oks, errors, times>>
network == <<copied, underway, oks, errors, times>>

Zero == [r \in Requests |-> 0]

Init ==
  /\ current = [c \in Clients |-> None]
  /\ response = [c \in Clients |-> "none"]
  /\ outcome = [r \in Requests |-> "new"]
  /\ sent = Zero /\ copied = Zero /\ underway = Zero /\ oks = Zero /\ errors = Zero /\ times = Zero

-----------------------------------------------------------------------------
\* The client's thread

\* sync of a request that exists, on an open session: the checks pass, the first copy is sent.
CallSync(c, r) ==
  /\ current[c] = None
  /\ outcome[r] = "new"
  /\ current' = [current EXCEPT ![c] = r]
  /\ outcome' = [outcome EXCEPT ![r] = "calling"]
  /\ sent' = [sent EXCEPT ![r] = 1]
  /\ underway' = [underway EXCEPT ![r] = 1]
  /\ UNCHANGED <<response, copied, oks, errors, times>>

Waiting(c) == current[c] # None /\ response[c] = "none"

\* Mutant of Resend: the copies are not counted.
ResendForever(c) ==
  /\ Waiting(c)
  /\ sent[current[c]] <= Retries
  /\ underway' = [underway EXCEPT ![current[c]] = 1]
  /\ UNCHANGED <<current, response, outcome, sent, copied, oks, errors, times>>

\* External: the timeout has passed, and there are retries left.
Resend(c) ==
  /\ Waiting(c)
  /\ sent[current[c]] <= Retries
  /\ sent' = [sent EXCEPT ![current[c]] = @ + 1]
  /\ underway' = [underway EXCEPT ![current[c]] = @ + 1]
  /\ UNCHANGED <<current, response, outcome, copied, oks, errors, times>>

\* External: the timeout has passed after the last retry (STAT_TIMEOUT).
GiveUp(c) ==
  /\ Waiting(c)
  /\ sent[current[c]] > Retries
  /\ response' = [response EXCEPT ![c] = "NULL"]
  /\ UNCHANGED <<current, outcome, sent, network>>

\* External: the socket fails (STAT_ERROR).
SocketFails(c) ==
  /\ Waiting(c)
  /\ response' = [response EXCEPT ![c] = "NULL"]
  /\ UNCHANGED <<current, outcome, sent, network>>

\* Mutant of Receive: an answer to any request is taken.
ReceiveAny(c) ==
  /\ Waiting(c)
  /\ \E r \in Requests :
       /\ oks[r] > 0
       /\ oks' = [oks EXCEPT ![r] = @ - 1]
       /\ response' = [response EXCEPT ![c] = "ok"]
  /\ UNCHANGED <<current, outcome, sent, copied, underway, errors, times>>

\* Mutant of Receive: a response without an answer.
ReceiveNothing(c) ==
  /\ Waiting(c)
  /\ oks' = [oks EXCEPT ![current[c]] = @ - 1]
  /\ response' = [response EXCEPT ![c] = "ok"]
  /\ UNCHANGED <<current, outcome, sent, copied, underway, errors, times>>

\* External: an answer is matched with the request by its reqid; one that matches no
\* request of a waiting client is dropped (see Lose).
Receive(c) ==
  /\ Waiting(c)
  /\ LET r == current[c]
     IN  \/ /\ oks[r] > 0
            /\ oks' = [oks EXCEPT ![r] = @ - 1]
            /\ response' = [response EXCEPT ![c] = "ok"]
            /\ UNCHANGED errors
         \/ /\ errors[r] > 0
            /\ errors' = [errors EXCEPT ![r] = @ - 1]
            /\ response' = [response EXCEPT ![c] = "errstat"]
            /\ UNCHANGED oks
  /\ UNCHANGED <<current, outcome, sent, copied, underway, times>>

\* Mutant of Finish: a response is a success whatever its errstat.
FinishAnyResponse(c) ==
  /\ response[c] # "none"
  /\ outcome' = [outcome EXCEPT ![current[c]] = IF response[c] = "NULL" THEN "threw" ELSE "returned"]
  /\ current' = [current EXCEPT ![c] = None]
  /\ response' = [response EXCEPT ![c] = "none"]
  /\ UNCHANGED <<sent, network>>

\* sync throws unless there is a response without an error status.
Finish(c) ==
  /\ response[c] # "none"
  /\ outcome' = [outcome EXCEPT ![current[c]] = IF response[c] = "ok" THEN "returned" ELSE "threw"]
  /\ current' = [current EXCEPT ![c] = None]
  /\ response' = [response EXCEPT ![c] = "none"]
  /\ UNCHANGED <<sent, network>>

Step(c) == Resend(c) \/ GiveUp(c) \/ Receive(c) \/ Finish(c)

-----------------------------------------------------------------------------
\* The network and the agent

Lose(r) ==
  /\ \/ underway[r] > 0 /\ underway' = [underway EXCEPT ![r] = @ - 1] /\ UNCHANGED <<oks, errors>>
     \/ oks[r] > 0 /\ oks' = [oks EXCEPT ![r] = @ - 1] /\ UNCHANGED <<underway, errors>>
     \/ errors[r] > 0 /\ errors' = [errors EXCEPT ![r] = @ - 1] /\ UNCHANGED <<underway, oks>>
  /\ UNCHANGED <<current, response, outcome, sent, copied, times>>

Duplicate(r) ==
  /\ underway[r] > 0 /\ copied[r] < MaxCopies
  /\ underway' = [underway EXCEPT ![r] = @ + 1]
  /\ copied' = [copied EXCEPT ![r] = @ + 1]
  /\ UNCHANGED <<current, response, outcome, sent, oks, errors, times>>

CarryOut(r) ==
  /\ underway[r] > 0
  /\ underway' = [underway EXCEPT ![r] = @ - 1]
  /\ times' = [times EXCEPT ![r] = @ + 1]
  /\ oks' = [oks EXCEPT ![r] = @ + 1]
  /\ UNCHANGED <<current, response, outcome, sent, copied, errors>>

Refuse(r) ==
  /\ underway[r] > 0
  /\ underway' = [underway EXCEPT ![r] = @ - 1]
  /\ errors' = [errors EXCEPT ![r] = @ + 1]
  /\ UNCHANGED <<current, response, outcome, sent, copied, oks, times>>

Next ==
  \/ \E c \in Clients : Step(c) \/ SocketFails(c) \/ \E r \in Requests : CallSync(c, r)
  \/ \E r \in Requests : Lose(r) \/ Duplicate(r) \/ CarryOut(r) \/ Refuse(r)

Spec == Init /\ [][Next]_vars

\* A client that is in a call goes on: time passes, and the thread runs.  Nothing is
\* assumed of the network and of the agent.
FairSpec == Spec /\ \A c \in Clients : WF_vars(Step(c))

-----------------------------------------------------------------------------
\* The type of every variable.
TypeOK ==
  /\ current \in [Clients -> Requests \cup {None}]
  /\ response \in [Clients -> {"none", "ok", "errstat", "NULL"}]
  /\ outcome \in [Requests -> {"new", "calling", "returned", "threw"}]
  /\ sent \in [Requests -> Nat] /\ copied \in [Requests -> Nat]
  /\ underway \in [Requests -> Nat] /\ oks \in [Requests -> Nat] /\ errors \in [Requests -> Nat]
  /\ times \in [Requests -> Nat]

(***************************************************************************)
(* sync returns a response only if the agent has carried the request out,  *)
(* and an exception says nothing: the request may have been carried out    *)
(* before it, may be carried out after it, and each retry may carry it out *)
(* once more (Get.cpp:28-57, Session.cpp:22, 78).                          *)
(***************************************************************************)
Call == INSTANCE RemoteCall WITH MaxTimes <- Retries + 1 + MaxCopies
ImplementsRemoteCall == Call!Spec

(***************************************************************************)
(* A request whose call has returned is carried out again later only if it *)
(* was sent more than once, by a retry or by the network: without retries, *)
(* a set that has returned cannot overwrite a later one (Get.cpp:28).      *)
(***************************************************************************)
OnlyRetriesComeBack ==
  [][\A r \in Requests :
       outcome[r] = "returned" /\ times'[r] # times[r] => sent[r] > 1 \/ copied[r] > 0]_vars

(***************************************************************************)
(* Every call of sync ends, whatever the network and the agent do.         *)
(***************************************************************************)
CallsEnd == \A r \in Requests : outcome[r] = "calling" ~> outcome[r] \in {"returned", "threw"}
=============================================================================
