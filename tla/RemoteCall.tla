----------------------------- MODULE RemoteCall -----------------------------
(***************************************************************************)
(* What sync (Get.cpp:11-58) promises about a request: if the call         *)
(* returns, the agent has carried the request out at least once; if it     *)
(* throws, nothing is known.  In both cases the agent may carry it out     *)
(* again, also later, but no more than MaxTimes times.                     *)
(***************************************************************************)
EXTENDS Integers

CONSTANTS
  Requests,   \* the requests a program makes
  MaxTimes    \* how often the agent carries out one request at most

VARIABLES
  outcome,    \* how the call of each request has ended
  times       \* how often each request has been carried out

vars == <<outcome, times>>

Init ==
  /\ outcome = [r \in Requests |-> "new"]
  /\ times = [r \in Requests |-> 0]

Call(r) ==
  /\ outcome[r] = "new"
  /\ outcome' = [outcome EXCEPT ![r] = "calling"]
  /\ UNCHANGED times

CarryOut(r) ==
  /\ outcome[r] # "new"
  /\ times[r] < MaxTimes
  /\ times' = [times EXCEPT ![r] = @ + 1]
  /\ UNCHANGED outcome

Return(r) ==
  /\ outcome[r] = "calling" /\ times[r] > 0
  /\ outcome' = [outcome EXCEPT ![r] = "returned"]
  /\ UNCHANGED times

Throw(r) ==
  /\ outcome[r] = "calling"
  /\ outcome' = [outcome EXCEPT ![r] = "threw"]
  /\ UNCHANGED times

Next == \E r \in Requests : Call(r) \/ CarryOut(r) \/ Return(r) \/ Throw(r)

Spec == Init /\ [][Next]_vars
=============================================================================
