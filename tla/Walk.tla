-------------------------------- MODULE Walk --------------------------------
(***************************************************************************)
(* A client walks through the objects below Root with the loop of          *)
(* Get.cpp:115-121 and ex_03_get.cpp:15-22: each call of getNext or of     *)
(* getBulk gets the response of the call before it, or an OID out of that  *)
(* response.  Only the OIDs of the PDUs matter here.  The agent's objects come and go in the meantime.     *)
(***************************************************************************)
EXTENDS OidOrder

CONSTANTS
  Oids,          \* the OIDs of the objects an agent may have
  Root,          \* where the walk starts
  Repetitions,   \* getBulk's maxRepetitions
  MaxNon,        \* bound: getBulk's nonRepeaters are at most this
  MaxVars        \* bound: how many variables fit into a response

ASSUME OidsAssumption == Root \in Seq(Int) \ {<<>>} /\ Oids \subseteq Seq(Int) /\ IsFiniteSet(Oids)
ASSUME BulkAssumption ==
  Repetitions \in Nat \ {0} /\ MaxNon \in Nat /\ MaxVars \in Nat \ {0}

VARIABLES
  objects,   \* the agent's objects
  lasting,   \* those which have been there since the walk began
  pdu,       \* the client's PDU object
  asked,     \* the OIDs of the last request
  read       \* the OIDs of all responses

vars == <<objects, lasting, pdu, asked, read>>

\* Varlist::getOids( set ): sorted, without duplicates
GetOids(oids) == Sorted(Range(oids))

Least(oids) == GetOids(oids)[1]

-----------------------------------------------------------------------------
\* The agent

\* External: the n-th object after o; endOfMibView, under the last name, if there are fewer.
NthAfter(n, o) ==
  LET later == {q \in objects : Less(o, q)}
  IN  IF later = {} THEN o
      ELSE Sorted(later)[IF n < Cardinality(later) THEN n ELSE Cardinality(later)]

NextIn(o) == NthAfter(1, o)

\* External: one object after each of the first non OIDs, then, in turns, Repetitions
\* objects after each of the others.
BulkAnswer(oids, non) ==
  LET repeaters == Len(oids) - non
      turn(k) == 1 + ((k - non - 1) \div repeaters)
      repeater(k) == oids[non + 1 + ((k - non - 1) % repeaters)]
  IN  [k \in 1 .. non + Repetitions * repeaters |->
         IF k <= non THEN NextIn(oids[k]) ELSE NthAfter(turn(k), repeater(k))]

\* External: the response ends where the packet is full.
Cut(oids) == {SubSeq(oids, 1, n) : n \in 1 .. IF Len(oids) < MaxVars THEN Len(oids) ELSE MaxVars}

\* External
ObjectsChange ==
  /\ \E o \in Oids : objects' \in {objects \cup {o}, objects \ {o}} \ {objects}
  /\ lasting' = lasting \cap objects'
  /\ UNCHANGED <<pdu, asked, read>>

-----------------------------------------------------------------------------
\* The client

Init ==
  /\ objects \in SUBSET Oids
  /\ lasting = objects
  /\ pdu \in [type : {"kGetNext", "kGetBulk"}, oids : {<<Root>>}]
  /\ asked = <<>>
  /\ read = {}

\* Mutant of Finished: the end of the MIB is not noticed.
FinishedByKinship == asked # <<>> /\ ~IsChildOf(Least(pdu.oids), Root)

\* The walk is over when the response starts outside of Root, or where the request did.
Finished ==
  asked # <<>> /\ (~IsChildOf(Least(pdu.oids), Root) \/ ~Less(Least(asked), Least(pdu.oids)))

Respond(request, oids) ==
  /\ asked' = request
  /\ pdu' = [type |-> "kResponse", oids |-> oids]
  /\ read' = read \cup Range(oids)
  /\ UNCHANGED <<objects, lasting>>

GetNextOf(request) == Respond(request, [i \in DOMAIN request |-> NextIn(request[i])])

GetBulkOf(request) ==
  \E n \in 0 .. MaxNon :
    LET non == IF n < Len(request) THEN n ELSE Len(request)
    IN  \E oids \in Cut(BulkAnswer(request, non)) : Respond(request, oids)

\* getNext( session, pdu ): a response asks for what follows its last OID
GetNext ==
  /\ ~Finished
  /\ GetNextOf(IF pdu.type = "kGetNext" THEN pdu.oids ELSE <<Last(pdu.oids)>>)

\* getBulk( session, pdu ): a response asks for what follows each of its OIDs
GetBulk ==
  /\ ~Finished
  /\ GetBulkOf(IF pdu.type = "kGetBulk" THEN pdu.oids ELSE GetOids(pdu.oids))

\* getNext( session, o ) and getBulk( session, o ): the client goes on from an OID that
\* it remembers, as it must when a call has thrown and its PDU is gone
GetOid ==
  /\ ~Finished
  /\ \E o \in Range(pdu.oids) : GetNextOf(<<o>>) \/ GetBulkOf(<<o>>)

Client == GetNext \/ GetBulk \/ GetOid

Next == Client \/ ObjectsChange

\* The client's loop goes on.
Spec == Init /\ [][Next]_vars /\ WF_vars(Client)

-----------------------------------------------------------------------------
(***************************************************************************)
(* When the walk is over, every object below Root that was there all the   *)
(* time has been read: also when getBulk sorts the OIDs of a response and  *)
(* drops its duplicates (Get.cpp:188), when nonRepeaters counts OIDs of a  *)
(* response, when getNext takes the last OID of a cut response             *)
(* (Get.cpp:138), when the client goes on from any OID of the response,    *)
(* and when objects come and go.                                           *)
(***************************************************************************)
NothingSkipped == Finished => {o \in lasting : IsChildOf(o, Root)} \subseteq read

(***************************************************************************)
(* A walk ends, at the end of the MIB too, where the agent returns the     *)
(* OIDs it was asked for.                                                  *)
(***************************************************************************)
WalkEnds == <>Finished
=============================================================================
