------------------------------ MODULE Sessions ------------------------------
(***************************************************************************)
(* Opening and closing sessions from several threads (Session.cpp), next   *)
(* to the functions that start and stop a net-snmp agent in the same       *)
(* process (Trap.cpp:19-67).  Both call into the part of net-snmp that     *)
(* Session.hpp:23-25 says is not thread-safe; openSession and              *)
(* openSessionV3 hold mtxOpenSession while they do, the agent functions    *)
(* hold nothing.                                                           *)
(*                                                                         *)
(* A thread is inside a net-snmp function while its pc has the name of     *)
(* that function; the next step of the thread is the return from it.       *)
(* Every thread has a SessionHandle of its own, which it closes before it  *)
(* opens it again (Session.hpp:29-32).                                     *)
(***************************************************************************)
EXTENDS Integers, FiniteSets

CONSTANTS
  Openers,   \* threads that open and close sessions
  Agents,    \* threads that start and stop the agent
  Versions,  \* the versions that callers pass to openSession (Session.hpp:38)
  Handles,   \* what snmp_sess_open returns: one value per session
  NULL,      \* the null handle
  Nobody     \* the owner of an unlocked mutex

Threads == Openers \cup Agents

ASSUME SessionsAssumption == NULL \notin Handles
ASSUME VersionsAssumption == "v3" \in Versions /\ "none" \notin Versions
ASSUME ThreadsAssumption == Nobody \notin Threads /\ Openers \cap Agents = {}

VARIABLES
  mutex,         \* the owner of mtxOpenSession
  pc,            \* where each thread is
  session,       \* the local netsnmp_session of the thread's open call; NoSession outside of it
  handle,        \* the SessionHandle of each thread
  opened,        \* net-snmp's sessions: the handles that are open
  config,        \* config[s]: what the open session s was opened with
  initialised    \* the parts of net-snmp that are initialised in the process

vars == <<mutex, pc, session, handle, opened, config, initialised>>

SecLevels == {"authPriv", "authNoPriv", "noAuthNoPriv"}

\* A key with its length: no length is set and there are no bytes; the length is
\* that of a key but the bytes are still zero; or generate_Ku has written both.
KeyStates == {"none", "zeros", "derived"}

\* The fields of a netsnmp_session that the open functions decide about.
Configs ==
  [version : Versions \cup {"none"}, securityLevel : SecLevels \cup {"unset"},
   authKey : KeyStates, privKey : KeyStates]

\* What both functions start from: all zero but for the version.
Blank(v) == [version |-> v, securityLevel |-> "unset", authKey |-> "none", privKey |-> "none"]
NoSession == Blank("none")

Waiting == {"lock", "lockV3"}

\* The steps of openSession and openSessionV3 that follow the construction of the lock_guard.
Locked ==
  {"init_snmp", "secLevel", "authProtocol", "privProtocol", "authKey", "privKey",
   "snmp_sess_open", "check", "throw", "return"}

AgentSteps == {"init_agent", "init_snmp_agent", "init_traps", "snmp_shutdown", "shutdown_agent"}

Init ==
  /\ mutex = Nobody
  /\ pc = [t \in Threads |-> "idle"]
  /\ session = [t \in Threads |-> NoSession]
  /\ handle = [t \in Threads |-> NULL]
  /\ opened = {}
  /\ config = [s \in Handles |-> NoSession]
  /\ initialised = {}

Goto(t, from, to) == pc[t] = from /\ pc' = [pc EXCEPT ![t] = to]

-----------------------------------------------------------------------------
\* openSession and openSessionV3

Call(t) ==
  /\ handle[t] = NULL
  /\ Goto(t, "idle", "lock") \/ Goto(t, "idle", "lockV3")
  /\ UNCHANGED <<mutex, session, handle, opened, config, initialised>>

\* Mutant of Lock: openSessionV3 constructs no lock_guard.
LockV2Only(t) ==
  /\ \/ /\ mutex = Nobody /\ mutex' = t
        /\ Goto(t, "lock", "snmp_sess_open")
        /\ \E v \in Versions : session' = [session EXCEPT ![t] = Blank(v)]
     \/ /\ UNCHANGED mutex
        /\ Goto(t, "lockV3", "init_snmp") /\ UNCHANGED session
  /\ handle' = [handle EXCEPT ![t] = NULL]
  /\ UNCHANGED <<opened, config, initialised>>

\* The lock_guard is constructed and the handle is overwritten.  openSession
\* takes its version from the caller and has nothing else to set up that matters
\* here; openSessionV3 goes on to init_snmp and to the security of the session.
Lock(t) ==
  /\ mutex = Nobody
  /\ mutex' = t
  /\ handle' = [handle EXCEPT ![t] = NULL]
  /\ \/ /\ Goto(t, "lock", "snmp_sess_open")
        /\ \E v \in Versions : session' = [session EXCEPT ![t] = Blank(v)]
     \/ Goto(t, "lockV3", "init_snmp") /\ UNCHANGED session
  /\ UNCHANGED <<opened, config, initialised>>

InitSnmp(t) ==
  /\ Goto(t, "init_snmp", "secLevel")
  /\ initialised' = initialised \cup {"snmp"}
  /\ session' = [session EXCEPT ![t] = Blank("v3")]
  /\ UNCHANGED <<mutex, handle, opened, config>>

\* The three names the caller passes are checked one after the other; each of
\* them may be one that is not supported.
SecLevel(t) ==
  /\ \/ \E l \in SecLevels :
          /\ Goto(t, "secLevel", "authProtocol")
          /\ session' = [session EXCEPT ![t].securityLevel = l]
     \/ Goto(t, "secLevel", "throw") /\ UNCHANGED session
  /\ UNCHANGED <<mutex, handle, opened, config, initialised>>

\* The lengths are set for every level, before any key is derived.
AuthProtocol(t) ==
  /\ \/ /\ Goto(t, "authProtocol", "privProtocol")
        /\ session' = [session EXCEPT ![t].authKey = "zeros"]
     \/ Goto(t, "authProtocol", "throw") /\ UNCHANGED session
  /\ UNCHANGED <<mutex, handle, opened, config, initialised>>

PrivProtocol(t) ==
  /\ \/ /\ Goto(t, "privProtocol", "authKey")
        /\ session' = [session EXCEPT ![t].privKey = "zeros"]
     \/ Goto(t, "privProtocol", "throw") /\ UNCHANGED session
  /\ UNCHANGED <<mutex, handle, opened, config, initialised>>

AuthLevels == {"authPriv", "authNoPriv"}

\* Mutant of AuthKey: the key is derived for authPriv only.
AuthKeyForPrivOnly(t) ==
  /\ \/ /\ session[t].securityLevel = "authPriv"
        /\ \/ /\ Goto(t, "authKey", "privKey")
              /\ session' = [session EXCEPT ![t].authKey = "derived"]
           \/ Goto(t, "authKey", "throw") /\ UNCHANGED session
     \/ /\ session[t].securityLevel # "authPriv"
        /\ Goto(t, "authKey", "privKey") /\ UNCHANGED session
  /\ UNCHANGED <<mutex, handle, opened, config, initialised>>

\* generate_Ku derives the keys the level calls for, or fails; the bytes of the
\* others stay zero under the length that was set.
AuthKey(t) ==
  /\ \/ /\ session[t].securityLevel \in AuthLevels
        /\ \/ /\ Goto(t, "authKey", "privKey")
              /\ session' = [session EXCEPT ![t].authKey = "derived"]
           \/ Goto(t, "authKey", "throw") /\ UNCHANGED session
     \/ /\ session[t].securityLevel \notin AuthLevels
        /\ Goto(t, "authKey", "privKey") /\ UNCHANGED session
  /\ UNCHANGED <<mutex, handle, opened, config, initialised>>

PrivKey(t) ==
  /\ \/ /\ session[t].securityLevel = "authPriv"
        /\ \/ /\ Goto(t, "privKey", "snmp_sess_open")
              /\ session' = [session EXCEPT ![t].privKey = "derived"]
           \/ Goto(t, "privKey", "throw") /\ UNCHANGED session
     \/ /\ session[t].securityLevel # "authPriv"
        /\ Goto(t, "privKey", "snmp_sess_open") /\ UNCHANGED session
  /\ UNCHANGED <<mutex, handle, opened, config, initialised>>

\* Mutant of SessOpen: a failed open is counted as an open session.
SessOpenCountsFailure(t) ==
  /\ Goto(t, "snmp_sess_open", "check")
  /\ \E s \in (Handles \ opened) \cup {NULL} :
       /\ handle' = [handle EXCEPT ![t] = s]
       /\ opened' = opened \cup {s}
       /\ config' = [r \in Handles |-> IF r = s THEN session[t] ELSE config[r]]
  /\ UNCHANGED <<mutex, session, initialised>>

SessOpen(t) ==
  /\ Goto(t, "snmp_sess_open", "check")
  /\ \/ /\ handle' = [handle EXCEPT ![t] = NULL]
        /\ UNCHANGED <<opened, config>>
     \/ \E s \in Handles \ opened :
          /\ handle' = [handle EXCEPT ![t] = s]
          /\ opened' = opened \cup {s}
          /\ config' = [config EXCEPT ![s] = session[t]]
  /\ UNCHANGED <<mutex, session, initialised>>

\* A handle without a netsnmp_session is treated like no handle, but not reset.
Check(t) ==
  /\ \/ Goto(t, "check", "throw")
     \/ handle[t] # NULL /\ Goto(t, "check", "return")
  /\ UNCHANGED <<mutex, session, handle, opened, config, initialised>>

\* Mutant of Unlock: the mutex is unlocked by hand, before the return only.
UnlockOnReturn(t) ==
  /\ \/ Goto(t, "throw", "idle") /\ UNCHANGED mutex
     \/ Goto(t, "return", "idle") /\ mutex' = Nobody
  /\ session' = [session EXCEPT ![t] = NoSession]
  /\ UNCHANGED <<handle, opened, config, initialised>>

\* The lock_guard is destroyed, by the return or by the exception.
Unlock(t) ==
  /\ Goto(t, "throw", "idle") \/ Goto(t, "return", "idle")
  /\ mutex' = Nobody
  /\ session' = [session EXCEPT ![t] = NoSession]
  /\ UNCHANGED <<handle, opened, config, initialised>>

\* Mutant of CloseSession: the handle is not reset.
CloseSessionKeepsHandle(t) ==
  /\ Goto(t, "idle", "idle")
  /\ handle[t] # NULL
  /\ opened' = opened \ {handle[t]}
  /\ config' = [config EXCEPT ![handle[t]] = NoSession]
  /\ UNCHANGED <<mutex, session, handle, initialised>>

CloseSession(t) ==
  /\ Goto(t, "idle", "idle")
  /\ handle[t] # NULL
  /\ opened' = opened \ {handle[t]}
  /\ config' = [config EXCEPT ![handle[t]] = NoSession]
  /\ handle' = [handle EXCEPT ![t] = NULL]
  /\ UNCHANGED <<mutex, session, initialised>>

-----------------------------------------------------------------------------
\* initializeNetSnmpAgent and shutdownNetSnmpAgent

CallAgent(t) ==
  /\ Goto(t, "idle", "init_agent") \/ Goto(t, "idle", "snmp_shutdown")
  /\ UNCHANGED <<mutex, session, handle, opened, config, initialised>>

InitAgent(t) ==
  /\ \/ Goto(t, "init_agent", "init_snmp_agent") /\ initialised' = initialised \cup {"agent"}
     \/ Goto(t, "init_agent", "idle") /\ UNCHANGED initialised
  /\ UNCHANGED <<mutex, session, handle, opened, config>>

InitSnmpAgent(t) ==
  /\ Goto(t, "init_snmp_agent", "init_traps")
  /\ initialised' = initialised \cup {"snmp"}
  /\ UNCHANGED <<mutex, session, handle, opened, config>>

InitTraps(t) ==
  /\ Goto(t, "init_traps", "idle")
  /\ initialised' = initialised \cup {"traps"}
  /\ UNCHANGED <<mutex, session, handle, opened, config>>

SnmpShutdown(t) ==
  /\ Goto(t, "snmp_shutdown", "shutdown_agent")
  /\ initialised' = initialised \ {"snmp"}
  /\ UNCHANGED <<mutex, session, handle, opened, config>>

ShutdownAgent(t) ==
  /\ Goto(t, "shutdown_agent", "idle")
  /\ initialised' = initialised \ {"agent", "traps"}
  /\ UNCHANGED <<mutex, session, handle, opened, config>>

-----------------------------------------------------------------------------
\* A call in progress goes on; starting a call is up to the program.
OpenStep(t) ==
  \/ Lock(t) \/ InitSnmp(t) \/ SecLevel(t) \/ AuthProtocol(t) \/ PrivProtocol(t)
  \/ AuthKey(t) \/ PrivKey(t) \/ SessOpen(t) \/ Check(t) \/ Unlock(t)

AgentStep(t) ==
  InitAgent(t) \/ InitSnmpAgent(t) \/ InitTraps(t) \/ SnmpShutdown(t) \/ ShutdownAgent(t)

Next ==
  \/ \E t \in Openers : Call(t) \/ OpenStep(t) \/ CloseSession(t)
  \/ \E t \in Agents : CallAgent(t) \/ AgentStep(t)

\* The operating system runs every thread that can run; which of the waiting
\* threads gets a free mutex is left open.
Fairness ==
  /\ \A t \in Openers : WF_vars(OpenStep(t))
  /\ \A t \in Agents : WF_vars(AgentStep(t))

Spec == Init /\ [][Next]_vars
FairSpec == Spec /\ Fairness

-----------------------------------------------------------------------------
\* The type of every variable.
TypeOK ==
  /\ mutex \in Threads \cup {Nobody}
  /\ pc \in [Threads -> {"idle"} \cup Waiting \cup Locked \cup AgentSteps]
  /\ session \in [Threads -> Configs]
  /\ handle \in [Threads -> Handles \cup {NULL}]
  /\ opened \in SUBSET Handles
  /\ config \in [Handles -> Configs]
  /\ initialised \in SUBSET {"agent", "snmp", "traps"}

\* The thread is inside a function that Session.hpp:23 wants synchronised.
InNetSnmpSetup(t) ==
  pc[t] \in {"init_snmp", "snmp_sess_open", "init_agent", "init_snmp_agent", "init_traps"}

(***************************************************************************)
(* No two threads are in init_snmp or snmp_sess_open on behalf of          *)
(* openSession and openSessionV3 at once, whatever mixture of the two the  *)
(* threads call (Session.cpp:13, 60): both lock the one mtxOpenSession of  *)
(* Session.cpp.                                                            *)
(***************************************************************************)
OpensAreSerialized ==
  \A t, u \in Openers : InNetSnmpSetup(t) /\ InNetSnmpSetup(u) => t = u

(***************************************************************************)
(* Every open session can be closed by exactly one thread, and no thread   *)
(* holds a handle of a closed session: no interleaving of opens, of their  *)
(* exceptions and of closes loses a session or shares one                  *)
(* (Session.cpp:16, 28, 51, 188-197).                                      *)
(***************************************************************************)
EachSessionHasOneHolder ==
  /\ \A t \in Threads : handle[t] # NULL => handle[t] \in opened
  /\ \A s \in opened : \E t \in Threads :
       handle[t] = s /\ \A u \in Threads \ {t} : handle[u] # s

\* What is known of an open session: openSession gives it no security whatever
\* its version, openSessionV3 a level, the keys of that level, and lengths
\* without a key for the rest.
KeysFit(c) ==
  \/ c \in {Blank(v) : v \in Versions}
  \/ /\ c.version = "v3"
     /\ c.securityLevel \in SecLevels
     /\ c.authKey = IF c.securityLevel \in AuthLevels THEN "derived" ELSE "zeros"
     /\ c.privKey = IF c.securityLevel = "authPriv" THEN "derived" ELSE "zeros"

(***************************************************************************)
(* A session never opens half set up, although its level, the protocols    *)
(* and the keys are set one by one and each of them can fail               *)
(* (Session.cpp:93-158): every key that its level uses has been derived.   *)
(* The others have a length all the same, as Session.cpp:112 and 123 set   *)
(* it for every level, over bytes that are zero; only a session of         *)
(* openSession, of any version, has neither (Session.cpp:18-26).           *)
(***************************************************************************)
KeysMatchSecurityLevel == \A s \in opened : KeysFit(config[s])

(***************************************************************************)
(* A thread that has locked mtxOpenSession leaves the open function and    *)
(* unlocks it, on every one of the throws of openSession and openSessionV3 *)
(* (Session.cpp:52, 100, 110, 121, 132, 142, 182).                         *)
(***************************************************************************)
OpensRelease ==
  \A t \in Openers : (mutex = t) ~> (mutex # t /\ pc[t] = "idle")

-----------------------------------------------------------------------------
\* Statements of the comments that the code does not keep

(***************************************************************************)
(* Session.hpp:23: net-snmp is thread-safe as long as all initializations  *)
(* (init_* and snmp_*open calls) are synchronised.                         *)
(***************************************************************************)
InitializationsAreSynchronized ==
  \A t, u \in Threads : InNetSnmpSetup(t) /\ InNetSnmpSetup(u) => t = u
=============================================================================
