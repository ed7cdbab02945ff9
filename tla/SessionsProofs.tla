--------------------------- MODULE SessionsProofs ---------------------------
(***************************************************************************)
(* For any number of threads and of sessions: types, mutual exclusion of   *)
(* the open functions, one holder for every session, and keys that fit the *)
(* security level.                                                         *)
(***************************************************************************)
EXTENDS Sessions, TLAPS

-----------------------------------------------------------------------------
\* The inductive invariant

\* A thread owns the mutex exactly while it is in the body of an open function.
MutexInv == \A t \in Threads : mutex = t <=> pc[t] \in Locked

\* Threads that open sessions call nothing else.
OpenersInv == \A t \in Openers : pc[t] \in {"idle"} \cup Waiting \cup Locked

\* Until snmp_sess_open returns the caller's handle is NULL.
HandleInv ==
  \A t \in Threads :
    pc[t] \in Waiting \cup (Locked \ {"check", "throw", "return"}) => handle[t] = NULL

HoldersInv ==
  /\ \A t \in Threads : handle[t] # NULL => handle[t] \in opened
  /\ \A s \in opened : \E t \in Threads : handle[t] = s
  /\ \A t, u \in Threads : handle[t] # NULL /\ handle[t] = handle[u] => t = u

\* How far the local netsnmp_session has been filled in.
Filled(t) ==
  LET c == session[t]
  IN  /\ pc[t] = "secLevel" => c = Blank("v3")
      /\ pc[t] \in {"authProtocol", "privProtocol", "authKey", "privKey"} =>
           c.version = "v3" /\ c.securityLevel \in SecLevels
      /\ pc[t] \in {"privProtocol", "authKey"} => c.authKey = "zeros"
      /\ pc[t] \in {"authKey", "privKey"} => c.privKey = "zeros"
      /\ pc[t] = "privKey" =>
           c.authKey = IF c.securityLevel \in AuthLevels THEN "derived" ELSE "zeros"
      /\ pc[t] = "snmp_sess_open" => KeysFit(c)

KeysInv ==
  /\ \A t \in Threads : Filled(t)
  /\ \A s \in opened : KeysFit(config[s])

IInv == TypeOK /\ MutexInv /\ OpenersInv /\ HandleInv /\ HoldersInv /\ KeysInv

-----------------------------------------------------------------------------
\* Records of the session being opened

LEMMA BlankTypes == NoSession \in Configs /\ \A v \in Versions : Blank(v) \in Configs
BY DEF Blank, NoSession, Configs, KeyStates

\* Writing one of the two keys keeps the type.
LEMMA KeyTypes ==
  ASSUME NEW f \in [Threads -> Configs], NEW t \in Threads, NEW k \in KeyStates
  PROVE  /\ [f EXCEPT ![t].authKey = k] \in [Threads -> Configs]
         /\ [f EXCEPT ![t].privKey = k] \in [Threads -> Configs]
BY DEF Configs

-----------------------------------------------------------------------------
\* Preservation, conjunct by conjunct

\* Every step preserves the types.
LEMMA TypeStep ==
  ASSUME TypeOK, [Next]_vars
  PROVE  TypeOK'
<1> USE SessionsAssumption, VersionsAssumption, ThreadsAssumption DEF Threads, Goto
<1>1. ASSUME NEW t \in Openers, Call(t) PROVE TypeOK'
  BY <1>1 DEF Call, TypeOK, Waiting, Locked, AgentSteps, Configs, SecLevels
<1>2. ASSUME NEW t \in Openers, Lock(t) PROVE TypeOK'
  BY <1>2, BlankTypes DEF Lock, TypeOK, Waiting, Locked, AgentSteps
<1>3. ASSUME NEW t \in Openers, InitSnmp(t) PROVE TypeOK'
  BY <1>3, VersionsAssumption, BlankTypes DEF InitSnmp, TypeOK, Waiting, Locked, AgentSteps
<1>4. ASSUME NEW t \in Openers, SecLevel(t) PROVE TypeOK'
  BY <1>4 DEF SecLevel, TypeOK, Waiting, Locked, AgentSteps, Configs, SecLevels
<1>5. ASSUME NEW t \in Openers, AuthProtocol(t) PROVE TypeOK'
  <2>1. session' = session \/ session' = [session EXCEPT ![t].authKey = "zeros"]
    BY <1>5 DEF AuthProtocol
  <2>2. session' \in [Threads -> Configs]
    <3>1. session \in [Threads -> Configs] /\ t \in Threads /\ "zeros" \in KeyStates
      BY DEF TypeOK, KeyStates
    <3>2. [session EXCEPT ![t].authKey = "zeros"] \in [Threads -> Configs]
      BY <3>1, KeyTypes
    <3>3. QED
      BY <2>1, <3>1, <3>2
  <2>3. pc' = [pc EXCEPT ![t] = pc'[t]] /\ pc'[t] \in Locked
    BY <1>5 DEF AuthProtocol, TypeOK, Locked
  <2>4. UNCHANGED <<mutex, handle, opened, config, initialised>>
    BY <1>5 DEF AuthProtocol
  <2>5. QED
    BY <2>2, <2>3, <2>4 DEF TypeOK
<1>6. ASSUME NEW t \in Openers, PrivProtocol(t) PROVE TypeOK'
  <2>1. session' = session \/ session' = [session EXCEPT ![t].privKey = "zeros"]
    BY <1>6 DEF PrivProtocol
  <2>2. session' \in [Threads -> Configs]
    <3>1. session \in [Threads -> Configs] /\ t \in Threads /\ "zeros" \in KeyStates
      BY DEF TypeOK, KeyStates
    <3>2. [session EXCEPT ![t].privKey = "zeros"] \in [Threads -> Configs]
      BY <3>1, KeyTypes
    <3>3. QED
      BY <2>1, <3>1, <3>2
  <2>3. pc' = [pc EXCEPT ![t] = pc'[t]] /\ pc'[t] \in Locked
    BY <1>6 DEF PrivProtocol, TypeOK, Locked
  <2>4. UNCHANGED <<mutex, handle, opened, config, initialised>>
    BY <1>6 DEF PrivProtocol
  <2>5. QED
    BY <2>2, <2>3, <2>4 DEF TypeOK
<1>7. ASSUME NEW t \in Openers, AuthKey(t) PROVE TypeOK'
  <2>1. session' = session \/ session' = [session EXCEPT ![t].authKey = "derived"]
    BY <1>7 DEF AuthKey
  <2>2. session' \in [Threads -> Configs]
    <3>1. session \in [Threads -> Configs] /\ t \in Threads /\ "derived" \in KeyStates
      BY DEF TypeOK, KeyStates
    <3>2. [session EXCEPT ![t].authKey = "derived"] \in [Threads -> Configs]
      BY <3>1, KeyTypes
    <3>3. QED
      BY <2>1, <3>1, <3>2
  <2>3. pc' = [pc EXCEPT ![t] = pc'[t]] /\ pc'[t] \in Locked
    BY <1>7 DEF AuthKey, TypeOK, Locked
  <2>4. UNCHANGED <<mutex, handle, opened, config, initialised>>
    BY <1>7 DEF AuthKey
  <2>5. QED
    BY <2>2, <2>3, <2>4 DEF TypeOK
<1>8. ASSUME NEW t \in Openers, PrivKey(t) PROVE TypeOK'
  <2>1. session' = session \/ session' = [session EXCEPT ![t].privKey = "derived"]
    BY <1>8 DEF PrivKey
  <2>2. session' \in [Threads -> Configs]
    <3>1. session \in [Threads -> Configs] /\ t \in Threads /\ "derived" \in KeyStates
      BY DEF TypeOK, KeyStates
    <3>2. [session EXCEPT ![t].privKey = "derived"] \in [Threads -> Configs]
      BY <3>1, KeyTypes
    <3>3. QED
      BY <2>1, <3>1, <3>2
  <2>3. pc' = [pc EXCEPT ![t] = pc'[t]] /\ pc'[t] \in Locked
    BY <1>8 DEF PrivKey, TypeOK, Locked
  <2>4. UNCHANGED <<mutex, handle, opened, config, initialised>>
    BY <1>8 DEF PrivKey
  <2>5. QED
    BY <2>2, <2>3, <2>4 DEF TypeOK
<1>9. ASSUME NEW t \in Openers, SessOpen(t) PROVE TypeOK'
  BY <1>9 DEF SessOpen, TypeOK, Waiting, Locked, AgentSteps, Configs, SecLevels
<1>10. ASSUME NEW t \in Openers, Check(t) PROVE TypeOK'
  BY <1>10 DEF Check, TypeOK, Waiting, Locked, AgentSteps, Configs, SecLevels
<1>11. ASSUME NEW t \in Openers, Unlock(t) PROVE TypeOK'
  BY <1>11, BlankTypes DEF Unlock, TypeOK, Waiting, Locked, AgentSteps
<1>12. ASSUME NEW t \in Openers, CloseSession(t) PROVE TypeOK'
  BY <1>12, BlankTypes DEF CloseSession, TypeOK, Waiting, Locked, AgentSteps
<1>13. ASSUME NEW t \in Agents, CallAgent(t) \/ AgentStep(t) PROVE TypeOK'
  BY <1>13 DEF CallAgent, AgentStep, InitAgent, InitSnmpAgent, InitTraps, SnmpShutdown, ShutdownAgent,
         TypeOK, Waiting, Locked, AgentSteps, Configs, SecLevels
<1>14. CASE UNCHANGED vars
  BY <1>14 DEF vars, TypeOK, Waiting, Locked, AgentSteps, Configs, SecLevels
<1>15. QED
  BY <1>1, <1>2, <1>3, <1>4, <1>5, <1>6, <1>7, <1>8, <1>9, <1>10, <1>11, <1>12, <1>13, <1>14 DEF Next, OpenStep

\* A thread enters the body of an open function with the mutex and leaves it without.
LEMMA MutexStep ==
  ASSUME TypeOK, MutexInv, [Next]_vars
  PROVE  MutexInv'
<1> USE SessionsAssumption, VersionsAssumption, ThreadsAssumption DEF Threads, Goto
<1>1. ASSUME NEW t \in Openers, Call(t) PROVE MutexInv'
  BY <1>1 DEF Call, TypeOK, MutexInv, Waiting, Locked, AgentSteps
<1>2. ASSUME NEW t \in Openers, Lock(t) PROVE MutexInv'
  BY <1>2 DEF Lock, TypeOK, MutexInv, Waiting, Locked, AgentSteps
<1>3. ASSUME NEW t \in Openers, InitSnmp(t) PROVE MutexInv'
  BY <1>3 DEF InitSnmp, TypeOK, MutexInv, Waiting, Locked, AgentSteps
<1>4. ASSUME NEW t \in Openers, SecLevel(t) PROVE MutexInv'
  BY <1>4 DEF SecLevel, TypeOK, MutexInv, Waiting, Locked, AgentSteps
<1>5. ASSUME NEW t \in Openers, AuthProtocol(t) PROVE MutexInv'
  BY <1>5 DEF AuthProtocol, TypeOK, MutexInv, Waiting, Locked, AgentSteps
<1>6. ASSUME NEW t \in Openers, PrivProtocol(t) PROVE MutexInv'
  BY <1>6 DEF PrivProtocol, TypeOK, MutexInv, Waiting, Locked, AgentSteps
<1>7. ASSUME NEW t \in Openers, AuthKey(t) PROVE MutexInv'
  BY <1>7 DEF AuthKey, TypeOK, MutexInv, Waiting, Locked, AgentSteps
<1>8. ASSUME NEW t \in Openers, PrivKey(t) PROVE MutexInv'
  BY <1>8 DEF PrivKey, TypeOK, MutexInv, Waiting, Locked, AgentSteps
<1>9. ASSUME NEW t \in Openers, SessOpen(t) PROVE MutexInv'
  BY <1>9 DEF SessOpen, TypeOK, MutexInv, Waiting, Locked, AgentSteps
<1>10. ASSUME NEW t \in Openers, Check(t) PROVE MutexInv'
  BY <1>10 DEF Check, TypeOK, MutexInv, Waiting, Locked, AgentSteps
<1>11. ASSUME NEW t \in Openers, Unlock(t) PROVE MutexInv'
  BY <1>11 DEF Unlock, TypeOK, MutexInv, Waiting, Locked, AgentSteps
<1>12. ASSUME NEW t \in Openers, CloseSession(t) PROVE MutexInv'
  BY <1>12 DEF CloseSession, TypeOK, MutexInv, Waiting, Locked, AgentSteps
<1>13. ASSUME NEW t \in Agents, CallAgent(t) \/ AgentStep(t) PROVE MutexInv'
  BY <1>13 DEF CallAgent, AgentStep, InitAgent, InitSnmpAgent, InitTraps, SnmpShutdown, ShutdownAgent,
         TypeOK, MutexInv, Waiting, Locked, AgentSteps
<1>14. CASE UNCHANGED vars
  BY <1>14 DEF vars, TypeOK, MutexInv, Waiting, Locked, AgentSteps
<1>15. QED
  BY <1>1, <1>2, <1>3, <1>4, <1>5, <1>6, <1>7, <1>8, <1>9, <1>10, <1>11, <1>12, <1>13, <1>14 DEF Next, OpenStep

\* A thread that opens sessions stays in the open functions.
LEMMA OpenersStep ==
  ASSUME TypeOK, OpenersInv, [Next]_vars
  PROVE  OpenersInv'
<1> USE SessionsAssumption, VersionsAssumption, ThreadsAssumption DEF Threads, Goto
<1>1. ASSUME NEW t \in Openers, Call(t) PROVE OpenersInv'
  BY <1>1 DEF Call, TypeOK, OpenersInv, Waiting, Locked, AgentSteps
<1>2. ASSUME NEW t \in Openers, Lock(t) PROVE OpenersInv'
  BY <1>2 DEF Lock, TypeOK, OpenersInv, Waiting, Locked, AgentSteps
<1>3. ASSUME NEW t \in Openers, InitSnmp(t) PROVE OpenersInv'
  BY <1>3 DEF InitSnmp, TypeOK, OpenersInv, Waiting, Locked, AgentSteps
<1>4. ASSUME NEW t \in Openers, SecLevel(t) PROVE OpenersInv'
  BY <1>4 DEF SecLevel, TypeOK, OpenersInv, Waiting, Locked, AgentSteps
<1>5. ASSUME NEW t \in Openers, AuthProtocol(t) PROVE OpenersInv'
  BY <1>5 DEF AuthProtocol, TypeOK, OpenersInv, Waiting, Locked, AgentSteps
<1>6. ASSUME NEW t \in Openers, PrivProtocol(t) PROVE OpenersInv'
  BY <1>6 DEF PrivProtocol, TypeOK, OpenersInv, Waiting, Locked, AgentSteps
<1>7. ASSUME NEW t \in Openers, AuthKey(t) PROVE OpenersInv'
  BY <1>7 DEF AuthKey, TypeOK, OpenersInv, Waiting, Locked, AgentSteps
<1>8. ASSUME NEW t \in Openers, PrivKey(t) PROVE OpenersInv'
  BY <1>8 DEF PrivKey, TypeOK, OpenersInv, Waiting, Locked, AgentSteps
<1>9. ASSUME NEW t \in Openers, SessOpen(t) PROVE OpenersInv'
  BY <1>9 DEF SessOpen, TypeOK, OpenersInv, Waiting, Locked, AgentSteps
<1>10. ASSUME NEW t \in Openers, Check(t) PROVE OpenersInv'
  BY <1>10 DEF Check, TypeOK, OpenersInv, Waiting, Locked, AgentSteps
<1>11. ASSUME NEW t \in Openers, Unlock(t) PROVE OpenersInv'
  BY <1>11 DEF Unlock, TypeOK, OpenersInv, Waiting, Locked, AgentSteps
<1>12. ASSUME NEW t \in Openers, CloseSession(t) PROVE OpenersInv'
  BY <1>12 DEF CloseSession, TypeOK, OpenersInv, Waiting, Locked, AgentSteps
<1>13. ASSUME NEW t \in Agents, CallAgent(t) \/ AgentStep(t) PROVE OpenersInv'
  BY <1>13 DEF CallAgent, AgentStep, InitAgent, InitSnmpAgent, InitTraps, SnmpShutdown, ShutdownAgent,
         TypeOK, OpenersInv, Waiting, Locked, AgentSteps
<1>14. CASE UNCHANGED vars
  BY <1>14 DEF vars, TypeOK, OpenersInv, Waiting, Locked, AgentSteps
<1>15. QED
  BY <1>1, <1>2, <1>3, <1>4, <1>5, <1>6, <1>7, <1>8, <1>9, <1>10, <1>11, <1>12, <1>13, <1>14 DEF Next, OpenStep

\* A handle is NULL until snmp_sess_open returns.
LEMMA HandleStep ==
  ASSUME TypeOK, HandleInv, [Next]_vars
  PROVE  HandleInv'
<1> USE SessionsAssumption, VersionsAssumption, ThreadsAssumption DEF Threads, Goto
<1>1. ASSUME NEW t \in Openers, Call(t) PROVE HandleInv'
  BY <1>1 DEF Call, TypeOK, HandleInv, Waiting, Locked, AgentSteps
<1>2. ASSUME NEW t \in Openers, Lock(t) PROVE HandleInv'
  BY <1>2 DEF Lock, TypeOK, HandleInv, Waiting, Locked, AgentSteps
<1>3. ASSUME NEW t \in Openers, InitSnmp(t) PROVE HandleInv'
  BY <1>3 DEF InitSnmp, TypeOK, HandleInv, Waiting, Locked, AgentSteps
<1>4. ASSUME NEW t \in Openers, SecLevel(t) PROVE HandleInv'
  BY <1>4 DEF SecLevel, TypeOK, HandleInv, Waiting, Locked, AgentSteps
<1>5. ASSUME NEW t \in Openers, AuthProtocol(t) PROVE HandleInv'
  BY <1>5 DEF AuthProtocol, TypeOK, HandleInv, Waiting, Locked, AgentSteps
<1>6. ASSUME NEW t \in Openers, PrivProtocol(t) PROVE HandleInv'
  BY <1>6 DEF PrivProtocol, TypeOK, HandleInv, Waiting, Locked, AgentSteps
<1>7. ASSUME NEW t \in Openers, AuthKey(t) PROVE HandleInv'
  BY <1>7 DEF AuthKey, TypeOK, HandleInv, Waiting, Locked, AgentSteps
<1>8. ASSUME NEW t \in Openers, PrivKey(t) PROVE HandleInv'
  BY <1>8 DEF PrivKey, TypeOK, HandleInv, Waiting, Locked, AgentSteps
<1>9. ASSUME NEW t \in Openers, SessOpen(t) PROVE HandleInv'
  BY <1>9 DEF SessOpen, TypeOK, HandleInv, Waiting, Locked, AgentSteps
<1>10. ASSUME NEW t \in Openers, Check(t) PROVE HandleInv'
  BY <1>10 DEF Check, TypeOK, HandleInv, Waiting, Locked, AgentSteps
<1>11. ASSUME NEW t \in Openers, Unlock(t) PROVE HandleInv'
  BY <1>11 DEF Unlock, TypeOK, HandleInv, Waiting, Locked, AgentSteps
<1>12. ASSUME NEW t \in Openers, CloseSession(t) PROVE HandleInv'
  BY <1>12 DEF CloseSession, TypeOK, HandleInv, Waiting, Locked, AgentSteps
<1>13. ASSUME NEW t \in Agents, CallAgent(t) \/ AgentStep(t) PROVE HandleInv'
  BY <1>13 DEF CallAgent, AgentStep, InitAgent, InitSnmpAgent, InitTraps, SnmpShutdown, ShutdownAgent,
         TypeOK, HandleInv, Waiting, Locked, AgentSteps
<1>14. CASE UNCHANGED vars
  BY <1>14 DEF vars, TypeOK, HandleInv, Waiting, Locked, AgentSteps
<1>15. QED
  BY <1>1, <1>2, <1>3, <1>4, <1>5, <1>6, <1>7, <1>8, <1>9, <1>10, <1>11, <1>12, <1>13, <1>14 DEF Next, OpenStep

\* Opening adds a session with one holder, closing removes the session and the holder.
LEMMA HoldersStep ==
  ASSUME TypeOK, HandleInv, HoldersInv, [Next]_vars
  PROVE  HoldersInv'
<1> USE SessionsAssumption, VersionsAssumption, ThreadsAssumption DEF Threads, Goto
<1>1. ASSUME NEW t \in Openers, Call(t) PROVE HoldersInv'
  BY <1>1 DEF Call, TypeOK, HandleInv, HoldersInv, Waiting, Locked, AgentSteps
<1>2. ASSUME NEW t \in Openers, Lock(t) PROVE HoldersInv'
  BY <1>2 DEF Lock, TypeOK, HandleInv, HoldersInv, Waiting, Locked, AgentSteps
<1>3. ASSUME NEW t \in Openers, InitSnmp(t) PROVE HoldersInv'
  BY <1>3 DEF InitSnmp, TypeOK, HandleInv, HoldersInv, Waiting, Locked, AgentSteps
<1>4. ASSUME NEW t \in Openers, SecLevel(t) PROVE HoldersInv'
  BY <1>4 DEF SecLevel, TypeOK, HandleInv, HoldersInv, Waiting, Locked, AgentSteps
<1>5. ASSUME NEW t \in Openers, AuthProtocol(t) PROVE HoldersInv'
  BY <1>5 DEF AuthProtocol, TypeOK, HandleInv, HoldersInv, Waiting, Locked, AgentSteps
<1>6. ASSUME NEW t \in Openers, PrivProtocol(t) PROVE HoldersInv'
  BY <1>6 DEF PrivProtocol, TypeOK, HandleInv, HoldersInv, Waiting, Locked, AgentSteps
<1>7. ASSUME NEW t \in Openers, AuthKey(t) PROVE HoldersInv'
  BY <1>7 DEF AuthKey, TypeOK, HandleInv, HoldersInv, Waiting, Locked, AgentSteps
<1>8. ASSUME NEW t \in Openers, PrivKey(t) PROVE HoldersInv'
  BY <1>8 DEF PrivKey, TypeOK, HandleInv, HoldersInv, Waiting, Locked, AgentSteps
<1>9. ASSUME NEW t \in Openers, SessOpen(t) PROVE HoldersInv'
  BY <1>9 DEF SessOpen, TypeOK, HandleInv, HoldersInv, Waiting, Locked, AgentSteps
<1>10. ASSUME NEW t \in Openers, Check(t) PROVE HoldersInv'
  BY <1>10 DEF Check, TypeOK, HandleInv, HoldersInv, Waiting, Locked, AgentSteps
<1>11. ASSUME NEW t \in Openers, Unlock(t) PROVE HoldersInv'
  BY <1>11 DEF Unlock, TypeOK, HandleInv, HoldersInv, Waiting, Locked, AgentSteps
<1>12. ASSUME NEW t \in Openers, CloseSession(t) PROVE HoldersInv'
  BY <1>12 DEF CloseSession, TypeOK, HandleInv, HoldersInv, Waiting, Locked, AgentSteps
<1>13. ASSUME NEW t \in Agents, CallAgent(t) \/ AgentStep(t) PROVE HoldersInv'
  BY <1>13 DEF CallAgent, AgentStep, InitAgent, InitSnmpAgent, InitTraps, SnmpShutdown, ShutdownAgent,
         TypeOK, HandleInv, HoldersInv, Waiting, Locked, AgentSteps
<1>14. CASE UNCHANGED vars
  BY <1>14 DEF vars, TypeOK, HandleInv, HoldersInv, Waiting, Locked, AgentSteps
<1>15. QED
  BY <1>1, <1>2, <1>3, <1>4, <1>5, <1>6, <1>7, <1>8, <1>9, <1>10, <1>11, <1>12, <1>13, <1>14 DEF Next, OpenStep

\* The fields are filled in one after the other, and a session is opened with all of them.
LEMMA KeysStep ==
  ASSUME TypeOK, KeysInv, [Next]_vars
  PROVE  KeysInv'
<1> USE SessionsAssumption, VersionsAssumption, ThreadsAssumption DEF Threads, Goto
<1>1. ASSUME NEW t \in Openers, Call(t) PROVE KeysInv'
  BY <1>1 DEF Call, TypeOK, KeysInv, Filled, KeysFit, Blank, NoSession, Waiting, Locked, AgentSteps, Configs, SecLevels
<1>2. ASSUME NEW t \in Openers, Lock(t) PROVE KeysInv'
  BY <1>2 DEF Lock, TypeOK, KeysInv, Filled, KeysFit, Blank, NoSession, Waiting, Locked, AgentSteps, Configs, SecLevels
<1>3. ASSUME NEW t \in Openers, InitSnmp(t) PROVE KeysInv'
  BY <1>3 DEF InitSnmp, TypeOK, KeysInv, Filled, KeysFit, Blank, NoSession, Waiting, Locked, AgentSteps, Configs, SecLevels
<1>4. ASSUME NEW t \in Openers, SecLevel(t) PROVE KeysInv'
  BY <1>4 DEF SecLevel, TypeOK, KeysInv, Filled, KeysFit, Blank, NoSession, Waiting, Locked, AgentSteps, Configs, SecLevels
<1>5. ASSUME NEW t \in Openers, AuthProtocol(t) PROVE KeysInv'
  <2>1. UNCHANGED <<opened, config>> /\ pc' = [pc EXCEPT ![t] = pc'[t]]
    BY <1>5 DEF AuthProtocol, TypeOK
  <2>2. pc[t] = "authProtocol" /\ pc'[t] \in {"privProtocol", "throw"}
    BY <1>5 DEF AuthProtocol, TypeOK
  <2>3. ASSUME NEW u \in Threads, u # t PROVE Filled(u)'
    <3>1. session'[u] = session[u] /\ pc'[u] = pc[u]
      BY <1>5, <2>3 DEF AuthProtocol, TypeOK
    <3>2. QED
      BY <3>1 DEF KeysInv, Filled, KeysFit
  <2>4. Filled(t)'
    <3>1. CASE pc'[t] = "throw"
      BY <3>1 DEF Filled
    <3>2. CASE pc'[t] = "privProtocol"
      <4>1. session[t] \in Configs /\ Filled(t)
        BY DEF TypeOK, KeysInv
      <4>2. /\ session'[t].version = session[t].version
            /\ session'[t].securityLevel = session[t].securityLevel
            /\ session'[t].authKey = "zeros"
            /\ session'[t].privKey = session[t].privKey
        BY <1>5, <3>2, <4>1 DEF AuthProtocol, TypeOK, Configs
      <4>3. QED
        BY <2>2, <3>2, <4>1, <4>2 DEF Filled
    <3>3. QED
      BY <2>2, <3>1, <3>2
  <2>5. QED
    BY <2>1, <2>3, <2>4 DEF KeysInv
<1>6. ASSUME NEW t \in Openers, PrivProtocol(t) PROVE KeysInv'
  <2>1. UNCHANGED <<opened, config>> /\ pc' = [pc EXCEPT ![t] = pc'[t]]
    BY <1>6 DEF PrivProtocol, TypeOK
  <2>2. pc[t] = "privProtocol" /\ pc'[t] \in {"authKey", "throw"}
    BY <1>6 DEF PrivProtocol, TypeOK
  <2>3. ASSUME NEW u \in Threads, u # t PROVE Filled(u)'
    <3>1. session'[u] = session[u] /\ pc'[u] = pc[u]
      BY <1>6, <2>3 DEF PrivProtocol, TypeOK
    <3>2. QED
      BY <3>1 DEF KeysInv, Filled, KeysFit
  <2>4. Filled(t)'
    <3>1. CASE pc'[t] = "throw"
      BY <3>1 DEF Filled
    <3>2. CASE pc'[t] = "authKey"
      <4>1. session[t] \in Configs /\ Filled(t)
        BY DEF TypeOK, KeysInv
      <4>2. /\ session'[t].version = session[t].version
            /\ session'[t].securityLevel = session[t].securityLevel
            /\ session'[t].privKey = "zeros"
            /\ session'[t].authKey = session[t].authKey
        BY <1>6, <3>2, <4>1 DEF PrivProtocol, TypeOK, Configs
      <4>3. QED
        BY <2>2, <3>2, <4>1, <4>2 DEF Filled
    <3>3. QED
      BY <2>2, <3>1, <3>2
  <2>5. QED
    BY <2>1, <2>3, <2>4 DEF KeysInv
<1>7. ASSUME NEW t \in Openers, AuthKey(t) PROVE KeysInv'
  <2>1. UNCHANGED <<opened, config>> /\ pc' = [pc EXCEPT ![t] = pc'[t]]
    BY <1>7 DEF AuthKey, TypeOK
  <2>2. pc[t] = "authKey" /\ pc'[t] \in {"privKey", "throw"}
    BY <1>7 DEF AuthKey, TypeOK
  <2>3. ASSUME NEW u \in Threads, u # t PROVE Filled(u)'
    <3>1. session'[u] = session[u] /\ pc'[u] = pc[u]
      BY <1>7, <2>3 DEF AuthKey, TypeOK
    <3>2. QED
      BY <3>1 DEF KeysInv, Filled, KeysFit
  <2>4. Filled(t)'
    <3>1. CASE pc'[t] = "throw"
      BY <3>1 DEF Filled
    <3>2. CASE pc'[t] = "privKey"
      <4>1. session[t] \in Configs /\ Filled(t)
        BY DEF TypeOK, KeysInv
      <4>2. /\ session'[t].version = session[t].version
            /\ session'[t].securityLevel = session[t].securityLevel
            /\ session'[t].privKey = session[t].privKey
            /\ session'[t].authKey = IF session[t].securityLevel \in AuthLevels THEN "derived" ELSE session[t].authKey
        BY <1>7, <3>2, <4>1 DEF AuthKey, TypeOK, Configs
      <4>3. QED
        BY <2>2, <3>2, <4>1, <4>2 DEF Filled
    <3>3. QED
      BY <2>2, <3>1, <3>2
  <2>5. QED
    BY <2>1, <2>3, <2>4 DEF KeysInv
<1>8. ASSUME NEW t \in Openers, PrivKey(t) PROVE KeysInv'
  <2>1. UNCHANGED <<opened, config>> /\ pc' = [pc EXCEPT ![t] = pc'[t]]
    BY <1>8 DEF PrivKey, TypeOK
  <2>2. pc[t] = "privKey" /\ pc'[t] \in {"snmp_sess_open", "throw"}
    BY <1>8 DEF PrivKey, TypeOK
  <2>3. ASSUME NEW u \in Threads, u # t PROVE Filled(u)'
    <3>1. session'[u] = session[u] /\ pc'[u] = pc[u]
      BY <1>8, <2>3 DEF PrivKey, TypeOK
    <3>2. QED
      BY <3>1 DEF KeysInv, Filled, KeysFit
  <2>4. Filled(t)'
    <3>1. CASE pc'[t] = "throw"
      BY <3>1 DEF Filled
    <3>2. CASE pc'[t] = "snmp_sess_open"
      <4>1. session[t] \in Configs /\ Filled(t)
        BY DEF TypeOK, KeysInv
      <4>2. /\ session'[t].version = session[t].version
            /\ session'[t].securityLevel = session[t].securityLevel
            /\ session'[t].authKey = session[t].authKey
            /\ session'[t].privKey = IF session[t].securityLevel = "authPriv" THEN "derived" ELSE session[t].privKey
        BY <1>8, <3>2, <4>1 DEF PrivKey, TypeOK, Configs
      <4>3. KeysFit(session'[t])
        BY <2>2, <4>1, <4>2 DEF Filled, KeysFit
      <4>4. QED
        BY <3>2, <4>3 DEF Filled
    <3>3. QED
      BY <2>2, <3>1, <3>2
  <2>5. QED
    BY <2>1, <2>3, <2>4 DEF KeysInv
<1>9. ASSUME NEW t \in Openers, SessOpen(t) PROVE KeysInv'
  BY <1>9 DEF SessOpen, TypeOK, KeysInv, Filled, KeysFit, Blank, NoSession, Waiting, Locked, AgentSteps, Configs, SecLevels
<1>10. ASSUME NEW t \in Openers, Check(t) PROVE KeysInv'
  BY <1>10 DEF Check, TypeOK, KeysInv, Filled, KeysFit, Blank, NoSession, Waiting, Locked, AgentSteps, Configs, SecLevels
<1>11. ASSUME NEW t \in Openers, Unlock(t) PROVE KeysInv'
  BY <1>11 DEF Unlock, TypeOK, KeysInv, Filled, KeysFit, Blank, NoSession, Waiting, Locked, AgentSteps, Configs, SecLevels
<1>12. ASSUME NEW t \in Openers, CloseSession(t) PROVE KeysInv'
  BY <1>12 DEF CloseSession, TypeOK, KeysInv, Filled, KeysFit, Blank, NoSession, Waiting, Locked, AgentSteps, Configs, SecLevels
<1>13. ASSUME NEW t \in Agents, CallAgent(t) \/ AgentStep(t) PROVE KeysInv'
  BY <1>13 DEF CallAgent, AgentStep, InitAgent, InitSnmpAgent, InitTraps, SnmpShutdown, ShutdownAgent,
         TypeOK, KeysInv, Filled, KeysFit, Blank, NoSession, Waiting, Locked, AgentSteps, Configs, SecLevels
<1>14. CASE UNCHANGED vars
  BY <1>14 DEF vars, TypeOK, KeysInv, Filled, KeysFit, Blank, NoSession, Waiting, Locked, AgentSteps, Configs, SecLevels
<1>15. QED
  BY <1>1, <1>2, <1>3, <1>4, <1>5, <1>6, <1>7, <1>8, <1>9, <1>10, <1>11, <1>12, <1>13, <1>14 DEF Next, OpenStep

-----------------------------------------------------------------------------
\* The theorems

LEMMA InitIInv == Init => IInv
<1> SUFFICES ASSUME Init PROVE IInv
  OBVIOUS
<1> USE SessionsAssumption, VersionsAssumption, ThreadsAssumption DEF Init, Threads
<1>1. TypeOK
  BY BlankTypes DEF TypeOK
<1>2. MutexInv /\ OpenersInv /\ HandleInv /\ HoldersInv
  BY DEF MutexInv, OpenersInv, HandleInv, HoldersInv, Waiting, Locked
<1>3. KeysInv
  BY DEF KeysInv, Filled
<1>4. QED
  BY <1>1, <1>2, <1>3 DEF IInv

LEMMA NextIInv == IInv /\ [Next]_vars => IInv'
BY TypeStep, MutexStep, OpenersStep, HandleStep, HoldersStep, KeysStep DEF IInv

LEMMA Invariance == Spec => []IInv
<1>1. Init => IInv
  BY InitIInv
<1>2. IInv /\ [Next]_vars => IInv'
  BY NextIInv
<1>3. QED
  BY <1>1, <1>2, PTL DEF Spec

\* Types, for any number of threads and sessions.
THEOREM TypeCorrect == Spec => []TypeOK
<1>1. IInv => TypeOK
  BY DEF IInv
<1>2. QED
  BY <1>1, Invariance, PTL

(***************************************************************************)
(* Session.cpp:13, 60: two threads are never in the setup of net-snmp on   *)
(* behalf of open functions at once, because both would own the mutex.     *)
(***************************************************************************)
THEOREM MutualExclusion == Spec => []OpensAreSerialized
<1>1. IInv => OpensAreSerialized
  <2> SUFFICES ASSUME IInv, NEW t \in Openers, NEW u \in Openers, InNetSnmpSetup(t), InNetSnmpSetup(u)
               PROVE  t = u
    BY DEF OpensAreSerialized
  <2>1. pc[t] \in Locked /\ pc[u] \in Locked
    BY DEF IInv, OpenersInv, InNetSnmpSetup, Waiting, Locked
  <2>2. mutex = t /\ mutex = u
    BY <2>1 DEF IInv, MutexInv, Threads
  <2>3. QED
    BY <2>2
<1>2. QED
  BY <1>1, Invariance, PTL

(***************************************************************************)
(* Session.cpp:16, 28, 188-197: whatever threads open, fail to open and    *)
(* close, every open session has exactly one handle that can close it.     *)
(***************************************************************************)
THEOREM OneHolder == Spec => []EachSessionHasOneHolder
<1>1. IInv => EachSessionHasOneHolder
  <2> SUFFICES ASSUME IInv PROVE EachSessionHasOneHolder
    OBVIOUS
  <2>1. opened \subseteq Handles /\ NULL \notin opened
    BY SessionsAssumption DEF IInv, TypeOK
  <2>2. QED
    BY <2>1 DEF IInv, HoldersInv, EachSessionHasOneHolder
<1>2. QED
  BY <1>1, Invariance, PTL

(***************************************************************************)
(* Session.cpp:93-158: no session of openSessionV3 is open without a key   *)
(* that its security level uses, or with one it does not use; the length   *)
(* that lines 112 and 123 set for every level stands over zero bytes where *)
(* no key is used.  A session of openSession, of any version, has no key.  *)
(***************************************************************************)
THEOREM KeysMatch == Spec => []KeysMatchSecurityLevel
<1>1. IInv => KeysMatchSecurityLevel
  BY DEF IInv, KeysInv, KeysMatchSecurityLevel
<1>2. QED
  BY <1>1, Invariance, PTL
=============================================================================
