--------------------------- MODULE VariablesProofs ---------------------------
(***************************************************************************)
(* That at finds what an OID was first given and getMap what it was last   *)
(* given, and that a trap tells an uptime, for lists of any length, any    *)
(* values, and any unit of time.                                           *)
(***************************************************************************)
EXTENDS Variables, OidOrderProofs

VariableTypes ==
  {"BOOLEAN", "INTEGER", "INTEGER64", "GAUGE", "OCTET_STR", "NULL", "OBJECT_ID", "TIMETICKS"}

Values == [type : VariableTypes \cup {"none"}, val : Seq(Int)]

TypeOK ==
  /\ list \in Seq([oid : Oids, type : VariableTypes, val : Seq(Int)])
  /\ given \in [Oids -> Values]
  /\ latest \in [Oids -> Values]
  /\ elapsed \in Nat /\ started \in 0 .. elapsed
  /\ adjusted \in Int
  /\ made \in [of : {"none", "system", "process"}, elapsed : Nat, adjusted : Int]

\* A boolean is kept as a long.
IsLong(v) == v.type = "BOOLEAN" => \E b, rest \in Int : v.val = <<b, rest>>
BooleansAreLongs == \A i \in DOMAIN list : IsLong(list[i])

\* The first variable of each OID holds what the OID was first given.
FirstHolds ==
  \A o \in Oids :
    /\ Positions(o) = {} => given[o] = NotGiven
    /\ \A i \in Positions(o) : (\A j \in Positions(o) : i <= j) => Holds(list[i], given[o])

\* The last variable of each OID holds what the OID was last given.
LastHolds ==
  \A o \in Oids :
    /\ Positions(o) = {} => latest[o] = NotGiven
    /\ \A i \in Positions(o) : (\A j \in Positions(o) : j <= i) => Holds(list[i], latest[o])

\* How a trap's uptime is related to the moment when the list was made.
Tells(uptime, m) ==
  /\ m.of = "system" => uptime \in m.elapsed - TicksPerSecond + 1 .. m.elapsed
  /\ m.of = "process" =>
       /\ uptime >= 0
       /\ m.adjusted <= 0 => uptime < (m.elapsed - started) + TicksPerSecond
       /\ m.adjusted >= 0 => uptime > (m.elapsed - started) - TicksPerSecond

\* The uptime a trap was made with stays with it.
TrapHolds ==
  list # <<>> /\ list[1].type = "TIMETICKS" =>
    LET uptime == given[SysUpTime].val[1]
    IN  /\ given[SysUpTime].type = "TIMETICKS"
        /\ list[1].val = <<uptime % TimeTicks>>
        /\ Tells(uptime, made)

IInv == TypeOK /\ BooleansAreLongs /\ FirstHolds /\ LastHolds /\ TrapHolds

-----------------------------------------------------------------------------
\* Time

LEMMA WholeSeconds ==
  ASSUME NEW x \in Int
  PROVE  /\ x \div TicksPerSecond \in Int
         /\ TicksPerSecond * (x \div TicksPerSecond) <= x
         /\ x < TicksPerSecond * (x \div TicksPerSecond) + TicksPerSecond
BY TimeAssumption

LEMMA Multiples ==
  ASSUME NEW p \in Int, NEW q \in Int
  PROVE  /\ TicksPerSecond * (p - q) = TicksPerSecond * p - TicksPerSecond * q
         /\ TicksPerSecond * p \in Int
         /\ p <= q => TicksPerSecond * p <= TicksPerSecond * q
BY TimeAssumption

\* The uptime of the system is right to the second, whatever the clock says.
LEMMA SystemTells ==
  ASSUME TypeOK, NEW u \in UptimesOf("system")
  PROVE  u \in Int /\ u \in elapsed - TicksPerSecond + 1 .. elapsed
<1> DEFINE T == TicksPerSecond
           s == elapsed \div T
<1>1. elapsed \in Nat /\ T \in Nat \ {0}
  BY TimeAssumption DEF TypeOK
<1>2. s \in Int /\ T * s <= elapsed /\ elapsed < T * s + T /\ T * s \in Int
  BY <1>1, WholeSeconds, Multiples
<1>3. u = elapsed \/ u = T * s
  BY DEF UptimesOf, CentisecondsNetSnmpUptime, CentisecondsUptime, CentisecondsPidStarted
<1> HIDE DEF s, T
<1>4. u \in Int /\ u \in elapsed - T + 1 .. elapsed
  BY <1>1, <1>2, <1>3
<1> QED
  BY <1>4 DEF T

\* The age of the process is right to the second if the clock has not been set.
LEMMA ProcessTells ==
  ASSUME TypeOK, NEW u \in UptimesOf("process")
  PROVE  /\ u \in Int /\ u >= 0
         /\ adjusted <= 0 => u < (elapsed - started) + TicksPerSecond
         /\ adjusted >= 0 => u > (elapsed - started) - TicksPerSecond
<1> DEFINE T == TicksPerSecond
           B == BootTime + started
           age == elapsed - started
<1>1. /\ elapsed \in Nat /\ adjusted \in Int /\ T \in Nat \ {0} /\ B \in Nat
      /\ age \in Nat /\ BootTime + elapsed + adjusted = B + age + adjusted
  BY TimeAssumption DEF TypeOK
<1>2. Now \in Int /\ T * Now <= B + age + adjusted
      /\ B + age + adjusted < T * Now + T /\ T * Now \in Int
  <2>1. B + age + adjusted \in Int
    BY <1>1
  <2> QED
    BY <1>1, <2>1, WholeSeconds, Multiples DEF Now
<1>3. StartTime \in Int /\ T * StartTime <= B /\ B < T * StartTime + T /\ T * StartTime \in Int
  BY <1>1, WholeSeconds, Multiples DEF StartTime
<1>4. u = IF StartTime > Now THEN 0 ELSE T * (Now - StartTime)
  BY DEF UptimesOf, CentisecondsPidStarted, CentisecondsSince
<1>5. T * (Now - StartTime) = T * Now - T * StartTime
      /\ (StartTime <= Now => T * StartTime <= T * Now)
  BY <1>2, <1>3, Multiples
<1>6. adjusted >= 0 => StartTime <= Now
  <2> SUFFICES ASSUME adjusted >= 0, Now + 1 <= StartTime PROVE FALSE
    BY <1>2, <1>3
  <2>1. T * (Now + 1) <= T * StartTime
    BY <1>2, <1>3, Multiples
  <2>2. T * (Now + 1) = T * Now + T
    BY <1>1, <1>2
  <2> HIDE DEF B, T, age
  <2> QED
    BY <1>1, <1>2, <1>3, <2>1, <2>2
<1>7. CASE StartTime > Now
  <2>1. u = 0 /\ ~(adjusted >= 0)
    BY <1>2, <1>3, <1>4, <1>6, <1>7
  <2> HIDE DEF B
  <2> QED
    BY <1>1, <2>1
<1>8. CASE StartTime <= Now
  <2>1. u = T * Now - T * StartTime /\ T * StartTime <= T * Now
    BY <1>2, <1>3, <1>4, <1>5, <1>8
  <2> HIDE DEF B, T, age
  <2>2. /\ u \in Int /\ u >= 0
        /\ adjusted <= 0 => u < age + T
        /\ adjusted >= 0 => u > age - T
    BY <1>1, <1>2, <1>3, <2>1
  <2> QED
    BY <2>2 DEF T, age
<1> QED
  BY <1>2, <1>3, <1>7, <1>8

\* Whatever a trap's list is made with tells the truth about that moment.
LEMMA UptimesTell ==
  ASSUME TypeOK, NEW what \in {"system", "process"}, NEW u \in UptimesOf(what)
  PROVE  u \in Int /\ Tells(u, [of |-> what, elapsed |-> elapsed, adjusted |-> adjusted])
<1>1. CASE what = "system"
  BY <1>1, SystemTells DEF Tells
<1>2. CASE what = "process"
  BY <1>2, ProcessTells DEF Tells
<1> QED
  BY <1>1, <1>2

-----------------------------------------------------------------------------
\* The invariant is inductive

\* Every variable of a list is one.
LEMMA EachVariable ==
  ASSUME TypeOK
  PROVE  \A i \in DOMAIN list : list[i] \in [oid : Oids, type : VariableTypes, val : Seq(Int)]
BY ElementOf, Zenon DEF TypeOK

LEMMA InitOK == Init => IInv
<1> SUFFICES ASSUME Init PROVE IInv
  OBVIOUS
<1>1. list = <<>> /\ given = [o \in Oids |-> NotGiven] /\ latest = given /\ DOMAIN list = {}
  BY DEF Init
<1>2. NotGiven \in Values /\ elapsed \in Nat /\ started \in 0 .. elapsed
  BY TimeAssumption DEF Init, NotGiven, Values
<1> QED
  BY <1>1, <1>2 DEF Init, IInv, TypeOK, NothingMade, BooleansAreLongs, FirstHolds, LastHolds, TrapHolds, Positions

\* A variable added at the end is the first of its OID only where there was none.
LEMMA AddVariableKeeps ==
  ASSUME IInv, NEW o \in Oids, NEW type \in VariableTypes, type # "TIMETICKS",
         NEW stored \in Seq(Int), NEW passed \in Seq(Int),
         Holds([oid |-> o, type |-> type, val |-> stored], [type |-> type, val |-> passed]),
         IsLong([oid |-> o, type |-> type, val |-> stored]),
         AddVariable(o, type, stored, passed)
  PROVE  IInv'
<1> DEFINE v == [oid |-> o, type |-> type, val |-> stored]
           g == [type |-> type, val |-> passed]
           n == Len(list)
<1>1. /\ list' = Append(list, v)
      /\ given' = IF given[o] = NotGiven THEN [given EXCEPT ![o] = g] ELSE given
      /\ latest' = [latest EXCEPT ![o] = g]
      /\ UNCHANGED <<elapsed, started, adjusted, made>>
  BY Zenon DEF AddVariable
<1>2. /\ v \in [oid : Oids, type : VariableTypes, val : Seq(Int)] /\ v.type = type /\ v.oid = o
      /\ g \in Values /\ g.type = type
  BY DEF Values
<1>3. Holds(v, g) /\ IsLong(v)
  OBVIOUS
<1> HIDE DEF v, g
<1>4. TypeOK'
  BY <1>1, <1>2 DEF IInv, TypeOK
<1>5. /\ n \in Nat /\ DOMAIN list = 1..n /\ DOMAIN list' = 1..(n + 1)
      /\ \A i \in 1..n : list'[i] = list[i]
      /\ list'[n + 1] = v
  BY <1>1, <1>2 DEF IInv, TypeOK
<1> HIDE DEF n
<1>6. ASSUME NEW p \in Oids
      PROVE  /\ Positions(p) \subseteq 1..n
             /\ Positions(p)' = IF p = o THEN Positions(p) \cup {n + 1} ELSE Positions(p)
  BY <1>2, <1>5 DEF Positions
<1>7. FirstHolds'
  <2> SUFFICES ASSUME NEW p \in Oids
               PROVE  /\ Positions(p)' = {} => given'[p] = NotGiven
                      /\ \A i \in Positions(p)' :
                           (\A j \in Positions(p)' : i <= j) => Holds(list'[i], given'[p])
    BY Zenon DEF FirstHolds, Holds
  <2>1. /\ Positions(p) = {} => given[p] = NotGiven
        /\ \A i \in Positions(p) : (\A j \in Positions(p) : i <= j) => Holds(list[i], given[p])
    BY Zenon DEF IInv, FirstHolds
  <2>2. p # o => given'[p] = given[p]
    BY <1>1 DEF IInv, TypeOK
  <2>3. \A i \in Positions(p) : list'[i] = list[i] /\ i < n + 1
    BY <1>5, <1>6
  <2>4. CASE p # o
    BY <1>6, <2>1, <2>2, <2>3, <2>4, Zenon
  <2>5. CASE p = o /\ Positions(p) = {}
    <3>1. Positions(p)' = {n + 1} /\ given'[p] = g
      BY <1>1, <1>6, <2>1, <2>5 DEF IInv, TypeOK
    <3> QED
      BY <1>3, <1>5, <3>1, Zenon
  <2>6. CASE p = o /\ Positions(p) # {}
    <3>1. Positions(p)' = Positions(p) \cup {n + 1}
      BY <1>6, <2>6
    <3>2. PICK m \in Positions(p) : \A j \in Positions(p) : m <= j
      <4>1. Positions(p) \in SUBSET Nat
        BY <1>5, <1>6
      <4> QED
        BY <2>6, <4>1, LeastNumber, Zenon
    <3>3. Holds(list[m], given[p])
      BY <2>1, <3>2, Zenon
    <3>4. given[p] # NotGiven
      <4>1. list[m].type \in VariableTypes
        <5>1. m \in DOMAIN list
          BY <1>5, <1>6
        <5>2. list[m] \in [oid : Oids, type : VariableTypes, val : Seq(Int)]
          BY <5>1, EachVariable, Zenon DEF IInv
        <5> QED
          BY <5>2
      <4>2. given[p].type # "none"
        BY <3>3, <4>1 DEF Holds, VariableTypes
      <4> QED
        BY <4>2 DEF NotGiven
    <3>5. given'[p] = given[p]
      BY <1>1, <2>6, <3>4, Zenon
    <3>6. ASSUME NEW i \in Positions(p)', \A j \in Positions(p)' : i <= j
          PROVE  i \in Positions(p) /\ \A j \in Positions(p) : i <= j
      <4>1. i <= m /\ m < n + 1 /\ m \in Nat
        BY <1>5, <1>6, <2>3, <3>1, <3>6
      <4>2. i # n + 1
        BY <1>5, <4>1
      <4> QED
        BY <3>1, <3>6, <4>2, Zenon
    <3> QED
      BY <2>1, <2>3, <3>1, <3>5, <3>6, Zenon
  <2> QED
    BY <2>4, <2>5, <2>6, Zenon
<1>8. LastHolds'
  <2> SUFFICES ASSUME NEW p \in Oids
               PROVE  /\ Positions(p)' = {} => latest'[p] = NotGiven
                      /\ \A i \in Positions(p)' :
                           (\A j \in Positions(p)' : j <= i) => Holds(list'[i], latest'[p])
    BY Zenon DEF LastHolds, Holds
  <2>1. CASE p # o
    <3>1. Positions(p)' = Positions(p) /\ latest'[p] = latest[p]
      BY <1>1, <1>6, <2>1 DEF IInv, TypeOK
    <3>2. \A i \in Positions(p) : list'[i] = list[i]
      BY <1>5, <1>6
    <3> QED
      BY <3>1, <3>2, Zenon DEF IInv, LastHolds
  <2>2. CASE p = o
    <3>1. n + 1 \in Positions(p)' /\ latest'[p] = g
      BY <1>1, <1>6, <2>2 DEF IInv, TypeOK
    <3>2. \A i \in Positions(p)' : n + 1 <= i => i = n + 1
      BY <1>5, <1>6, <2>2
    <3> QED
      BY <1>3, <1>5, <3>1, <3>2, Zenon
  <2> QED
    BY <2>1, <2>2
<1>9. BooleansAreLongs'
  <2>1. \A i \in 1..n : IsLong(list'[i])
    BY <1>5, Zenon DEF IInv, BooleansAreLongs
  <2>2. \A i \in 1..(n + 1) : i \in 1..n \/ i = n + 1
    BY <1>5
  <2> QED
    BY <1>3, <1>5, <2>1, <2>2, Zenon DEF BooleansAreLongs, IsLong
<1>10. TrapHolds'
  <2> SUFFICES ASSUME list' # <<>>, list'[1].type = "TIMETICKS"
               PROVE  /\ given'[SysUpTime].type = "TIMETICKS"
                      /\ list'[1].val = <<(given'[SysUpTime].val[1] % TimeTicks)>>
                      /\ Tells(given[SysUpTime].val[1], made)'
    BY Zenon DEF TrapHolds, Tells
  <2>1. n # 0
    BY <1>2, <1>5
  <2>2. list # <<>> /\ list'[1] = list[1]
    BY <1>5, <2>1 DEF n
  <2>3. /\ given[SysUpTime].type = "TIMETICKS"
        /\ list[1].val = <<(given[SysUpTime].val[1] % TimeTicks)>>
        /\ Tells(given[SysUpTime].val[1], made)
    BY <2>2, Zenon DEF IInv, TrapHolds
  <2>4. given'[SysUpTime] = given[SysUpTime]
    <3>1. given[SysUpTime] # NotGiven
      BY <2>3 DEF NotGiven
    <3> QED
      BY <1>1, <3>1, OidsAssumption DEF IInv, TypeOK
  <2>5. Tells(given[SysUpTime].val[1], made)'
    BY <1>1, <2>3, <2>4, Zenon DEF Tells
  <2> QED
    BY <2>2, <2>3, <2>4, <2>5, Zenon
<1> QED
  BY <1>4, <1>7, <1>8, <1>9, <1>10, Zenon DEF IInv

LEMMA AddVarKeeps ==
  ASSUME IInv, AddVar \/ AgentVar
  PROVE  IInv'
<1>0. /\ \A k \in Int : <<k>> \in Seq(Int)
      /\ <<>> \in Seq(Int)
  OBVIOUS
<1>1. /\ True \in Seq(Int) /\ False \in Seq(Int)
      /\ LongTrue \in Seq(Int) /\ Rfc1212False \in Seq(Int)
      /\ \A v \in {True, False} : v[1] \in Int /\ (v = IF v[1] = 1 THEN True ELSE False)
  BY DEF True, False, LongTrue, Rfc1212False
<1>2. ASSUME NEW o \in Oids, NEW v \in {True, False}, AddBooleanVar(o, v)
      PROVE  IInv'
  <2>1. PICK rest \in RestBytes : AddVariable(o, "BOOLEAN", <<v[1], rest>>, v)
    BY <1>2, Zenon DEF AddBooleanVar
  <2> DEFINE long == <<v[1], rest>>
  <2>2. v[1] \in Int /\ rest \in Int
    BY <1>1, ValuesAssumption
  <2>3. long \in Seq(Int) /\ long[1] = v[1] /\ long = <<v[1], rest>>
    BY <2>2
  <2> HIDE DEF long
  <2>4. Holds([oid |-> o, type |-> "BOOLEAN", val |-> long], [type |-> "BOOLEAN", val |-> v])
    BY <1>1, <2>3 DEF Holds
  <2>5. IsLong([oid |-> o, type |-> "BOOLEAN", val |-> long])
    BY <2>2, <2>3 DEF IsLong
  <2>6. "BOOLEAN" \in VariableTypes /\ "BOOLEAN" # "TIMETICKS" /\ v \in Seq(Int)
    BY <1>1 DEF VariableTypes
  <2> QED
    BY <2>1, <2>3, <2>4, <2>5, <2>6, AddVariableKeeps, Zenon
<1>3. ASSUME NEW o \in Oids, NEW type \in {"INTEGER", "INTEGER64", "GAUGE"}, NEW k \in Numbers,
             AddVariable(o, type, <<k>>, <<k>>)
      PROVE  IInv'
  <2>1. Holds([oid |-> o, type |-> type, val |-> <<k>>], [type |-> type, val |-> <<k>>]) /\ IsLong([oid |-> o, type |-> type, val |-> <<k>>])
    BY DEF Holds, IsLong
  <2>2. type \in VariableTypes /\ type # "TIMETICKS" /\ <<k>> \in Seq(Int)
    BY <1>0, ValuesAssumption DEF VariableTypes
  <2> QED
    BY <1>3, <2>1, <2>2, AddVariableKeeps, Zenon
<1>4. ASSUME NEW o \in Oids, NEW text \in Texts, AddVariable(o, "OCTET_STR", text, text)
      PROVE  IInv'
  <2>1. Holds([oid |-> o, type |-> "OCTET_STR", val |-> text], [type |-> "OCTET_STR", val |-> text]) /\ IsLong([oid |-> o, type |-> "OCTET_STR", val |-> text])
    BY DEF Holds, IsLong
  <2>2. "OCTET_STR" \in VariableTypes /\ "OCTET_STR" # "TIMETICKS" /\ text \in Seq(Int)
    BY ValuesAssumption DEF VariableTypes
  <2> QED
    BY <1>4, <2>1, <2>2, AddVariableKeeps, Zenon
<1>5. ASSUME NEW o \in Oids, AddVariable(o, "NULL", <<>>, <<>>)
      PROVE  IInv'
  <2>1. Holds([oid |-> o, type |-> "NULL", val |-> <<>>], [type |-> "NULL", val |-> <<>>]) /\ IsLong([oid |-> o, type |-> "NULL", val |-> <<>>])
    BY DEF Holds, IsLong
  <2>2. "NULL" \in VariableTypes /\ "NULL" # "TIMETICKS"
    BY DEF VariableTypes
  <2> QED
    BY <1>0, <1>5, <2>1, <2>2, AddVariableKeeps, Zenon
<1>6. ASSUME NEW o \in Oids, NEW long \in {LongTrue, Rfc1212False}, NEW v \in {True, False},
             long = LongTrue <=> v = True,
             AddVariable(o, "BOOLEAN", long, v)
      PROVE  IInv'
  <2>1. long[1] = IF v = True THEN 1 ELSE 2
    BY <1>6 DEF True, False, LongTrue, Rfc1212False
  <2>2. Holds([oid |-> o, type |-> "BOOLEAN", val |-> long], [type |-> "BOOLEAN", val |-> v])
    BY <1>6, <2>1 DEF Holds
  <2>3. IsLong([oid |-> o, type |-> "BOOLEAN", val |-> long])
    BY <1>6 DEF IsLong, LongTrue, Rfc1212False
  <2>4. "BOOLEAN" \in VariableTypes /\ "BOOLEAN" # "TIMETICKS" /\ long \in Seq(Int) /\ v \in Seq(Int)
    BY <1>1, <1>6 DEF VariableTypes
  <2> QED
    BY <1>6, <2>2, <2>3, <2>4, AddVariableKeeps, Zenon
<1>7. ASSUME NEW o \in Oids, NEW k \in Numbers, AddVariable(o, "OBJECT_ID", <<k>>, <<k>>)
      PROVE  IInv'
  <2>1. Holds([oid |-> o, type |-> "OBJECT_ID", val |-> <<k>>], [type |-> "OBJECT_ID", val |-> <<k>>]) /\ IsLong([oid |-> o, type |-> "OBJECT_ID", val |-> <<k>>])
    BY DEF Holds, IsLong
  <2>2. "OBJECT_ID" \in VariableTypes /\ "OBJECT_ID" # "TIMETICKS" /\ <<k>> \in Seq(Int)
    BY <1>0, ValuesAssumption DEF VariableTypes
  <2> QED
    BY <1>7, <2>1, <2>2, AddVariableKeeps, Zenon
<1>8. True # False /\ LongTrue # Rfc1212False
  BY DEF True, False, LongTrue, Rfc1212False
<1>9. CASE AddVar
  BY <1>2, <1>3, <1>4, <1>5, <1>9, Zenon DEF AddVar
<1>10. CASE AgentVar
  BY <1>6, <1>7, <1>8, <1>10, Zenon DEF AgentVar
<1> QED
  BY <1>9, <1>10

LEMMA CreateV2TrapVarlistKeeps ==
  ASSUME IInv, CreateV2TrapVarlist
  PROVE  IInv'
<1>1. PICK k \in Numbers, what \in {"system", "process"} : \E uptime \in UptimesOf(what) :
        /\ list' = TrapVariables(uptime, <<k>>)
        /\ given' = [given EXCEPT ![SysUpTime] = [type |-> "TIMETICKS", val |-> <<uptime>>],
                                  ![Trap] = [type |-> "OBJECT_ID", val |-> <<k>>]]
        /\ latest' = given'
        /\ made' = [of |-> what, elapsed |-> elapsed, adjusted |-> adjusted]
  BY Zenon DEF CreateV2TrapVarlist
<1>2. PICK uptime \in UptimesOf(what) :
        /\ list' = TrapVariables(uptime, <<k>>)
        /\ given' = [given EXCEPT ![SysUpTime] = [type |-> "TIMETICKS", val |-> <<uptime>>],
                                  ![Trap] = [type |-> "OBJECT_ID", val |-> <<k>>]]
        /\ latest' = given'
        /\ made' = [of |-> what, elapsed |-> elapsed, adjusted |-> adjusted]
  BY <1>1
<1>0. list = <<>> /\ UNCHANGED <<elapsed, started, adjusted>>
  BY Zenon DEF CreateV2TrapVarlist
<1>3. uptime \in Int /\ Tells(uptime, [of |-> what, elapsed |-> elapsed, adjusted |-> adjusted])
  BY UptimesTell DEF IInv
<1> DEFINE t == (uptime % TimeTicks)
           a == [oid |-> SysUpTime, type |-> "TIMETICKS", val |-> <<t>>]
           b == [oid |-> Trap, type |-> "OBJECT_ID", val |-> <<k>>]
           ga == [type |-> "TIMETICKS", val |-> <<uptime>>]
           gb == [type |-> "OBJECT_ID", val |-> <<k>>]
<1>4. /\ t \in Int /\ k \in Int
      /\ \A i \in Int : <<i>> \in Seq(Int) /\ <<i>>[1] = i
  BY <1>3, TimeAssumption, ValuesAssumption
<1>5. list' = <<a, b>>
  BY <1>2, Zenon DEF TrapVariables
<1> HIDE DEF t
<1>6. /\ a \in [oid : Oids, type : VariableTypes, val : Seq(Int)]
      /\ b \in [oid : Oids, type : VariableTypes, val : Seq(Int)]
      /\ ga \in Values /\ gb \in Values
  BY <1>3, <1>4, OidsAssumption DEF VariableTypes, Values
<1>7. /\ a.oid = SysUpTime /\ a.type = "TIMETICKS" /\ a.val = <<t>>
      /\ b.oid = Trap /\ b.type = "OBJECT_ID" /\ b.val = <<k>>
      /\ ga.type = "TIMETICKS" /\ ga.val = <<uptime>>
      /\ gb.type = "OBJECT_ID" /\ gb.val = <<k>>
  OBVIOUS
<1>8. /\ given' \in [Oids -> Values]
      /\ given'[SysUpTime] = ga /\ given'[Trap] = gb
      /\ \A p \in Oids \ {SysUpTime, Trap} : given'[p] = given[p]
  BY <1>2, <1>6, OidsAssumption DEF IInv, TypeOK
<1> HIDE DEF a, b, ga, gb
<1>9. TypeOK'
  <2>1. list' \in Seq([oid : Oids, type : VariableTypes, val : Seq(Int)])
    BY <1>5, <1>6
  <2>2. latest' \in [Oids -> Values]
    BY <1>2, <1>8
  <2>3. /\ elapsed' \in Nat /\ started' \in 0 .. elapsed' /\ adjusted' \in Int
        /\ made' \in [of : {"none", "system", "process"}, elapsed : Nat, adjusted : Int]
    BY <1>0, <1>2 DEF IInv, TypeOK
  <2> QED
    BY <1>8, <2>1, <2>2, <2>3 DEF TypeOK
<1>10. DOMAIN list' = {1, 2} /\ list'[1] = a /\ list'[2] = b /\ list' # <<>>
  BY <1>5
<1>11. ASSUME NEW p \in Oids
       PROVE  /\ Positions(p)' = {} => given'[p] = NotGiven
              /\ \A i \in Positions(p)' : Holds(list'[i], given'[p])
  <2>1. \A i \in Positions(p)' : i \in {1, 2} /\ list'[i].oid = p
    BY <1>10 DEF Positions
  <2>2. Holds(a, ga) /\ Holds(b, gb)
    BY <1>7 DEF Holds
  <2>3. \A i \in Positions(p)' : Holds(list'[i], given'[p])
    BY <1>7, <1>8, <1>10, <2>1, <2>2
  <2>4. CASE p \in {SysUpTime, Trap}
    <3>1. Positions(p)' # {}
      BY <1>7, <1>10, <2>4 DEF Positions
    <3> QED
      BY <2>3, <3>1, Zenon
  <2>5. CASE p \notin {SysUpTime, Trap}
    <3>1. Positions(p) = {}
      BY <1>0 DEF Positions
    <3> QED
      BY <1>8, <2>3, <2>5, <3>1 DEF IInv, FirstHolds
  <2> QED
    BY <2>4, <2>5
<1>12. FirstHolds' /\ LastHolds'
  <2>1. FirstHolds'
    BY <1>11, Zenon DEF FirstHolds, Holds
  <2>2. LastHolds'
    BY <1>2, <1>11, Zenon DEF LastHolds, Holds
  <2> QED
    BY <2>1, <2>2
<1>13. BooleansAreLongs'
  BY <1>7, <1>10 DEF BooleansAreLongs, IsLong
<1>14. TrapHolds'
  <2>1. given'[SysUpTime].val[1] = uptime
    BY <1>3, <1>4, <1>7, <1>8
  <2>2. list'[1].val = <<(uptime % TimeTicks)>>
    BY <1>7, <1>10 DEF t
  <2>3. Tells(uptime, made)'
    BY <1>0, <1>2, <1>3, <2>1, Zenon DEF Tells
  <2> QED
    BY <1>7, <1>8, <2>1, <2>2, <2>3, Zenon DEF TrapHolds, Tells
<1> QED
  BY <1>9, <1>12, <1>13, <1>14, Zenon DEF IInv

LEMMA OthersKeep ==
  ASSUME IInv, Free \/ TimePasses \/ ClockIsSet \/ UNCHANGED vars
  PROVE  IInv'
<1>1. CASE Free
  <2>1. list' = <<>> /\ given' = [o \in Oids |-> NotGiven] /\ latest' = given'
        /\ made' = NothingMade /\ UNCHANGED <<elapsed, started, adjusted>>
    BY <1>1, Zenon DEF Free
  <2>2. DOMAIN list' = {} /\ NotGiven \in Values
    BY <2>1 DEF NotGiven, Values
  <2> QED
    BY <2>1, <2>2 DEF IInv, TypeOK, NothingMade, BooleansAreLongs, FirstHolds, LastHolds, TrapHolds, Positions
<1>2. CASE TimePasses \/ ClockIsSet \/ UNCHANGED vars
  <2>1. UNCHANGED <<list, given, latest, started, made>>
    BY <1>2, Zenon DEF TimePasses, ClockIsSet, vars
  <2>2. elapsed' \in Nat /\ elapsed <= elapsed' /\ adjusted' \in Int
    BY <1>2, TimeAssumption DEF TimePasses, ClockIsSet, vars, IInv, TypeOK
  <2>3. TypeOK'
    BY <2>1, <2>2 DEF IInv, TypeOK
  <2>4. FirstHolds' /\ LastHolds' /\ BooleansAreLongs'
    BY <2>1 DEF IInv, FirstHolds, LastHolds, BooleansAreLongs, Positions, Holds, IsLong
  <2>5. TrapHolds'
    BY <2>1 DEF IInv, TrapHolds, Tells
  <2> QED
    BY <2>3, <2>4, <2>5 DEF IInv
<1> QED
  BY <1>1, <1>2

LEMMA Inductive == Spec => []IInv
<1>1. IInv /\ [Next]_vars => IInv'
  BY AddVarKeeps, CreateV2TrapVarlistKeeps, OthersKeep DEF Next
<1> QED
  BY <1>1, InitOK, PTL DEF Spec

\* A list is made of variables, whatever the values and however many.
THEOREM TypeCorrect == Spec => []TypeOK
<1>1. IInv => TypeOK
  BY DEF IInv
<1> QED
  BY <1>1, Inductive, PTL

\* A trap tells the uptime of the system, or the age of the process where its client
\* asked for that, for any unit of time and any width of a sysUpTime.
THEOREM UptimeIsTold == Spec => []TrapsTellTheUptime
<1>1. IInv => TrapsTellTheUptime
  BY Zenon DEF IInv, TrapHolds, TrapsTellTheUptime, Tells
<1> QED
  BY <1>1, Inductive, PTL

-----------------------------------------------------------------------------
\* Reading

\* Varlist::at finds the first variable of an OID if there is one.
LEMMA AtFirst ==
  ASSUME TypeOK, NEW o \in Oids
  PROVE  /\ Positions(o) = {} => At(o) = 0
         /\ Positions(o) # {} => /\ At(o) \in Positions(o)
                               /\ \A j \in Positions(o) : At(o) <= j
         /\ Positions(o) \in SUBSET (1..Len(list)) /\ Len(list) \in Nat
<1>1. Positions(o) \in SUBSET (1..Len(list)) /\ Len(list) \in Nat
  BY DEF Positions, TypeOK
<1>2. ASSUME Positions(o) # {}
      PROVE  \E m \in Positions(o) : \A j \in Positions(o) : m <= j
  <2>1. Positions(o) \in SUBSET Nat
    BY <1>1
  <2> QED
    BY <1>2, <2>1, LeastNumber, Zenon
<1> QED
  BY <1>1, <1>2, Zenon DEF At

\* What the readers of one type find.
LEMMA ReadIs ==
  ASSUME IInv, NEW o \in Oids, NEW type \in VariableTypes
  PROVE  \/ Positions(o) = {} /\ given[o] = NotGiven /\ At(o) = 0 /\ Read(o, type) = Throws
         \/ /\ At(o) \in DOMAIN list /\ At(o) # 0
            /\ Holds(list[At(o)], given[o])
            /\ Read(o, type) = IF given[o].type = type THEN list[At(o)].val ELSE Throws
<1>1. CASE Positions(o) = {}
  <2>1. At(o) = 0 /\ given[o] = NotGiven
    BY <1>1, AtFirst, Zenon DEF IInv, FirstHolds
  <2> QED
    BY <1>1, <2>1, Zenon DEF Read
<1>2. CASE Positions(o) # {}
  <2>1. At(o) \in Positions(o) /\ Holds(list[At(o)], given[o])
    BY <1>2, AtFirst, Zenon DEF IInv, FirstHolds
  <2>2. At(o) \in DOMAIN list /\ At(o) # 0
    <3>1. Positions(o) \in SUBSET (1..Len(list)) /\ 0 \notin 1..Len(list)
      BY AtFirst DEF IInv
    <3> QED
      BY <2>1, <3>1, Zenon DEF Positions
  <2> QED
    BY <2>1, <2>2, Zenon DEF Read, Holds
<1> QED
  BY <1>1, <1>2

\* The first element of a sequence that is c.
LEMMA FirstPlace ==
  ASSUME NEW s \in Seq(Int), NEW k \in 1..Len(s), NEW c \in Int, s[k] = c,
         \A i \in 1..(k - 1) : s[i] # c
  PROVE  SelectInSeq(s, LAMBDA d : d = c) = k
<1> DEFINE I == {i \in 1..Len(s) : s[i] = c}
<1>1. k \in I /\ \A i \in I : i \in Int /\ k <= i
  OBVIOUS
<1>2. \A m \in I : (\A i \in I : m <= i) => m = k
  <2> SUFFICES ASSUME NEW m \in I, \A i \in I : m <= i PROVE m = k
    OBVIOUS
  <2>1. m <= k /\ k <= m /\ m \in Int /\ k \in Int
    BY <1>1, Zenon
  <2> QED
    BY <2>1
<1>3. Min(I) = k
  <2> HIDE DEF I
  <2> QED
    BY <1>1, <1>2, Zenon DEF Min
<1> QED
  BY <1>1, <1>3, Zenon DEF SelectInSeq

\* A plain text is found behind its type and between its quotes.
LEMMA TextIsFound ==
  ASSUME NEW o \in Oids, At(o) # 0, list[At(o)].type = "OCTET_STR",
         NEW t \in Seq(Int), t = list[At(o)].val, Plain(t)
  PROVE  AsString(o) = t
<1> DEFINE head == <<StringWord, Separator, Quote>>
           quoted == <<Quote>> \o t \o <<Quote>>
           text == head \o t \o <<Quote>>
           n == Len(t)
<1>1. StringWord = 102 /\ Separator = 100 /\ Quote = 101
  BY DEF StringWord, Separator, Quote
<1>2. /\ n \in Nat /\ text \in Seq(Int) /\ Len(text) = n + 4
      /\ text[1] = StringWord /\ text[2] = Separator /\ text[3] = Quote /\ text[n + 4] = Quote
      /\ \A i \in 1..n : text[i + 3] = t[i]
  <2> DEFINE front == head \o t
             quote == <<Quote>>
  <2>1. /\ head \in Seq(Int) /\ Len(head) = 3
        /\ head[1] = StringWord /\ head[2] = Separator /\ head[3] = Quote
        /\ quote \in Seq(Int) /\ Len(quote) = 1 /\ quote[1] = Quote
    BY <1>1
  <2> HIDE DEF head, quote
  <2>2. /\ front \in Seq(Int) /\ Len(front) = Len(head) + n
        /\ \A i \in 1..Len(head) : front[i] = head[i]
        /\ \A i \in 1..n : front[Len(head) + i] = t[i]
    BY <2>1, ConcatPlaces, Zenon
  <2> HIDE DEF front
  <2>3. /\ text \in Seq(Int) /\ Len(text) = Len(front) + Len(quote)
        /\ \A i \in 1..Len(front) : text[i] = front[i]
        /\ \A i \in 1..Len(quote) : text[Len(front) + i] = quote[i]
    BY <2>1, <2>2, ConcatPlaces, Zenon DEF front, quote
  <2> HIDE DEF text
  <2>4. n \in Nat
    OBVIOUS
  <2> HIDE DEF n
  <2>5. Len(front) = n + 3 /\ Len(text) = n + 4
    BY <2>1, <2>2, <2>3, <2>4
  <2>6. text[1] = StringWord /\ text[2] = Separator /\ text[3] = Quote
    BY <2>1, <2>2, <2>3, <2>4, <2>5
  <2>7. text[n + 4] = Quote
    BY <2>1, <2>3, <2>4, <2>5
  <2>8. \A i \in 1..n : text[i + 3] = t[i]
    <3> TAKE i \in 1..n
    <3>1. i + 3 \in 1..Len(front) /\ i + 3 = Len(head) + i
      BY <2>1, <2>4, <2>5
    <3> QED
      BY <2>2, <2>3, <3>1
  <2> QED
    BY <2>3, <2>4, <2>5, <2>6, <2>7, <2>8
<1> HIDE DEF text, n
<1>3. Printed(list[At(o)]) = text
  BY Zenon DEF Printed, text
<1>4. SelectInSeq(text, LAMBDA d : d = Separator) = 2
  <2>1. 2 \in 1..Len(text) /\ Separator \in Int /\ text[2] = Separator /\ \A i \in 1..(2 - 1) : text[i] # Separator
    BY <1>1, <1>2
  <2> QED
    BY <1>2, <2>1, FirstPlace
<1> DEFINE txt == SubSeq(text, 2 + 1, Len(text))
<1>5. /\ txt \in Seq(Int) /\ Len(txt) = n + 2 /\ txt[1] = Quote /\ txt[n + 2] = Quote
      /\ \A i \in 1..n : txt[i + 1] = t[i]
  BY <1>1, <1>2
<1>6. SubSeq(text, 1, 2 - 1) = <<StringWord>>
  <2> DEFINE first == SubSeq(text, 1, 2 - 1)
  <2>1. first = [i \in 1..1 |-> text[i]]
    BY <1>2
  <2>2. <<StringWord>> = [i \in 1..1 |-> StringWord]
    OBVIOUS
  <2>3. \A i \in 1..1 : text[i] = StringWord
    BY <1>2
  <2>4. [i \in 1..1 |-> text[i]] = [i \in 1..1 |-> StringWord]
    BY <2>3, Zenon
  <2> HIDE DEF first
  <2> QED
    BY <2>1, <2>2, <2>4, Zenon DEF first
<1> HIDE DEF txt
<1>7. Unquoted(txt) = SubSeq(txt, 2, Len(txt) - 1)
  <2>1. Len(txt) >= 2 /\ Head(txt) = Quote /\ Last(txt) = Quote
    BY <1>2, <1>5 DEF Last
  <2> QED
    BY <2>1, Zenon DEF Unquoted
<1>8. SubSeq(txt, 2, Len(txt) - 1) = t
  <2>1. /\ SubSeq(txt, 2, Len(txt) - 1) \in Seq(Int) /\ Len(SubSeq(txt, 2, Len(txt) - 1)) = n
        /\ \A i \in 1..n : SubSeq(txt, 2, Len(txt) - 1)[i] = t[i]
    BY <1>2, <1>5
  <2>2. \A u, w \in Seq(Int) : Len(u) = Len(w) /\ (\A i \in 1..Len(w) : u[i] = w[i]) => u = w
    OBVIOUS
  <2> QED
    BY <2>1, <2>2, Zenon DEF n
<1>9. AsString(o) = Unquoted(txt)
  <2>1. 2 # 0 /\ <<StringWord>> = <<StringWord>>
    OBVIOUS
  <2> QED
    BY <1>3, <1>4, <1>6, <2>1 DEF AsString, txt
<1> QED
  BY <1>7, <1>8, <1>9

\* A value is read back by the reader of its type as it was given, for lists of any
\* length: any number, any text (asString: any plain text), and a bool as far as the
\* bytes behind it let it.
THEOREM ValuesAreReadBack == Spec => []ReadsWhatWasGiven
<1>1. IInv => ReadsWhatWasGiven
  <2> SUFFICES ASSUME IInv, NEW o \in Oids
               PROVE  /\ \/ GetBool(o) = IF given[o].type = "BOOLEAN" THEN given[o].val ELSE Throws
                         \/ Overread(o) /\ GetBool(o) = False
                      /\ GetLong(o) = IF given[o].type = "INTEGER" THEN given[o].val ELSE Throws
                      /\ GetString(o) = IF given[o].type = "OCTET_STR" THEN given[o].val ELSE Throws
                      /\ GetOID(o) = IF given[o].type = "OBJECT_ID" THEN given[o].val ELSE Throws
                      /\ given[o].type = "OCTET_STR" /\ Plain(given[o].val) => AsString(o) = given[o].val
    BY Zenon DEF ReadsWhatWasGiven
  <2>1. {"BOOLEAN", "INTEGER", "OCTET_STR", "OBJECT_ID"} \subseteq VariableTypes
    BY DEF VariableTypes
  <2>2. LongTrue # Throws
    BY DEF LongTrue, Throws
  <2>3. CASE Positions(o) = {} /\ At(o) = 0
    <3>1. given[o] = NotGiven /\ given[o].type = "none"
      BY <2>3 DEF IInv, FirstHolds, NotGiven
    <3>2. Read(o, "BOOLEAN") = Throws /\ Read(o, "INTEGER") = Throws
          /\ Read(o, "OCTET_STR") = Throws /\ Read(o, "OBJECT_ID") = Throws
      BY <2>3, Zenon DEF Read
    <3> QED
      BY <2>2, <3>1, <3>2 DEF GetBool, GetLong, GetString, GetOID
  <2>4. CASE At(o) \in DOMAIN list /\ At(o) # 0 /\ Holds(list[At(o)], given[o])
    <3> DEFINE v == list[At(o)]
               g == given[o]
    <3>1. v.type = g.type
      BY <2>4, Zenon DEF Holds
    <3>2. \A type : Read(o, type) = IF g.type = type THEN v.val ELSE Throws
      BY <2>4, <3>1, Zenon DEF Read
    <3>3. \/ GetBool(o) = IF g.type = "BOOLEAN" THEN g.val ELSE Throws
          \/ Overread(o) /\ GetBool(o) = False
      <4>1. CASE g.type # "BOOLEAN"
        <5>1. Read(o, "BOOLEAN") = Throws
          BY <3>2, <4>1, Zenon
        <5> QED
          BY <2>2, <4>1, <5>1 DEF GetBool
      <4>2. CASE g.type = "BOOLEAN"
        <5>1. Read(o, "BOOLEAN") = v.val /\ v.type = "BOOLEAN"
          BY <3>1, <3>2, <4>2, Zenon
        <5>2. g.val = IF v.val[1] = 1 THEN True ELSE False
          BY <2>4, <5>1, Zenon DEF Holds
        <5>3. PICK b, rest \in Int : v.val = <<b, rest>>
          BY <2>4, <5>1, Zenon DEF IInv, BooleansAreLongs, IsLong
        <5>4. v.val # Throws /\ v.val[1] = b /\ v.val[2] = rest
          BY <5>3 DEF Throws
        <5>5. v.val = LongTrue <=> b = 1 /\ rest = 0
          BY <5>3 DEF LongTrue
        <5>6. GetBool(o) = IF b = 1 /\ rest = 0 THEN True ELSE False
          BY <5>1, <5>4, <5>5, Zenon DEF GetBool
        <5>7. rest # 0 => Overread(o)
          BY <2>4, <5>1, <5>4, Zenon DEF Overread
        <5> HIDE DEF v, g
        <5> QED
          BY <4>2, <5>2, <5>4, <5>6, <5>7, Zenon
      <4> QED
        BY <4>1, <4>2
    <3>4. g.type \in {"INTEGER", "OCTET_STR", "OBJECT_ID"} => g.val = v.val
      BY <2>4, <3>1, Zenon DEF Holds
    <3>5. g.type = "OCTET_STR" /\ Plain(g.val) => AsString(o) = g.val
      <4> HAVE g.type = "OCTET_STR" /\ Plain(g.val)
      <4>1. v \in [oid : Oids, type : VariableTypes, val : Seq(Int)]
        BY <2>4, EachVariable, Zenon DEF IInv
      <4>2. v.val \in Seq(Int)
        BY <4>1
      <4> QED
        BY <2>4, <3>1, <3>4, <4>2, TextIsFound
    <3> HIDE DEF v
    <3> QED
      BY <3>2, <3>3, <3>4, <3>5 DEF GetLong, GetString, GetOID
  <2> QED
    BY <2>1, <2>3, <2>4, ReadIs, Zenon
<1> QED
  BY <1>1, Inductive, PTL

\* A set of numbers that are not above n has a greatest one.
LEMMA GreatestNumber ==
  ASSUME NEW n \in Nat, NEW P \in SUBSET (1..n), P # {}
  PROVE  \E m \in P : \A i \in P : i <= m
<1> DEFINE Q == {k \in Nat : n - k \in P}
<1>1. Q \in SUBSET Nat
  OBVIOUS
<1>2. Q # {}
  <2>1. PICK i \in P : i \in 1..n
    OBVIOUS
  <2>2. n - i \in Nat /\ n - (n - i) = i
    BY <2>1
  <2> QED
    BY <2>1, <2>2
<1>3. PICK k \in Q : \A j \in Q : k <= j
  <2> HIDE DEF Q
  <2> QED
    BY <1>1, <1>2, LeastNumber, Zenon
<1>4. ASSUME NEW i \in P
      PROVE  i <= n - k
  <2>1. i \in 1..n /\ n - i \in Nat /\ n - (n - i) = i
    OBVIOUS
  <2>2. n - i \in Q
    BY <2>1
  <2>3. k <= n - i /\ k \in Nat
    BY <1>3, <2>2
  <2> QED
    BY <2>1, <2>3
<1> QED
  BY <1>3, <1>4

\* getMap finds what an OID was last given, for lists of any length.
THEOREM MapIsLatest == Spec => []MapHoldsTheLatest
<1>1. IInv => MapHoldsTheLatest
  <2> SUFFICES ASSUME IInv, NEW o \in Oids
               PROVE  IF o \in DOMAIN GetMap THEN Holds(list[GetMap[o]], latest[o]) ELSE latest[o] = NotGiven
    BY Zenon DEF MapHoldsTheLatest
  <2>1. DOMAIN GetMap = Range(GetOids)
    BY DEF GetMap
  <2>2. o \in Range(GetOids) <=> Positions(o) # {}
    <3>1. DOMAIN GetOids = DOMAIN list /\ \A i \in DOMAIN list : GetOids[i] = list[i].oid
      BY Zenon DEF GetOids
    <3>2. o \in Range(GetOids) <=> \E i \in DOMAIN list : list[i].oid = o
      BY <3>1, Zenon DEF Range
    <3> QED
      BY <3>2, Zenon DEF Positions
  <2>3. CASE Positions(o) = {}
    BY <2>1, <2>2, <2>3, Zenon DEF IInv, LastHolds
  <2>4. CASE Positions(o) # {}
    <3>1. \E m \in Positions(o) : \A j \in Positions(o) : j <= m
      <4>1. Positions(o) \in SUBSET (1..Len(list)) /\ Len(list) \in Nat
        BY AtFirst, Zenon DEF IInv
      <4> QED
        BY <2>4, <4>1, GreatestNumber, Zenon
    <3>2. GetMap[o] = CHOOSE i \in Positions(o) : \A j \in Positions(o) : j <= i
      BY <2>2, <2>4, Zenon DEF GetMap
    <3>3. GetMap[o] \in Positions(o) /\ \A j \in Positions(o) : j <= GetMap[o]
      BY <3>1, <3>2, Zenon
    <3>4. Holds(list[GetMap[o]], latest[o])
      BY <3>3, Zenon DEF IInv, LastHolds
    <3> QED
      BY <2>1, <2>2, <2>4, <3>4, Zenon
  <2> QED
    BY <2>3, <2>4
<1> QED
  BY <1>1, Inductive, PTL
=============================================================================
