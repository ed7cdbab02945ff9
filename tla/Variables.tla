------------------------------ MODULE Variables ------------------------------
(***************************************************************************)
(* The values in a variable list, and how they are read: Varlist.cpp, the  *)
(* readers of PDU.cpp, and the list of a trap with its uptime (Trap.cpp).  *)
(* The memory behind the lists is the matter of Wrappers and TrapSending.  *)
(*                                                                         *)
(* A value is a sequence of numbers: <<n>> is a number, a text consists of *)
(* characters, and a boolean is a long: its lowest byte, and the rest.  A  *)
(* position of 0 is a NULL pointer.                                        *)
(***************************************************************************)
EXTENDS Integers, SequencesExt

CONSTANTS
  Oids,             \* the OIDs of variables
  SysUpTime, Trap,  \* the two of them that a trap begins with
  Numbers,          \* the numbers a client passes
  Texts,            \* and the texts
  RestBytes,        \* what may be in a variable's buffer behind the byte of a bool
  MaxVars,          \* bound: the length of a list
  TicksPerSecond,   \* 100, for centiseconds
  TimeTicks,        \* how many values a sysUpTime has
  BootTime,         \* the clock when the system starts
  Clocks,           \* bound: what the clock is set forward or back by
  MaxTime           \* bound: how long the system is observed

ASSUME OidsAssumption == SysUpTime \in Oids /\ Trap \in Oids /\ SysUpTime # Trap
ASSUME ValuesAssumption == Numbers \subseteq Int /\ Texts \subseteq Seq(Int) /\ RestBytes \subseteq Nat
ASSUME TimeAssumption ==
  /\ TicksPerSecond \in Nat \ {0} /\ TimeTicks \in Nat \ {0}
  /\ BootTime \in Nat /\ MaxTime \in Nat /\ Clocks \subseteq Int

VARIABLES
  list,       \* a variable is a record of its oid, type and val
  given,      \* what each OID was first given, in the terms of the caller
  latest,     \* and what it was last given
  elapsed,    \* the ticks since the system started
  started,    \* the ticks at which the process started
  adjusted,   \* what the clock has been set forward or back by since then
  made        \* what a trap's list tells the uptime of, and when it was made

vars == <<list, given, latest, elapsed, started, adjusted, made>>

Separator == 100   \* ": "
Quote == 101       \* a character that net-snmp escapes when it prints a text
StringWord == 102  \* "STRING"
OtherWord == 103   \* "INTEGER", "OID", ...

False == <<0>>
True == <<1>>
Throws == <<-1>>   \* an exception
NotGiven == [type |-> "none", val |-> <<>>]

\* The longs 1 and 2, which are true and false in an agent's variables
LongTrue == <<1, 0>>
Rfc1212False == <<2, 0>>

-----------------------------------------------------------------------------
\* Finding a variable

\* Varlist::getOids( vector )
GetOids == [i \in DOMAIN list |-> list[i].oid]

Positions(o) == {i \in DOMAIN list : list[i].oid = o}

\* Mutant of GetMap: an OID that is in the map is not inserted again.
GetMapInsert ==
  [o \in Range(GetOids) |-> CHOOSE i \in Positions(o) : \A j \in Positions(o) : i <= j]

\* Varlist::getMap: a later variable replaces an earlier one
GetMap == [o \in Range(GetOids) |-> CHOOSE i \in Positions(o) : \A j \in Positions(o) : j <= i]

\* Varlist::at; it throws where this is 0
At(o) == IF Positions(o) = {} THEN 0 ELSE CHOOSE i \in Positions(o) : \A j \in Positions(o) : i <= j

-----------------------------------------------------------------------------
\* Reading a variable

Read(o, type) == IF At(o) = 0 \/ list[At(o)].type # type THEN Throws ELSE list[At(o)].val

\* Mutant of GetBool: only the false of RFC 1212 is false.
GetBoolRfc1212(o) ==
  LET v == Read(o, "BOOLEAN") IN CASE v = Throws -> Throws [] v = Rfc1212False -> False [] OTHER -> True

\* The variable is read as a long, whatever was stored of it.
GetBool(o) ==
  LET v == Read(o, "BOOLEAN") IN CASE v = Throws -> Throws [] v = LongTrue -> True [] OTHER -> False

GetLong(o) == Read(o, "INTEGER")
GetString(o) == Read(o, "OCTET_STR")
GetOID(o) == Read(o, "OBJECT_ID")

\* A text that net-snmp prints as it is: not an empty one, nor one to be escaped.
Plain(text) == text # <<>> /\ \A i \in DOMAIN text : text[i] # Quote

\* External: what sprint_realloc_value writes, by the examples of Varlist.cpp:351-354;
\* of a text that is not plain only that it is something else.
Printed(v) ==
  CASE v.type = "NULL" -> <<OtherWord>>
    [] v.type = "OCTET_STR" /\ Plain(v.val) -> <<StringWord, Separator, Quote>> \o v.val \o <<Quote>>
    [] v.type = "OCTET_STR" /\ ~Plain(v.val) -> <<Quote, Quote>>
    [] OTHER -> <<OtherWord, Separator>> \o v.val

Unquoted(txt) == IF Len(txt) >= 2 /\ Head(txt) = Quote /\ Last(txt) = Quote
                 THEN SubSeq(txt, 2, Len(txt) - 1) ELSE txt

AsString(o) ==
  LET text == Printed(list[At(o)])
      pos == SelectInSeq(text, LAMBDA c : c = Separator)
      txt == SubSeq(text, pos + 1, Len(text))
  IN  CASE At(o) = 0 -> Throws
        [] At(o) # 0 /\ pos = 0 -> text
        [] OTHER -> IF SubSeq(text, 1, pos - 1) = <<StringWord>> THEN Unquoted(txt) ELSE txt

-----------------------------------------------------------------------------
\* Time

\* time( NULL ): whole seconds
Now == (BootTime + elapsed + adjusted) \div TicksPerSecond

\* Mutant of CentisecondsSince: a time from the future is not noticed.
CentisecondsSinceAny(t) == TicksPerSecond * (Now - t)

CentisecondsSince(t) == IF t > Now THEN 0 ELSE TicksPerSecond * (Now - t)

\* External: get_uptime, on Linux the ticks since the system started.
CentisecondsNetSnmpUptime == elapsed

CentisecondsUptime == TicksPerSecond * (elapsed \div TicksPerSecond)

\* The st_ctime of /proc/pid, which the code takes for the clock when the process started.
StartTime == (BootTime + started) \div TicksPerSecond

\* found: whether stat finds the process; its age, or else the uptime of the system
CentisecondsPidStarted(found) ==
  IF found THEN CentisecondsSince(StartTime) ELSE CentisecondsNetSnmpUptime

\* What a client may pass as the uptime of the system or of the process.
UptimesOf(what) ==
  IF what = "process" THEN {CentisecondsPidStarted(TRUE)}
  ELSE {CentisecondsNetSnmpUptime, CentisecondsUptime, CentisecondsPidStarted(FALSE)}

NothingMade == [of |-> "none", elapsed |-> 0, adjusted |-> 0]

-----------------------------------------------------------------------------
\* The process starts while the system is up.
Init ==
  /\ list = <<>>
  /\ given = [o \in Oids |-> NotGiven]
  /\ latest = given
  /\ started \in 0 .. MaxTime
  /\ elapsed = started
  /\ adjusted = 0
  /\ made = NothingMade

AddVariable(o, type, stored, passed) ==
  /\ Len(list) < MaxVars
  /\ list' = Append(list, [oid |-> o, type |-> type, val |-> stored])
  /\ latest' = [latest EXCEPT ![o] = [type |-> type, val |-> passed]]
  /\ given' = IF given[o] = NotGiven THEN [given EXCEPT ![o] = [type |-> type, val |-> passed]] ELSE given
  /\ UNCHANGED <<elapsed, started, adjusted, made>>

\* addBooleanVar stores sizeof( bool ) bytes, the lowest of the long that is read.
AddBooleanVar(o, value) ==
  \E rest \in RestBytes : AddVariable(o, "BOOLEAN", <<value[1], rest>>, value)

\* The five add*Var with a value, and addNullVar.  Where net-snmp refuses the variable
\* they throw, and the list stays as it is.  External: net-snmp widens an int to a long.
AddVar ==
  \E o \in Oids :
    \/ \E v \in {True, False} : AddBooleanVar(o, v)
    \/ \E type \in {"INTEGER", "INTEGER64", "GAUGE"}, n \in Numbers : AddVariable(o, type, <<n>>, <<n>>)
    \/ \E text \in Texts : AddVariable(o, "OCTET_STR", text, text)
    \/ AddVariable(o, "NULL", <<>>, <<>>)

\* External: a variable an agent has sent.
AgentVar ==
  \E o \in Oids :
    \/ AddVariable(o, "BOOLEAN", LongTrue, True)
    \/ AddVariable(o, "BOOLEAN", Rfc1212False, False)
    \/ \E n \in Numbers : AddVariable(o, "OBJECT_ID", <<n>>, <<n>>)

TrapVariables(uptime, trap) ==
  <<[oid |-> SysUpTime, type |-> "TIMETICKS", val |-> <<uptime % TimeTicks>>],
    [oid |-> Trap, type |-> "OBJECT_ID", val |-> trap]>>

\* createV2TrapVarlist
CreateV2TrapVarlist ==
  /\ list = <<>>
  /\ \E n \in Numbers, what \in {"system", "process"} : \E uptime \in UptimesOf(what) :
       /\ list' = TrapVariables(uptime, <<n>>)
       /\ given' = [given EXCEPT ![SysUpTime] = [type |-> "TIMETICKS", val |-> <<uptime>>],
                                 ![Trap] = [type |-> "OBJECT_ID", val |-> <<n>>]]
       /\ latest' = given'
       /\ made' = [of |-> what, elapsed |-> elapsed, adjusted |-> adjusted]
  /\ UNCHANGED <<elapsed, started, adjusted>>

\* Varlist::free
Free ==
  /\ list # <<>>
  /\ list' = <<>>
  /\ given' = [o \in Oids |-> NotGiven]
  /\ latest' = given'
  /\ made' = NothingMade
  /\ UNCHANGED <<elapsed, started, adjusted>>

\* External
TimePasses ==
  /\ elapsed < MaxTime
  /\ elapsed' = elapsed + 1
  /\ UNCHANGED <<list, given, latest, started, adjusted, made>>

\* External
ClockIsSet ==
  /\ \E c \in Clocks \ {adjusted} : adjusted' = c
  /\ UNCHANGED <<list, given, latest, elapsed, started, made>>

Next == AddVar \/ AgentVar \/ CreateV2TrapVarlist \/ Free \/ TimePasses \/ ClockIsSet

Spec == Init /\ [][Next]_vars

-----------------------------------------------------------------------------
\* The bytes of the long that getBool reads beyond those of the bool are not zero.
Overread(o) == At(o) # 0 /\ list[At(o)].type = "BOOLEAN" /\ list[At(o)].val[2] # 0

(***************************************************************************)
(* An OID is read back as what it was first given, by the reader of its    *)
(* type only, whatever is added to the list later; asString finds a text   *)
(* that contains what separates the type from the value (Varlist.cpp:363), *)
(* if net-snmp prints it as it is.  Of a bool that is stored as one byte   *)
(* and read as a long (Varlist.cpp:107, 296) less is true: false is never  *)
(* read as true, but true is read as false where the bytes behind it are   *)
(* not zero.                                                               *)
(***************************************************************************)
ReadsWhatWasGiven ==
  \A o \in Oids :
    LET as(type) == IF given[o].type = type THEN given[o].val ELSE Throws
    IN  /\ GetBool(o) = as("BOOLEAN") \/ (Overread(o) /\ GetBool(o) = False)
        /\ GetLong(o) = as("INTEGER")
        /\ GetString(o) = as("OCTET_STR")
        /\ GetOID(o) = as("OBJECT_ID")
        /\ given[o].type = "OCTET_STR" /\ Plain(given[o].val) => AsString(o) = given[o].val

\* A variable v is what a caller gave as g.
Holds(v, g) ==
  /\ g.type = v.type
  /\ v.type \notin {"BOOLEAN", "TIMETICKS"} => g.val = v.val
  /\ v.type = "BOOLEAN" => g.val = IF v.val[1] = 1 THEN True ELSE False

(***************************************************************************)
(* Where an OID is in a list more than once, which Varlist.hpp:82-83       *)
(* allows, getMap and at do not agree: the map holds what the OID was last *)
(* given (Varlist.cpp:74), also where a trap's own sysUpTime is followed   *)
(* by the client's; ReadsWhatWasGiven says that at finds the first.        *)
(***************************************************************************)
MapHoldsTheLatest ==
  \A o \in Oids :
    IF o \in DOMAIN GetMap THEN Holds(list[GetMap[o]], latest[o]) ELSE latest[o] = NotGiven

(***************************************************************************)
(* The first variable of a trap says how long the system was up, to the    *)
(* second and whatever happens to the clock, with centisecondsUptime and   *)
(* centisecondsNetSnmpUptime, and also with centisecondsPidStarted if the  *)
(* process is not found (Trap.cpp:112-118, 147, 164).  Otherwise it says   *)
(* the age of the process (Trap.cpp:120): a second less or more as long as *)
(* the clock was not set, and never a negative one.  A process that has    *)
(* just started may thus be a second old, which test_04_centiseconds.cpp   *)
(* does not expect (lines 40 and 42: less than two centiseconds).          *)
(***************************************************************************)
TrapsTellTheUptime ==
  list # <<>> /\ list[1].type = "TIMETICKS" =>
    LET uptime == given[SysUpTime].val[1]
        age == made.elapsed - started
    IN  /\ list[1].val = <<uptime % TimeTicks>>
        /\ made.of = "system" => uptime \in made.elapsed - TicksPerSecond + 1 .. made.elapsed
        /\ made.of = "process" =>
             /\ uptime >= 0
             /\ made.adjusted <= 0 => uptime < age + TicksPerSecond
             /\ made.adjusted >= 0 => uptime > age - TicksPerSecond
=============================================================================
