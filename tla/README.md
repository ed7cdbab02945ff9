# A TLA+ model of SNMPpp

SNMPpp is a C++ layer over net-snmp: it opens sessions to SNMP agents, builds
requests, sends them and waits for the responses, and sends traps. Its classes
are thin wrappers around net-snmp's own structures, and none of their
destructors frees anything. What can go wrong is therefore mostly a matter of
*which call has freed what*, of *what an exception leaves behind*, for sessions
of *who may be inside net-snmp at the same time*, and for requests of *what the
agent has done when a call ends*. These modules model that, TLC checks it on
small instances, and TLAPS proves the main results for every instance.

## 1. Inventory

| Component | Source | State it keeps | Operations | What makes it hard |
|---|---|---|---|---|
| PDU wrapper | `PDU.cpp/.hpp` | `pdu` pointer, cached `type` | create, free, clear, copy, clone, `setVarlist`, `varlist`, `add*Var(s)`, readers | aliases, ownership of the list, exceptions half-way |
| Variable lists | `Varlist.cpp/.hpp` | `varlist` pointer; typed values in the list | free, clear, copy, `add*Var(s)`, `getOids`, `getMap`, `at`, typed readers | the same; duplicates, a bool of one byte read as a long, text that contains a separator |
| Requests | `Get.cpp`, `Set.cpp` | none of its own: PDUs of the caller | `sync`, `get`, `getNext`, `getBulk`, `set*Var` | net-snmp consumes the request; a request is replaced by another one |
| Request exchange | `Get.cpp:11-58`, the retries of `Session.cpp:22, 78` | a request under way | send, resend, time out, match an answer | lost, duplicated and late datagrams; a set carried out twice, or after its call threw |
| Walks | `Get.cpp:115-217`, the loop of `ex_03_get.cpp` | the response that becomes the next request | `getNext` and `getBulk` of a response | the set that `getBulk` makes of the OIDs, cut responses, objects that come and go, the end of the MIB |
| Traps | `Trap.cpp:169-264` | none of its own | `createV2TrapVarlist`, three `sendV2Trap` | the list is stolen from the PDU |
| Agent lifecycle | `Trap.cpp:19-67` | net-snmp's process-wide state | `initializeNetSnmpAgent`, `shutdownNetSnmpAgent` | order of `init_*`, no lock |
| Sessions | `Session.cpp/.hpp` | a handle per caller, one mutex | `openSession`, `openSessionV3`, `closeSession` | several threads, seven throws under the lock, keys set up step by step |
| OID | `OID.cpp/.hpp` | a vector of numbers | text, order, kinship, append, parent | `atoi` and integer widths, end of text |
| MIB lookup | `OID.cpp:375-597` | none; net-snmp's tree grows | `nameFromMib`, `getTree`, `getModule` | matches that are not exact, a buffer of ten characters |
| Uptime helpers | `Trap.cpp:70-166` | none | `centiseconds*` | units, a clock that is set, the system's uptime or the process's age |
| Logging | `net-snmppp.cpp` | net-snmp's switches | four `netsnmpLog*` | - |
| Library information | `SNMPpp.cpp`, `Version.hpp.in` | none | version strings | - |
| net-snmp | external | the heap, its sessions, its tree | everything the code calls | - |

How they interact: a request function is given a session handle and a PDU
object by reference; it may free the PDU behind the object, and returns a new
object for the response, which a walk gives to the next request.
`PDU::varlist()` hands out a second pointer to the list the PDU owns. `Varlist`
objects are given to `setVarlist` (the PDU takes the list over) and to
`sendV2Trap` (the list is freed). All of them share net-snmp's heap, and
nothing but the heap. Each session's requests cross the network, where the
copies of one request outlive the call that sent them. The open functions and
the agent functions share net-snmp's process-wide initialisation, and the mutex
`mtxOpenSession` protects it in part.

What makes each component correct:

- *PDUs and lists*: no block is freed twice or used after it was freed; a list
  has one owner; the cached type agrees with the PDU; no call that returns
  normally leaks, and one that throws leaks at most what it allocated itself; a
  value is read back as it was given.
- *Requests and traps*: the argument is consumed on every path that the
  headers promise.
- *Exchange*: a call that returns was carried out; without a retry nothing is
  carried out after its call has returned; every call ends.
- *Walks*: nothing that is there all the time is skipped; the walk ends.
- *Sessions*: opens exclude each other; no session is lost or has two holders;
  the lock is released on every throw; the keys a level uses are derived.
- *OID and MIB*: text, order, kinship and names agree with each other.
- *Uptime*: a trap says how long the system, or the process, has been running.

`PROJECT.json` lists the hazards at their lines and the properties for each.

## 2. Modules

| Module | Models | Uses |
|---|---|---|
| `NetSnmpMemory` | net-snmp's blocks as SNMPpp uses them (external) | |
| `Wrappers` | `PDU.cpp`, `Varlist.cpp`: objects, blocks, ownership | `NetSnmpMemory` |
| `Requests` | `Get.cpp`, `Set.cpp` | `Wrappers` |
| `TrapSending` | `Trap.cpp:169-264` | `Wrappers` |
| `SnmpClient` | a program that calls all of these, and the properties | `Requests`, `TrapSending` |
| `BlockLifecycle` | abstract: what SNMPpp promises about memory | |
| `Exchange` | `sync`, the session's retries, the network and the agent | |
| `RemoteCall` | abstract: what a call of `sync` promises about the agent | |
| `Sessions` | `Session.cpp`, `Trap.cpp:19-67`, and the properties | |
| `OidOrder` | order and kinship: `OID.cpp:287-372` | |
| `Oid` | the rest of `OID.cpp:12-372`, `OID.hpp`, and the properties | `OidOrder` |
| `MibLookup` | `OID.cpp:375-597`, next to the operations of `Oid` | `Oid` |
| `Walk` | a client's loop through a subtree, and the agent | `OidOrder` |
| `Variables` | values and readers of `Varlist.cpp`, uptimes and trap lists of `Trap.cpp` | |
| `MCSnmpClient`, `MCMibLookup`, `MCWalk`, `MCVariables` | symmetry and constants for TLC | |
| `SnmpClientProofs`, `LifecycleProofs` | theorems about `SnmpClient`: safety, and the refinement | |
| `OidOrderProofs` | theorems about the operators of `OidOrder` | |
| `OidProofs` | theorems about `Oid` and `MibLookup` | `OidOrderProofs` |
| `SessionsProofs`, `ExchangeProofs`, `WalkProofs`, `VariablesProofs` | theorems about the modules they are named after | |

### Memory, wrappers, requests, traps

`heap` is net-snmp's memory: which PDU blocks are `live`, the `command` and
`variables` fields of each, and the `chain` of variables each list block holds
(a block with an empty chain is not allocated). Variables are their OIDs, and
OIDs are numbers in the order of `operator<`; 0 is the empty OID. `misused`
collects every block that was freed or accessed while it was not allocated.
`pdu[w]` is an object of class `PDU` (its pointer and cached type),
`varlist[x]` one of class `Varlist`, and `exc` how the last call ended.

A heap is a value, and each function of the library is an operator from a heap
to the set of ways it can end (`Sync`, `GetNext`, `SendTrapPdu`, ...): the
heap, the caller's object, the response and the exception. The action of the
client (`CallSync`, ...) chooses one of them. A call is one step, because
everything it touches belongs to the calling thread; what the order *inside* a
call does (a use after a free, a throw before a free) is in the composition of
the operators. Every allocation can fail, every `snmp_varlist_add_variable` can
fail, and the agent may not answer, answer with an error, or answer with any
variables, none included.

The five `set*Var` functions and `get`/`getNext` of one OID are the same
function up to the type of the PDU and of the value, so `SendOid` stands for
all of them; `addBooleanVar ... addNullVar` are `AddVars` with one OID, and
`addNullVars` is `AddVars` with a sequence. `clone()` hands its pointer to
net-snmp without a check (`PDU.cpp:84-89`); the model takes the clone of NULL
for NULL, which nothing in the repository says.

*The client's discipline.* `Wrappers` lets a client make any call, in any
order, except those the headers forbid: it does not use an object whose PDU or
list is gone (`Usable`, `UsableList`), does not overwrite or `clear()` the last
pointer to a block (`Spare`, `SpareList`; `PDU.hpp:72-79`), and gives away only
a list that no PDU owns (`OwnedList`). Without these, every wrapper without a
destructor leaks by definition. Aliases *are* allowed: objects may be copied,
`varlist()` shares the PDU's list, and after a `free()` through one alias the
others dangle. The model therefore checks that the library itself keeps the
memory right for every client that obeys the headers.

*Names of blocks.* A call is given blocks that were free when it started and
that no object points to. The allocator may reuse addresses in reality; giving
a dangling pointer's block out again would hide a use after free, so the model
keeps names apart. A client that obeys the discipline cannot tell.

`BlockLifecycle` is the abstract specification. Blocks are free, held or lost;
a call never loses a block the client held, loses a block of its own only if it
throws, and never touches a lost one. `SnmpClient` implements it with `held`
as the blocks reachable from the client's objects.

### Exchange

`Exchange` opens up what `Requests` leaves to choice: what happens between
`snmp_sess_synch_response` and the agent. A call sends a copy of its request,
and another one after each timeout as long as `Retries` are left (3 in the
code). The network keeps, for each request, how many copies are on the way to
the agent and how many answers on the way back; it loses, delays and reorders
them freely and duplicates at most `MaxCopies` of each request. The agent
carries out or refuses every copy that reaches it, also when the call is over.
`Receive` matches an answer with the request by its number, as net-snmp does;
`Finish` is the decision of `Get.cpp:33-57`. The copies of a request carry the
same number, so an answer to an earlier copy is an answer to the request.

`RemoteCall` is what a program can rely on: an operation that returned was
carried out at least once, one that threw may have been, may still be, and
neither happens more than once per copy. `Exchange` implements it.

### Sessions

Each thread has a program counter named after the net-snmp function it is in;
entering and leaving are separate steps, so that two threads can be inside at
once unless the mutex prevents it. `mutex` is the owner of `mtxOpenSession`;
`Lock` is the construction of the `lock_guard` and `Unlock` its destruction, by
a return or by an exception. `session[t]` is the local `netsnmp_session` with
the fields the function decides about, `opened` and `config` what net-snmp has
open, `handle[t]` the caller's `SessionHandle`. `openSession` takes any version,
v3 included, and sets up nothing else. Every check of `openSessionV3` (level,
protocols, the two keys) is a step that may throw. The protocols set the length
of both keys at every level, so a key is in one of three states: nothing set,
a length over bytes that are zero, or derived. The
agent functions are threads of their own kind, which take no lock.

Both lock functions are in `Session.cpp`, so they lock the same object although
the mutex is `static` in the header (other files get copies nobody uses).
Each thread has its own handle and closes it before it opens it again, as
`Session.hpp:28-36` asks for.

### OIDs and the MIB

A text is a sequence of tokens: a dot, a number (a maximal run of digits) or
junk. `ValuesOf` is the loop of `operator+( string )`, which stops at junk, at
a second dot and at the end; it is written in closed form (the k-th number is
read if it and all before it are in their places), so that it can be proved
about. `Atoi` is what the conversions do: `strtol` saturates, the `int` keeps
the low bits, and a negative `int` becomes a large `oid`; the widths are
constants. The state of `Oid` is a set of OID objects changed by the operations
in any order. The OIDs of `set( ECommon )` are texts like others.

`MibLookup` adds the tree of the MIB modules loaded so far, which grows while
the OIDs change. `GetTree` is net-snmp's closest match; `TreeOf`, `ModulesOf`
and `NameFromMib` are the functions that make something of it. A name is a
sequence of labels and printed numbers; a number that does not fit the buffer
of `nameFromMib` loses its last digits (`Fits`: it has no more digits than
that, `NumDigits`, and no minus sign).

### Walk

The client of `Get.cpp:115-121` and `ex_03_get.cpp:15-22`: it gives each
response to the next `getNext` or `getBulk`, in any mixture, or calls one of
them with any OID of the response, as a client does that goes on after an
exception.
`GetOids` is the set that `getBulk` makes of the response's OIDs (sorted,
without duplicates), `BulkAnswer` the agent's answer with `nonRepeaters` and
`maxRepetitions`, and `Cut` the packet that is full. Objects appear and
disappear at any time. The test for the end of the walk, `Finished`, belongs to
the client and not to the library; this one goes by the least OID of the
response. The greatest would do for `getNext`, but not for `getBulk`: after a
response whose last row was cut, the next one may end before it. Nothing here
is recursive: `Sorted` puts each OID of a set where as many are less as come
before it, and the k-th variable of an answer to `getBulk` is computed from k,
so that the walk can be proved about.

### Variables

The values in a list and the functions that find and read them. `list` is a
sequence of variables (OID, type, value); `given` and `latest` remember what each
OID was first and last given in the caller's terms, so that a property can compare what is
found with it. Positions stand for the pointers the readers return, 0 for NULL.

A value is a sequence of numbers. A boolean is a long, its lowest byte and the
rest: `addBooleanVar` stores `sizeof( bool )` bytes (`Varlist.cpp:107`), the
lowest on a little-endian machine, and `getBool` reads all of a long (`:296`),
whose rest is any of `RestBytes`. That net-snmp takes such a variable at all is
not said in the repository; where it does not, the function throws and the list
stays as it is. For an `int`, net-snmp makes a long of it. A text is a sequence
of characters; `Printed` is what net-snmp's `sprint_realloc_value` writes, of
which `asString` takes off the type and the quotes. It is known, from the
examples at `Varlist.cpp:351-354`, of texts that are `Plain`: not empty and with
nothing to escape.

`elapsed` is the time since the system started, `started` that at which the
process did, and `adjusted` what the clock was set by since; the four
`centiseconds*` functions are computed from them as in the code.
`CreateV2TrapVarlist` puts one of them into a list: the uptime of the system, or
the age of the process, which `centisecondsPidStarted` returns if it finds the
process. The model takes the `st_ctime` of `/proc/<pid>` for the process's start,
as the code does.

## 3. Runs

| Run | Question | Instance | Distinct states |
|---|---|---|---|
| `snmp_client` | Is memory safe, owned and returned, whatever the client calls? | 2 PDU and 2 list blocks, 2 PDU and 2 Varlist objects, 1 OID and the empty one, lists of up to 2 | 18 thousand |
| `snmp_client_shared` | ... when more blocks coexist? | 3 PDU and 3 list blocks, 2 PDU objects, 1 Varlist object, 1 OID and the empty one | 32 thousand |
| `exchange` | What has the agent done when a call ends, and after it? | 2 clients, 2 requests, 1 retry, 1 duplicate of each request | 158 thousand |
| `sessions` | Are opens exclusive, sessions held once, keys right, and is the lock released? | 3 opening threads, 1 agent thread, 2 session handles, 2 versions | 321 thousand |
| `oid` | Do text, order, kinship and names agree? | 2 OIDs of up to 3 values, 3-bit ints, 8-bit oids, texts of up to 3 tokens, 2 MIB modules, a buffer of 2 characters | 37 thousand |
| `walk` | Is anything skipped, and does a walk end? | 5 OIDs, 2 repetitions, 0 or 1 non-repeaters, responses of up to 3 variables | 90 thousand |
| `variables` | Is what was given found, and does a trap tell the uptime? | 2 OIDs, lists of up to 3, 2 numbers, 3 texts, 2 values of the rest of a long, 2 ticks per second, 4 ticks, a clock set by -3, 0 or 2 | 1.9 million |
| `doc_*` | Does the code keep what its documentation says? (It does not; see 6.) | as the run of the same module | - |

Why the bounds are enough to be interesting.

- *Client*: two objects of a class are what an alias takes. Two PDU blocks are a
  request and its response, or a request and its replacement; only with three
  does the replacement get a response, or one that leaked earlier stay beside
  the others. One OID is enough, since no property tells OIDs apart; with the
  empty one a list of OIDs can fail at its first or at its second element. Lists
  of two variables are what the size check of a trap asks for. When all blocks
  of a kind are in use, an allocation can only fail.
- *Exchange*: one retry and one duplicate make three copies of a request, one of
  them answered while the others are under way; two requests of one client make
  an answer come late, for a call that is over, while the next one waits; two
  clients have their requests under way at once.
- *Sessions*: three opening threads let one hold the mutex while two wait, with a
  v2c and a v3 open; with two handles an open can find none left. `openSession`
  is called with v2c and v3; no other version is treated differently.
- *OID and MIB*: OIDs of three values have a parent, a grandparent and siblings;
  of the numbers, 1 fits an int, 6 overflows it and 200 saturates a long, and
  the value 120 has more digits than the buffer holds. The second module defines
  a node below those of the first one, so there are OIDs that are unknown, known
  up to an ancestor, and known.
- *Walk*: a subtree of four with a grandchild, and an object behind it. Two
  repetitions of up to three OIDs are more than the three variables of a packet,
  so rows are cut at every place.
- *Variables*: with three places for two OIDs there are duplicates, behind a
  trap's own two variables too; the texts are one with a separator, one with a
  quote and the empty one; a second is two ticks, so times fall between seconds;
  the process starts at any tick; a sysUpTime has three values, so it wraps
  around.

The bounds, by name: `MaxVars` (the variables of a list or a response; `AddVars`,
`AddListVars` and the `add*Var` of `Variables` are not offered beyond it),
`MaxTokens`, `MaxLen`, `MaxCopies`, `MaxNon`, `MaxTime` and `Clocks`. Objects
and blocks of one kind are interchangeable, so symmetry is sound; it is not used
with liveness.

Deadlock is checked in every run but `exchange`, where the clients stop when
every request has been used once.

What the properties say, in short:

- `NoMemoryFault`: `misused` stays empty. `ListsHaveOneOwner`: no list is
  shared by PDUs or dangles in one. `CachedTypeAgrees`: the branch of `getNext`
  and `getBulk` on the cached type is a branch on the real one (no function
  changes the command of a PDU, so it is the objects without one that could
  differ).
- `RequestsAreConsumed`, `TrapsAreConsumed`: in every reachable state, every way
  a call could end has freed its argument and left no pointer to it.
- `ImplementsLifecycle`, `ImplementsRemoteCall`: the refinements.
- `OnlyRetriesComeBack`: what has returned is carried out later only if it was
  sent twice. `CallsEnd`: every call ends, whatever the network does.
- `OpensAreSerialized`, `EachSessionHasOneHolder`, `OpensRelease`.
  `KeysMatchSecurityLevel`: a session of `openSessionV3` has derived the keys its
  level uses, and has a length over zero bytes for the others; one of
  `openSession` has nothing.
- `TextRoundTrip`, `OneTree`, `SubtreesAreContiguous` for OIDs;
  `NamesAreAsDescribed` compares `nameFromMib` with its comment, and
  `ModulesAreExact` an exact lookup with one that is not, while modules load.
- `NothingSkipped`, `WalkEnds` for walks.
- `ReadsWhatWasGiven`: by the reader of its type, each OID gives what it was
  first given; a true may be read as false if what is behind its byte is not
  zero. `MapHoldsTheLatest`: `getMap` finds what each OID was last given, so the
  two do not agree on duplicates. `TrapsTellTheUptime`: the first variable of a
  trap, for the uptime of the system and for the age of the process.

Every property of a passing run has a mutant: the definition is replaced by one
with a plausible bug (the mutated operator stands above the original in the
module) and TLC then finds the property violated.

## 4. Fairness

- `Sessions`, for `OpensRelease`: weak fairness of each thread's own next step
  once it is inside a call (`OpenStep`, `AgentStep`). That is what the operating
  system gives to a runnable thread, with net-snmp functions that return.
  Nothing is assumed about starting calls, nor about which waiting thread gets
  the mutex: `std::mutex` is not fair, so "every waiting thread gets its turn"
  is not claimed.
- `Exchange`, for `CallsEnd`: weak fairness of each client's `Step`. Time
  passes, so a timeout comes, and the thread runs. Nothing is assumed about the
  network and the agent; all datagrams may be lost.
- `Walk`, for `WalkEnds`: weak fairness of the client's next request (`Client`),
  whichever of its calls that is. The client
  loops until it is finished, and the call returns; calls that throw are not in
  this module.

## 5. Proofs

All theorems are for every value of the constants, under the assumptions the
modules name: blocks and NULL are distinct, OIDs are positive numbers, `MaxVars`
is a natural number, clients create PDUs of valid types, the two trap OIDs are
OIDs; the session constants are distinct, and v3 is a version; an int is no wider than an oid; the
retries and the duplicates are natural numbers; a node of the MIB is an OID and
its parent is another one; an agent has finitely many objects, whose OIDs are
sequences of integers, and the root of a walk is not empty; `sysUpTime` and the
OID of a trap differ, numbers are integers, texts sequences of them, and the rest
of a long is a natural number; a second is a positive number of ticks.

`OidOrderProofs` gets induction on numbers from the well-foundedness of `<`
(`LeastNumber`: a set of numbers that is not empty has a least one); the proofs
below use it where one would count, descend or search.

*Client, memory* (`SnmpClientProofs`). `NoMemoryFault` is not
inductive: that a call misuses nothing depends on lists having one owner and on
`variables` pointing to allocated lists only. The invariant is

    IInv == TypeOK /\ Safe(heap)

where `Safe(h)` says that the heap `h` is well formed (`MemoryOK`: nothing was
misused, each list belongs to one live PDU at most and is allocated, dead PDUs
point to nothing) and that each object the client may use agrees with it on the
type. It is a predicate on a heap, not on the state, because a call passes
through several heaps. The lemmas show for every operation of
`NetSnmpMemory` what it does to the fields and that it keeps a heap well formed
if it is applied legally, then for every library function that each of its
outcomes is safe, and for every action that it applies the function to arguments
for which that holds, which is where the client's discipline comes in. `TypeCorrect`, `MemoryIsSafe`, `OneOwner` and `TypesAgree`
follow.

*Client, arguments* (`SnmpClientProofs`). `RequestsConsumed` and
`TrapsConsumed` follow from `IInv`: on each path of a function, the block that
was given is freed, what is allocated later gets another name, and the object is
left NULL or points to something new.

*Client, leaks* (`LifecycleProofs`). `LifecycleImplemented`
is `Spec => ImplementsLifecycle`. Two things are needed beyond `IInv`. The first
is what a function has done at any point of a call, relative to the heap in
which the call began: `Careful(g)` says that the client's PDUs which are left
have the lists they had, that a list goes exactly when its PDU goes, and that no
object points to what is new; `Clean(g, q)` that nothing is new but the PDU `q`
and its list. The first part shows that every request function is careful on
every path, and clean, up to the response, when it returns. The second is an
invariant, `NoStray`: no Varlist object points to the list of a PDU that was
lost. Without it a client could lose a list by a `clear()` that the discipline
allows, since the list still looks owned. The second part reduces each action
to one of three facts (a call that changes PDUs, a Varlist object, or the list
of a PDU) and those to the step of `BlockLifecycle`.

*Exchange* (`ExchangeProofs`). `SyncIsARemoteCall` is the refinement. Its
invariant counts: the copies under way and the executions of a request together
are no more than the copies sent and duplicated; an answer that says "carried
out", or a response made of one, exists only if the request was; and no two
clients are in a call for the same request. `ReturnedStaysReturned` is `OnlyRetriesComeBack`, from the same counts.

*Sessions* (`SessionsProofs`). `MutualExclusion` needs that a thread past the
lock owns the mutex. `OneHolder` adds that a thread which is about to open has
no handle and that handles of two threads differ. `KeysMatch` adds what has
been set up at each program counter: past `authProtocol` and `privProtocol` the
keys have lengths, past `authKey` the authentication key fits the level, past
`privKey` both do.

*Order* (`OidOrderProofs`). `Less` is a strict total order on sequences of
integers of any length. `ParentIsSmaller` and `ChildrenAreContiguous` say that a
subtree has no gaps in it. `SortedIsSorted`: `Sorted(S)` lists every finite set
in this order, each element once. The proof counts how many elements come before
each one; these ranks differ, so on a finite set each of them is taken.

*OID* (`OidProofs`). `KinshipIsATree` and `WalksMayStop` are the invariants
`OneTree` and `SubtreesAreContiguous`. `RoundTrip` is `TextRoundTrip`, for any
widths: the k-th number of a text that `to_str` has written is in the place
where the loop looks for it. `OidsAmongMibs` carries all of it over to
`MibSpec`, whose steps are steps of `Oid` or leave the OIDs alone.

*MIB* (`OidProofs`). `NamesAreRight` and `ModulesAreRight` need one invariant of
the tree, `Rooted`: no loaded node is without its parent. It holds because a
module is loaded after those it imports from. With it, the beginnings of an OID
that are known are all those up to the closest match (`AncestorsAreKnown`,
`Found`), so that match tells for every place of the name whether it has a label
(`LabelsAreDescribed`). That every number has a number of digits is not proved:
the theorem speaks of the OIDs whose numbers have between 1 and `NumberChars`
of them, as `Fits` says.

*Walk* (`WalkProofs`). `NothingSkipped` speaks of the end of a walk; on the way
the invariant is

    IInv == TypeOK /\ InOrder /\ Behind /\ AtTheEnd

`InOrder`: no OID of a response or of a request is before `Root`. `Behind`:
everything that lasts and is not behind an OID of the response has been read.
That must hold for *every* OID of the response and not only for the least one,
since `getNext` goes on from the last one. `AtTheEnd`: if a response starts where
its request did, all has been read; the agent returns the OIDs it was asked for
only if nothing is behind them. The heart is one step of the agent: what is
between an OID and the n-th object after it are the objects before the n-th, and
an answer to `getBulk` has those in earlier rows, so cutting it skips nothing. At
the end `ChildrenAreContiguous` says that an OID outside of `Root` is behind all
that is inside.

*Variables* (`VariablesProofs`). `at` and the readers find the first variable of
an OID and `getMap` the last, so the invariant ties those two to what was given:

    IInv == TypeOK /\ BooleansAreLongs /\ FirstHolds /\ LastHolds /\ TrapHolds

`FirstHolds`: where an OID has no variable nothing was given, and otherwise its
first variable has the type and, up to the forms of a boolean, the value.
`LastHolds` is the same of the last variable. A variable appended is the first of
its OID only if there was none, and always the last. `TrapHolds`: a trap's list
goes with the uptime it was made with, which was right then. `UptimesTell` shows
that for what a client may take as the uptime of the system (`SystemTells`) or
as the age of the process (`ProcessTells`) from the bounds of a division.
`ValuesAreReadBack`, `MapIsLatest` and `UptimeIsTold` follow; `TextIsFound` is
the plain text that `asString` takes out of net-snmp's form, in which the first
separator is always the one behind the type.

The inductive invariant of `Walk` was also checked by TLC on the instance of
section 3.

Every safety invariant and every action property that a run checks, and both
refinements, are thereby proved. Model-checked only: liveness (`OpensRelease`,
`CallsEnd`, `WalkEnds`), which the prover cannot do.

## 6. Where the code and its documentation disagree

Each of these is a run that ends in a counterexample.

1. `doc_frees`: `getNext( session, pdu )` and `getBulk( session, pdu )` do not
   free a PDU without variables when they throw (`Get.cpp:98, 189`), though
   `Get.hpp:56-57, 84-85` say they do.
2. `doc_get_next_loop`: the documented beginning of a getNext loop, `clear()`
   then `addNullVar()` (`Get.cpp:115-116`), throws (`PDU.cpp:334`).
3. `doc_init_sync`: the agent's initialisation is not synchronised with opens
   (`Trap.cpp:30`), as `Session.hpp:23` requires.
4. `doc_oid_text`: `OID( string )` reads values of 2^31 and more as others
   (`OID.cpp:200`), against `OID.hpp:75, 106`.
5. `doc_mib_name`: `nameFromMib` cuts a number of ten digits (`OID.cpp:429-430`),
   though without MIB files it should show the OID as it is (`OID.cpp:390-398`).

In 2, TLC's shortest counterexample reaches the PDU without variables by its
construction and a call that throws; the documented `clear()` leads to the same
throw.

Three more need no run, since one look at one function shows them. The
conversion of an empty PDU to a variable list returns NULL (`PDU.cpp:134`), where
`PDU.hpp:99` says it throws. `openSessionV3` calls `init_snmp`
(`Session.cpp:72`) before a later `initializeNetSnmpAgent` calls `init_agent`,
against `Trap.cpp:21-22`. And `centisecondsSince` and `centisecondsPidStarted`
count whole seconds (`Trap.cpp:74-87, 120`), so they return 100 right after the
start if a second begins in between, where `test_04_centiseconds.cpp:40, 42`
assert less than 2; `TrapsTellTheUptime` says how exact they are.

## 7. What is not modelled

- Logging: four functions that forward to net-snmp's switches. Version strings
  have no state.
- A handle shared by several threads. The library uses net-snmp's
  single-session interface, which leaves it to the program that only one thread
  uses a session; a `closeSession` during another thread's `sync` breaks that
  rule, and what follows is not in this repository.
- A client that breaks the discipline of section 2.
- The contents of error messages, and the printing of `operator<<`.
- Failures inside a walk: after a `getNext` that throws the loop ends, or the
  client goes on from an OID it remembers, which `GetOid` of `Walk` is; what the
  failed call has done to memory and at the agent is in `SnmpClient` and
  `Exchange`.
- In `Variables`: allocation failures (they throw and change nothing; see
  `Wrappers`), the overflow of `get_uptime` inside net-snmp, and the printed
  form of texts that are empty or contain quotes, for which nothing in the
  repository says what net-snmp writes.
- The readers `size`, `contains`, `operator[]` and `firstOID`, one loop or test each.
- The traps' way to their receivers, which `netsnmp_send_traps` does not report.

## 8. Where it could go on

`WalkEnds` and `CallsEnd` rest on measures that could be proved to go down (the
objects behind a walk; the retries left), though
not the conclusion from them. A walk on top of `Exchange`, in which a request is
repeated by the client, and sessions whose handles are closed while an
`Exchange` is under way, are the compositions that are missing; the second needs
a statement of what net-snmp allows there.
