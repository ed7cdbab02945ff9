CONSTANTS
  Pdus = {p1, p2}
  Lists = {l1, l2}
  NULL = NULL
  Oids = {1}
  MaxVars = 2
  PduVars = {a, b}
  VarlistVars = {x, y}
  ClientTypes = {"kGet", "kGetNext", "kGetBulk"}
  kSysUpTime = 1
  kTrap = 1
SYMMETRY Symmetry
SPECIFICATION Spec
INVARIANTS TypeOK NoMemoryFault ListsHaveOneOwner CachedTypeAgrees RequestsAreConsumed TrapsAreConsumed
PROPERTIES ImplementsLifecycle
