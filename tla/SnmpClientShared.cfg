CONSTANTS
  Pdus = {p1, p2, p3}
  Lists = {l1, l2, l3}
  NULL = NULL
  Oids = {1}
  MaxVars = 2
  PduVars = {a, b}
  VarlistVars = {x}
  ClientTypes = {"kGet"}
  kSysUpTime = 1
  kTrap = 1
SYMMETRY Symmetry
SPECIFICATION Spec
INVARIANTS NoMemoryFault
PROPERTIES ImplementsLifecycle
