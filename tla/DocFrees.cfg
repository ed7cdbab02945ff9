CONSTANTS
  Pdus = {p1, p2}
  Lists = {l1, l2}
  NULL = NULL
  Oids = {1, 2}
  MaxVars = 2
  PduVars = {a, b}
  VarlistVars = {x}
  ClientTypes = {"kGet", "kGetNext", "kGetBulk"}
  kSysUpTime = 1
  kTrap = 2
SPECIFICATION Spec
INVARIANT RequestsAreAlwaysFreed
