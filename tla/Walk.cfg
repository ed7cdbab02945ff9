CONSTANTS
  Oids <- MCOids
  Root <- MCRoot
  Repetitions = 2
  MaxNon = 1
  MaxVars = 3
SPECIFICATION Spec
INVARIANT NothingSkipped
PROPERTY WalkEnds
