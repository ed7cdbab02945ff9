CONSTANTS
  Oids = {sysUpTime, trap}
  SysUpTime = sysUpTime
  Trap = trap
  Numbers = {7, 9}
  Texts <- MCTexts
  RestBytes = {0, 1}
  MaxVars = 3
  TicksPerSecond = 2
  TimeTicks = 3
  BootTime = 3
  Clocks <- MCClocks
  MaxTime = 4
SPECIFICATION Spec
INVARIANTS ReadsWhatWasGiven MapHoldsTheLatest TrapsTellTheUptime
