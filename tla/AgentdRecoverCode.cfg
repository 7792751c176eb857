SPECIFICATION Spec
CONSTANTS
  Keys = {k1, k2}
  Elder = k1
  Guardians = {g1}
  NoOut = NoOut
  NoFile = NoFile
  PerTxLimit = 1
  DailyLimit = 2
  WindowDuration = 1
  GraduationThreshold = 2
  ValidatorThreshold = 2
  RecoveryThreshold = 1
  MaxTx = 3
  StartClock = 1
  MaxClock = 1
  MaxAmount = 1
  MaxApprovals = 1
  MaxBackdate = 0
  MaxForeign = 0
  MaxFaults = 0
  Procs = {p1}
INVARIANTS BuiltKeepsCode
CHECK_DEADLOCK FALSE
