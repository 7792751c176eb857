SPECIFICATION Spec
CONSTANTS
  Keys = {k1}
  Elder = k1
  Guardians = {g1}
  NoOut = NoOut
  NoFile = NoFile
  PerTxLimit = 1
  DailyLimit = 2
  WindowDuration = 1
  GraduationThreshold = 2
  ValidatorThreshold = 2
  RecoveryThreshold = 1
  MaxTx = 3
  StartClock = 2
  MaxClock = 2
  MaxAmount = 1
  MaxApprovals = 1
  MaxBackdate = 1
  MaxForeign = 3
  MaxFaults = 1
  Procs = {p1, p2}
SYMMETRY ProcSymmetry
INVARIANTS FileMirrorsTip RevokedIsDead TipSpendAccounted HistoryIsLineage JournalFirst
PROPERTIES FileNeverGoesBack
CHECK_DEADLOCK FALSE
