SPECIFICATION Spec
CONSTANTS
  Keys = {k1, k2}
  Elder = k1
  g1 = g1
  g2 = g2
  Guardians = {g1, g2}
  NoOut = NoOut
  PerTxLimit = 1
  DailyLimit = 2
  WindowDuration = 1
  GraduationThreshold = 2
  ValidatorThreshold = 1
  RecoveryThreshold = 2
  MaxTx = 4
  StartClock = 1
  MaxClock = 2
  MaxAmount = 2
  MaxApprovals = 3
  ZERO = ZERO
  a1 = a1
  a2 = a2
  a3 = a3
  Attestors = {a1, a2, a3}
  Honest = {a1, a2}
  Outsider = Outsider
  Retired = Retired
  r1 = r1
  r2 = r2
  Artifacts = {r1, r2}
  quorum = 2
  delaySeconds = 1
  unbondNotBefore = 2
  MaxSigs = 2
  MaxTxs = 3
  MaxTip = 3
  min_depth = 2
  min_quorum = 2
  max_staleness = 0
  Value = 3
  Adds = {1, 2}
  Fee = 1
SYMMETRY Symm
CHECK_DEADLOCK FALSE
INVARIANTS InvalidateFits
