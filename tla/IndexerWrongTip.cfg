SPECIFICATION Spec
CONSTANTS
  x = x
  y = y
  z = z
  id1 = id1
  id2 = id2
  REQUIRED_KEYS = {"perTx", "daily"}
  Drafts <- MCDrafts
  Editions <- MCEditions
  Bindings <- MCBindings
  AgentdLimits <- MCAgentdLimits
  NameHash = NameHash
  Keys = {id1, id2}
  MaxDeploys = 2
  None = None
  Partial = Partial
  Extensions = {x, y, z}
  Record <- MCRecord
  MaxLog = 4
  perTxLimit = 2
  dailyLimit = 3
  windowDuration = 2
  graduationThreshold = 2
  validatorThreshold = 2
  Amounts = {0, 1, 2, 3}
  Times = {1, 3}
  MaxThread = 4
  MAX_HOPS = 3
  max_hops = 3
  Foreign = Foreign
  PerCall = 2
  PerWindow = 3
  Duration = 2
  Identities = {id1, id2}
  Payloads = {p1}
  Costs = {0, 1, 2, 3}
  MaxActs = 3
  MaxClock = 2
SYMMETRY Symm
CHECK_DEADLOCK FALSE
INVARIANTS WrongTipFails
