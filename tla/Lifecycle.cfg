SPECIFICATION Spec
CONSTANTS
  MAX_MONEY = 1000000
  d = d
  s = s
  b = b
  Runs = {d, s, b}
  Script <- MCScript
  Wallets <- MCWallets
  fee_per_kb = {50, 500}
  script_bytes = 27023
  MAX_FUNDING_INPUTS = 2
  MaxRuns = 2
  NoTx = NoTx
INVARIANTS ValueIsAccounted CompleteMeansRevoked
PROPERTIES ParentConfirmed RunsEnd
