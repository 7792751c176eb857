SPECIFICATION MCSpec
CONSTANTS
  MAX_MONEY = 60000
  Wallets <- MCWallets
  Batches <- MCBatches
  Amounts <- MCAmounts
  DataLens = {0, 32, 255}
  Rates = {0, 500, 1001}
  MAX_FEE_PER_KB = 1000
  ChildFees <- MCChildFees
  Vouts = {0, 1, 4}
  VOUT_RANGE = 4
  MaxCommands = 2
  Threads = {t1, t2, t3}
  None = None
  MIN_INTERVAL_MS = 2
  MAX_RETRIES = 2
  BASE_BACKOFF_MS = 3
  MaxCalls = 2
INVARIANTS SpendAddsUp FeeIsFair SelectionIsTight BooksBalance RequestsAreSerialAndFew
PROPERTIES GatedStartsAreSpaced CallsReturn
