SPECIFICATION OracleSpec
CONSTANTS
  Ids = {i1}
  MaxHops = 3
  MaxLen = 4
  MaxFaults = 1
INVARIANTS GarbageIsNotLive
