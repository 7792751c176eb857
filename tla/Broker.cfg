SPECIFICATION LiveSpec
CONSTANTS
  Ids = {i1}
  KeyIds = {k1, k2}
  Scopes = {s1}
  NoKey = NoKey
  PerCall = 1
  PerWindow = 1
  Duration = 1
  MaxHops = 2
  MaxLen = 4
  MaxFaults = 1
  MaxTime = 1
  MaxGrants = 2
INVARIANTS GrantMeansLive MeterMatchesGrants CachesAreSound LiveIsCurrent
PROPERTIES KillSwitchHolds EndedKeyIsLatched
