SPECIFICATION LiveSpec
CONSTANTS
  Callers = {c1, c2}
  Collections = {alerts, groups}
  Fetches = {f1, f2}
  Ttl = 0
  MaxVersion = 1
  MaxCell = 1
  None = None
INVARIANTS
  TypeOK
  SingleFlight
  ForcedIsFresh
PROPERTIES
  CacheNeverRegresses
  CallsReturn
  ServiceRefined
