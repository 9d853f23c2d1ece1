SPECIFICATION Spec
CONSTANTS
  Tasks = {t1, t2}
  Events = {e1}
  Kinds = {"directPush", "broadcast", "priceChange", "XMTP", "label"}
  Addresses = {a1, a2}
  Options = {p1, p2}
  Channels = {email}
  Values = {v1}
  MaxStarts = 4
  MaxFailures = 1
  Calm = 2
  None = None
SYMMETRY Symmetry
CHECK_DEADLOCK FALSE
INVARIANTS
  TypeOK
  EnsureKeepsPromise
  NoTwinsAlone
  AlertNotLost
