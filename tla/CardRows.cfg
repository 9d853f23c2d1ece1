SPECIFICATION Spec
CONSTANTS
  Rows = {r1, r2}
  Cards <- MCCards
  Calls = {c1, c2}
  MaxClicks = 3
  MaxFailures = 1
  None = None
SYMMETRY Symmetry
CHECK_DEADLOCK FALSE
INVARIANTS
  TypeOK
  NoStuckToggle
  ToggleTruth
