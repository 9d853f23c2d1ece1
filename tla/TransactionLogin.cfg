SPECIFICATION LoginSpec
CONSTANTS
  Calls = {c1, c2, c3}
  MaxCalls = 5
  NoUuid = NoUuid
SYMMETRY CallSymmetry
CHECK_DEADLOCK FALSE
INVARIANTS
  LoginTypeOK
  UuidSentOnce
  BeginNotForgotten
  UndisturbedLoginMatches
