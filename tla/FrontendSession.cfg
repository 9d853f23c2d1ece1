SPECIFICATION FairSpec
CONSTANTS
  Tasks = {t1, t2}
  MaxStarts = 4
  MaxNow = 2
  Life = 2
  None = None
CHECK_DEADLOCK FALSE
INVARIANTS
  TypeOK
  LastWordStands
  SessionIsWhole
PROPERTIES
  InitializeEnds
