SPECIFICATION FairSpec
CONSTANTS
  Page = 2
  PollSize = 3
  MaxMessages = 4
  MaxRequests = 2
  MaxLoads = 2
  MaxClicks = 2
  MaxFailures = 1
  None = None
INVARIANTS
  TypeOK
  ListedInOrderAlone
PROPERTIES
  NothingVanishesAlone
  ChatCatchesUp
CHECK_DEADLOCK FALSE
