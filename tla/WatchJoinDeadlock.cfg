SPECIFICATION FairSpec
CONSTANTS
  Files = {source}
  Watched = {source}
  MaxVersion = 1
  MaxEnter = 1
  MaxSigint = 0
  EventLimit = 2
  OVERFLOW = OVERFLOW
PROPERTY ChangeIsPickedUp
CHECK_DEADLOCK FALSE
