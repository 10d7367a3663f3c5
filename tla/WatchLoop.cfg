SPECIFICATION FairSpec
CONSTANTS
  Files = {source, library}
  Watched = {source}
  MaxVersion = 2
  MaxEnter = 1
  MaxSigint = 2
  EventLimit = 1
  OVERFLOW = OVERFLOW
INVARIANT RunsFollowChanges
PROPERTIES ExitIsConfirmed QuietChangeIsPickedUp
CHECK_DEADLOCK FALSE
