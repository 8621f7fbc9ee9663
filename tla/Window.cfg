CONSTANTS
  MaxMessages = 3
  PageSize = 2
  MaxFrame = 2
  MaxRows = 7
  MaxTurns = 3
  MaxConversations = 2
SPECIFICATION FairSpec
INVARIANTS
  NothingMissing
  EvictsWholeEndedTurns
  BoundIsExceededForCause
PROPERTIES
  MergeWithinBound
  LoadingEnds
CHECK_DEADLOCK FALSE
