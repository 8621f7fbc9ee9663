CONSTANTS
  Modes <- MCHost
  MaxSends = 2
  MaxOthers = 1
  MaxVisitors = 1
  MaxFailures = 1
  Deletable = {1}
  Faults <- MCInvalid
SPECIFICATION FairSpec
INVARIANTS
  TypeOK
  OwnTurnClosesComposer
  OwnTurnIsKept
PROPERTIES
  LeavesOnlyTheGone
  TurnLetsGo
CHECK_DEADLOCK FALSE
