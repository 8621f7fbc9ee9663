CONSTANTS
  Modes <- MCVisitor
  MaxSends = 1
  MaxOthers = 0
  MaxVisitors = 2
  MaxFailures = 0
  Deletable = {}
  Faults <- MCNoFault
SPECIFICATION Spec
INVARIANT NothingCarriedOver
CHECK_DEADLOCK FALSE
