CONSTANTS
  Modes <- MCVisitor
  MaxSends = 1
  MaxOthers = 0
  MaxVisitors = 2
  MaxFailures = 1
  Deletable = {}
  Faults <- MCNotAllowed
SPECIFICATION FairSpec
INVARIANTS
  OneStream
  QuietStartOver
  DestroyIsFinal
PROPERTIES
  StreamComesBack
CHECK_DEADLOCK FALSE
