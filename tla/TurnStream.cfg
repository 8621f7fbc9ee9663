\* The stream of one Turn, which two attempts execute, followed to its end.
CONSTANTS
  t1 = t1
  m1 = m1
  m2 = m2
  NoTurn = NoTurn
  Turns = {t1}
  Messages = {m1, m2}
  Indexes = {0}
  Origin <- RetriedTurn
  FollowedTurn = t1
  MaxAttempt = 2
  MaxChanges = 3
  MaxFragments = 2
  MaxPages = 1
  MaxLive = 1
SPECIFICATION FairSpec
CHECK_DEADLOCK FALSE
INVARIANTS
  DurableViewIsLogPrefix
  SettledAfterItsMessages
PROPERTIES
  DurableNeverRetreats
  IsTranscriptFeed
  EndIsLearned
