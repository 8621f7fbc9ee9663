\* The previews a subscription shows while two attempts write three fragments.
CONSTANTS
  t1 = t1
  m1 = m1
  m2 = m2
  NoTurn = NoTurn
  Turns = {t1}
  Messages = {m1, m2}
  Indexes = {0}
  Origin <- RetriedTurn
  FollowedTurn = NoTurn
  MaxAttempt = 2
  MaxChanges = 3
  MaxFragments = 3
  MaxPages = 2
  MaxLive = 1
SPECIFICATION Spec
CHECK_DEADLOCK FALSE
INVARIANTS
  NoPreviewOfSettledTurn
  OneAttemptPerTurn
  HoleOnlyFromReconnect
