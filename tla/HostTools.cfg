\* A `result` and an `updates` on one Turn object, each started twice.
CONSTANTS
  w1 = w1
  w2 = w2
  h1 = h1
  g1 = g1
  Calls = {1, 2}
  Waiters = {w1, w2}
  Followers = {w2}
  Handles = {h1}
  Guards = {g1}
  HandleOf <- TwoWaiters
  GuardOf <- OneGuard
  Bound <- AllBound
  MaxStarts = 2
SPECIFICATION FairSpec
CHECK_DEADLOCK FALSE
INVARIANTS
  ToolsInv
  GuardAccountsForCalls
PROPERTIES
  LoneCallNotRepeated
  OpenCallIsServed
