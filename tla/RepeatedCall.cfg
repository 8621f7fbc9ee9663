\* Two waiters run the handler of one call.
CONSTANTS
  w1 = w1
  w2 = w2
  h1 = h1
  g1 = g1
  Calls = {1, 2}
  Waiters = {w1, w2}
  Followers = {w2}
  Handles = {h1}
  Guards = {g1}
  HandleOf <- TwoWaiters
  GuardOf <- OneGuard
  Bound <- AllBound
  MaxStarts = 1
SPECIFICATION Spec
CHECK_DEADLOCK FALSE
PROPERTIES
  HandledCallNotRepeated
