\* Result and Updates, on handles that share their state or not, resolve two calls.
CONSTANTS
  a = a
  b = b
  one = one
  two = two
  Calls = {1, 2}
  Waiters = {a, b}
  Followers = {b}
  States = {one, two}
  StatesOf <- MCStatesOf
  Bound <- MCBound
  MaxStarts = 1
  Panicking = {1}
  MaxRuns = 2
SPECIFICATION FairSpec
INVARIANTS
  HandlerRunsOnce
  NoConflictOfOneState
PROPERTIES
  OpenCallIsServed
  CancelledWaitEnds
CHECK_DEADLOCK FALSE
