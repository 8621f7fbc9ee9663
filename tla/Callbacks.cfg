\* Three attempts for a call, a call of an unknown tool, restarts and key changes.
CONSTANTS
  c1 = c1
  c2 = c2
  d1 = d1
  d2 = d2
  d3 = d3
  NoCall = NoCall
  NoReply = NoReply
  Calls = {c1, c2}
  Known = {c1}
  Deliveries = {d1, d2, d3}
  MaxAttempts = 3
SPECIFICATION Spec
CHECK_DEADLOCK FALSE
SYMMETRY AnyDelivery
INVARIANTS
  AnswersAreTheRecord
PROPERTIES
  RecordedCallIsNotRun
  IsAnswerOnce
