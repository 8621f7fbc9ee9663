\* Three pages in two tabs open at once, lose answers, are refused and start over.
CONSTANTS
  a = a
  b = b
  c = c
  NoPage = NoPage
  Pages = {a, b, c}
  Runtimes = {"one", "two"}
  RuntimeOf <- MCRuntimeOf
  MaxExchanges = 3
  MaxLost = 1
  MaxRevoked = 1
  MaxStartOvers = 1
SYMMETRY TabSymmetry
SPECIFICATION Spec
INVARIANTS
  OneVisitor
  RenewalGoesOn
PROPERTIES
  ContinuityKept
  ShownVisitorIsKept
CHECK_DEADLOCK FALSE
