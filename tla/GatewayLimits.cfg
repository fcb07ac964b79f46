SPECIFICATION Spec
CONSTANTS
  c1 = c1
  c2 = c2
  c3 = c3
  c4 = c4
  Never = Never
  Calls <- FourCalls
  MaxConcurrent = 2
  MaxCalls = 1
  Window = 2
  MaxAttempts = 1
  Timeout = 9
  Gated = FALSE
  Requests <- Execute
  HandlerResults <- Works
  MaxTime = 4
SYMMETRY CallSymmetry
INVARIANTS
  BudgetHolds
  RetryAfterIsHonest
CHECK_DEADLOCK FALSE
