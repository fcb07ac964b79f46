SPECIFICATION Spec
CONSTANTS
  c1 = c1
  c2 = c2
  c3 = c3
  c4 = c4
  Never = Never
  Calls <- TwoCalls
  MaxConcurrent = 1
  MaxCalls = 1
  Window = 2
  MaxAttempts = 1
  Timeout = 1
  Gated = FALSE
  Requests <- Execute
  HandlerResults <- Works
  MaxTime = 3
INVARIANTS
  WaitIsBounded
CHECK_DEADLOCK FALSE
