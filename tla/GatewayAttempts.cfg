SPECIFICATION FairSpec
CONSTANTS
  c1 = c1
  c2 = c2
  c3 = c3
  c4 = c4
  Never = Never
  Calls <- TwoCalls
  MaxConcurrent = 2
  MaxCalls = 2
  Window = 2
  MaxAttempts = 2
  Timeout = 1
  Gated = TRUE
  Requests <- GatedRequests
  HandlerResults <- EndsAnyhow
  MaxTime = 2
INVARIANTS
  TypeOK
  RefusedCallsCostNothing
  HandlersAreContained
  AppliedAsReported
  WorkIsOnRecord
PROPERTIES
  CallsReturn
CHECK_DEADLOCK FALSE
