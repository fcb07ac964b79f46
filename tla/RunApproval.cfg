SPECIFICATION FairSpec
CONSTANTS
  ann = ann
  bob = bob
  Approvers <- TwoApprovers
  MaxSegments = 3
  MayCrash = TRUE
INVARIANTS
  TypeOK
  PendingHasItsRecord
  PausesAreFiled
  OneProcessDrivesTheRun
PROPERTIES
  RecordsOnlyAdvance
  ImplementsGate
  WaitingRunsAreQueued
CHECK_DEADLOCK FALSE
