SPECIFICATION Spec
CONSTANTS
  ann = ann
  bob = bob
  Approvers <- TwoApprovers
  MaxSegments = 3
  MayCrash = FALSE
PROPERTIES
  ConflictMeansSettled
CHECK_DEADLOCK FALSE
