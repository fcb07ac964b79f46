SPECIFICATION Spec
CONSTANTS
  ann = ann
  bob = bob
  Approvers <- TwoApprovers
  MaxSegments = 3
  MayCrash = FALSE
INVARIANTS
  ApproversSawTheCall
CHECK_DEADLOCK FALSE
