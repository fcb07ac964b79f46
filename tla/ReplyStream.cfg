SPECIFICATION FairSpec
CONSTANTS
  Segments <- TwoSegments
  HasHistory = TRUE
  MaxSteps = 2
  MaxAttempts = 2
  MaxQueries = 2
  MaxLag = 2
INVARIANTS
  TypeOK
  PreviewHoldsNoDeadAttempt
  CallsShownWhereMade
  TheScreenIsTheRecord
PROPERTIES
  StreamEnds
CHECK_DEADLOCK FALSE
