SPECIFICATION Spec
CONSTANTS
  read1 = read1
  read2 = read2
  read3 = read3
  export1 = export1
  write1 = write1
  write2 = write2
  NoCall = NoCall
  SearchCall = SearchCall
  Calls <- ThreeReads
  Writes <- ThreeReadsWrites
  Escalated <- ThreeReadsEscalated
  MaxSteps = 8
  RetryBudget = 1
  HonoursToolChoice = TRUE
INVARIANTS
  ApprovedCallCanRun
CHECK_DEADLOCK FALSE
