SPECIFICATION Spec
CONSTANTS
  Similarity <- SimilarityOf
  Overlap <- OverlapOf
  Floor = 3
  CandidateLimit = 5
  RrfK = 60
  Documents <- TheDocuments
  Entries <- Rows
  Sections <- Versions
  Contexts <- Askers
  Limit = 4
  Ingests <- ThreeIngests
  MaxActive = 2
  MaxEdits = 1
  MaxFailures = 1
INVARIANTS
  TypeOK
  IngestCatchesUp
  EvidenceIsRankedInScope
PROPERTIES
  UntouchedStaysFindable
