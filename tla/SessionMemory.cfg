SPECIFICATION Spec
CONSTANTS
  alpha = alpha
  beta = beta
  gamma = gamma
  delta = delta
  Keys = {"k", "l", "m"}
  Texts = {alpha, beta, gamma, delta}
  Topic <- Topics
  Turns = {1, 2, 3}
  ScopeOf <- Scopes
  Proposals <- Lists
  Clarified = {1}
  aim = aim
  lure = lure
  more = more
  part = part
  Notes = {aim, lure, more, part}
  Unsafe = {2, lure}
  Long = {aim}
  Dotted = {more}
  Clipped <- Rests
  Pieces <- Parts
  MaxPieces = 2
  Summaries <- Named
  RecallLimit = 2
  SemanticCandidates = 4
  Held <- Earlier
  TurnLimit = 1
  Batch = 2
  ItemCap = 2
  MaxActive = 2
  Pausers = {2}
  MaxFailures = 1
INVARIANTS
  TypeOK
  OneMemoryPerKey
  RecallFindsWhatIsLive
  PromotedIsFolded
  NothingPromotedIsLost
  CleanTurnsCloseTheGap
PROPERTIES
  ReplacedBeforeRetired
  GoalStands
  KeysKeepAMemory
CHECK_DEADLOCK FALSE
