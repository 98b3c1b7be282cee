SPECIFICATION Spec
CONSTANTS
  None = None
  c1 = c1
  c2 = c2
  Servers = {"s1"}
  Paths = {"code"}
  Contents <- TwoContents
  ScopePaths = {"code"}
  EditorialPaths = {}
  Checks = {"diff"}
  Writers = {"codex"}
  MaxCorrectionPasses = 2
  MaxCriticRetries = 1
  FindingForms <- SeriousOnly
  ResolutionForms <- OpenFixedRefuted
  Faults = {"crash"}
  MaxCommits = 1
  MaxStages = 3
  MaxReviews = 3
SYMMETRY ContentSymmetry
INVARIANTS
  TypeOK
  NoFindingLost
  FindingIdsUnique
  CompleteSettlesAll
  CompleteIsQuiet
  InferenceNotRepeated
  FallbackHasLimit
  FallbackReviewCounts
PROPERTIES
  CompleteIsFinal
  
CHECK_DEADLOCK FALSE
