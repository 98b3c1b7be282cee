SPECIFICATION FairSpec
CONSTANTS
  None = None
  c1 = c1
  c2 = c2
  Servers = {"s1"}
  Paths = {"code", "doc"}
  Contents <- TwoContents
  ScopePaths = {"code", "doc"}
  EditorialPaths = {"doc"}
  Checks = {"diff"}
  Writers = {"codex"}
  MaxCorrectionPasses = 1
  MaxCriticRetries = 0
  FindingForms <- SeriousAndEditorial
  ResolutionForms <- OpenFixedRefuted
  Faults = {"crash"}
  MaxCommits = 1
  MaxStages = 1
  MaxReviews = 1
PROPERTIES
  CompleteIsEvidenced
  StageSettles
CHECK_DEADLOCK FALSE
