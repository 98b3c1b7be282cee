SPECIFICATION Spec
CONSTANTS
  None = None
  c1 = c1
  c2 = c2
  Servers = {"s1"}
  Paths = {"code"}
  Contents <- TwoContents
  ScopePaths = {"code"}
  EditorialPaths = {}
  Checks = {"diff"}
  Writers = {"claude"}
  MaxCorrectionPasses = 1
  MaxCriticRetries = 0
  FindingForms <- SeriousOnly
  ResolutionForms <- OpenFixedRefuted
  Faults = {}
  MaxCommits = 1
  MaxStages = 2
  MaxReviews = 1
PROPERTIES
  EveryCorrectionCharged
CHECK_DEADLOCK FALSE
