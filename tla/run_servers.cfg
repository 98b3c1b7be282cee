SPECIFICATION Spec
CONSTANTS
  None = None
  c1 = c1
  c2 = c2
  Servers = {"s1", "s2"}
  Paths = {"code"}
  Contents <- TwoContents
  ScopePaths = {"code"}
  EditorialPaths = {}
  Checks = {"diff"}
  Writers = {"codex", "claude"}
  MaxCorrectionPasses = 1
  MaxCriticRetries = 0
  FindingForms <- SeriousOnly
  ResolutionForms <- OpenFixedRefuted
  Faults = {"crash", "callback", "files"}
  MaxCommits = 2
  MaxStages = 1
  MaxReviews = 1
SYMMETRY ContentSymmetry
INVARIANTS
  PhaseMatchesTerminal

  
CHECK_DEADLOCK FALSE
