SPECIFICATION Spec
CONSTANTS
  None = None
  s1 = s1
  s2 = s2
  A = A
  B = B
  p = p
  i = i
  Servers = {s1}
  Plan <- TwoRepositories
  Workspaces = {A, B}
  Primary = A
  Repository <- OwnRepository
  Paths = {p}
  MaxContent = 1
  MaxRuns = 3
  MaxPlainRuns = 0
  Versions = {1, 2}
  Interventions = {}
  Stops = {"blocked"}
  Replay = FALSE
INVARIANTS
  UpgradedBetweenWaves
CHECK_DEADLOCK FALSE
