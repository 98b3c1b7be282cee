SPECIFICATION Spec
CONSTANTS
  None = None
  s1 = s1
  s2 = s2
  A = A
  B = B
  p = p
  i = i
  Servers = {s1}
  Plan <- TwoWaves
  Workspaces = {A, B}
  Primary = B
  Repository <- OneRepository
  Paths = {p}
  MaxContent = 1
  MaxRuns = 3
  MaxPlainRuns = 1
  Versions = {1, 2}
  Interventions = {i}
  Stops = {"blocked"}
  Replay = TRUE
INVARIANTS
  TypeOK
  DependenciesFirst
  BasesVerified
  
  OneVersionPerWave
PROPERTIES
  CandidateFrozen
  CompletesAsSealed
CHECK_DEADLOCK FALSE
