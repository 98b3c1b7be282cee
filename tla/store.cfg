SPECIFICATION FairSpec
CONSTANTS
  None = None
  Creation = Creation
  c1 = c1
  c2 = c2
  w = w
  s1 = s1
  s2 = s2
  Servers = {s1, s2}
  Chains = {c1, c2}
  Worktrees = {w}
  Payloads = {"p", "q"}
  Ids = {"r1", "r2"}
  Requests <- Sent
  Reservations = {{}, {w}}
  MaxCalls = 4
  MaxFaults = 2
INVARIANTS
  TypeOK
  ReservedOnce
PROPERTIES
  CallsReturn
  ImplementsJournal
CHECK_DEADLOCK FALSE
