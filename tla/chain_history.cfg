SPECIFICATION Spec
CONSTANTS
  None = None
  Source = Source
  A = A
  B = B
  wS = wS
  wQ = wQ
  wA = wA
  wB = wB
  w1 = w1
  w2 = w2
  w3 = w3
  w4 = w4
  Tasks = {A}
  Contract <- OnePublished
  SourceWorktree = wS
  Worktrees = {wS, wA, wQ, w1, w2}
  StartTree <- Emptied
  Changes = {"s", "s2", "s3", "a", "x"}
  Copies = {0, 1}
  Edits = {"x"}
  Written = {}
  Switched = {}
  Recorded <- Needed
  MaxAttempt <- Attempts
  MaxEpoch = 2
  MaxOutside = 0
INVARIANTS
  PublishedHistoryKept
CHECK_DEADLOCK FALSE
