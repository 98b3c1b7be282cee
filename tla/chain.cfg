SPECIFICATION Spec
CONSTANTS
  None = None
  Source = Source
  A = A
  B = B
  wS = wS
  wQ = wQ
  wA = wA
  wB = wB
  w1 = w1
  w2 = w2
  w3 = w3
  w4 = w4
  Tasks = {A, B}
  Contract <- TwoTasks
  SourceWorktree = wS
  Worktrees = {wS, wA, wB, wQ, w1, w2, w3, w4}
  StartTree <- Prepared
  Changes = {"s", "s2", "s3", "a", "b", "x"}
  Copies = {0, 1, 2}
  Edits = {"x"}
  Written = {w1, w2}
  Switched <- Switches
  Recorded <- Needed
  MaxAttempt <- Attempts
  MaxEpoch = 2
  MaxOutside = 2
INVARIANTS
  TypeOK
  ParentsPinned
  
  WorktreesApart
  ReadyIsCurrent
  ReviewNotSkipped
PROPERTIES
  NoOldAuthority
CHECK_DEADLOCK FALSE
