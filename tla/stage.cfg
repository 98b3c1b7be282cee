SPECIFICATION FairSpec
CONSTANTS
  None = None
  MaxLines = 2
  Faults = {"slow", "callback"}
INVARIANTS
  KilledNotCompleted
  ResultKept
PROPERTIES
  StagePublished
  ImplementsStageLife
CHECK_DEADLOCK FALSE
