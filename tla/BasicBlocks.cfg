SPECIFICATION Spec
CONSTANTS
  Bodies <- TwoStatements
  Ids <- Pool
  None = 0
  MaxEvents = 6
CHECK_DEADLOCK FALSE
INVARIANTS
  AssertionsHold
  LabelsAreBlocks
  OneJumpForward
  FallThroughOwn
  SameMeaning
