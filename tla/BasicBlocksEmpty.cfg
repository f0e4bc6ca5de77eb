SPECIFICATION Spec
CONSTANTS
  Bodies <- EmptyLoops
  Ids <- Pool
  None = 0
  MaxEvents = 5
CHECK_DEADLOCK FALSE
INVARIANT LabelsAreBlocks
