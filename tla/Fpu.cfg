SPECIFICATION Spec
CONSTANTS
  Vars = {x, y, z}
  RegNum = 3
  MaxArgs = 2
  PentiumPro = FALSE
  CallInPlace = TRUE
  SelfCopy = FALSE
SYMMETRY Symmetry
INVARIANTS
  Listed
  LiveLocated
  PlacesHold
CHECK_DEADLOCK FALSE
