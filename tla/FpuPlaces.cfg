SPECIFICATION Spec
CONSTANTS
  Vars = {x, y, z}
  RegNum = 3
  MaxArgs = 2
  PentiumPro = FALSE
  CallInPlace = FALSE
  SelfCopy = FALSE
SYMMETRY Symmetry
INVARIANT
  PlacesCurrent
CHECK_DEADLOCK FALSE
