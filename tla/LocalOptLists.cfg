SPECIFICATION Spec
CONSTANTS
  x = x
  y = y
  t = t
  n1 = n1
  n2 = n2
  n3 = n3
  n4 = n4
  n5 = n5
  n6 = n6
  n7 = n7
  n8 = n8
  n9 = n9
  n10 = n10
  n11 = n11
  n12 = n12
  none = none
  None = none
  Vars <- MCVars
  NewVars <- MCNewVars
  IdRange = 8192
  Inputs <- SourceBlocks
  Copied <- CopyBlocks
INVARIANT
  GraphRight
