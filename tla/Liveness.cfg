SPECIFICATION Spec
CONSTANTS
  u = u
  v = v
  none = none
  Vars <- MCVars
  NoVar = none
  N = 4
  Codes <- Codes4
CHECK_DEADLOCK FALSE
INVARIANTS
  InExact
  OutExact
  DistReal
  ScanAgrees
PROPERTY Termination
