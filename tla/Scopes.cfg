SPECIFICATION Spec
CONSTANTS
  func = func
  name1 = name1
  name2 = name2
  name3 = name3
  name4 = name4
  Strings <- MCStrings
  Hash <- MCHash
  TableElems = 0
  Moves = FALSE
  NoString = NoString
  PoolElems = 1
  ElemSize = 1
  MaxNodes = 3
  VarTypes <- MCTypes
  FuncType = func
  MAX_SCOPES = 4
  DeclsSize = 8
  PtrSize = 8
  MaxDecls = 3
  MaxNames = 5
CONSTRAINT FewNames
SYMMETRY Symmetry
CHECK_DEADLOCK FALSE
INVARIANTS
  PoolTypeOK
  CellsPartitioned
  FreeNodesLinked
  OneSymbol
  DeclsListed
PROPERTIES
  SymbolsKept
  MeansInnermost
  CellsOwned
