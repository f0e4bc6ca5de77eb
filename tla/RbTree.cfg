SPECIFICATION Spec
CONSTANT Users <- MCUsers
VIEW Canonical
INVARIANTS
  TypeOK
  RedBlack
  NothingLost
  StackIsPath
  AssertionsHold
PROPERTY IsOrderedBag
