SPECIFICATION Spec
CONSTANTS
  Vars = {x, y, z}
  Regs = {r0, r1}
  Slots = {s1, s2, s3, s4}
  Consts = {c}
  RetReg = r0
  NoVar = NoVar
  CallInPlace = FALSE
  SelfCopy = FALSE
SYMMETRY Symmetry
INVARIANTS
  TypeOK
  LocListed
  DescSound
  LiveLocated
  ConstAlone
  UniqueAtEnd
  EntryAgrees
  ReturnedInPlace
