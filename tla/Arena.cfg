SPECIFICATION Spec
CONSTANTS
  Base = 40
  Size = 22
  Word = 128
  Requests <- OrdinaryRequests
  MaxBlocks = 3
INVARIANTS
  TypeOK
  BlocksInStorage
  BlocksDisjoint
  ThrowsExactlyWhenFull
