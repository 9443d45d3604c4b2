SPECIFICATION Spec
CONSTANTS
  Base = 36
  Size = 28
  Word = 128
  Requests <- HugeRequests
  MaxBlocks = 4
INVARIANT BlocksInStorage
