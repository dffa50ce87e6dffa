SPECIFICATION Spec
CONSTANTS
  b4 = b4
  b6 = b6
  Bank <- MCBank
  Fallback = b6
  NoBank = NoBank
  Align = 2
  Wrap = 26
  Start <- MCStart
  End <- MCEnd
  ScratchStart = 16
  ScratchLimit = 23
  Translates <- MCTranslates
  AllocSizes <- MCAllocSizes
  ResizeSizes = {0, 1, 3}
  Pointers <- MCPointers
  MaxBlocks = 4
INVARIANTS
  TypeOK
  PoolsInBounds
  BlocksDisjoint
  LastBlockOnTop
