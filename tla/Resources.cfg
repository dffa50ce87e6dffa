SPECIFICATION Spec
CONSTANTS
  Top = 15
  CellOf <- MCCellOf
  RomSizes <- MCRomSizes
  Sections <- MCSections
  CdataRom = 3
  CdataSize = 2
  CsegStart = 2
  CsegSize = 3
  ElfSource = 100
  Bridges = {TRUE, FALSE}
  RzWords = 5
  DmaSources = {1, 4}
  DmaBlocks <- MCDmaBlocks
  PoolBlocks <- MCPoolBlocks
  Resizes <- MCResizes
  Sources = {3}
  Targets = {0, 2}
  MaxInflated = 2
  Stored = {3}
  MaxCalls = 3
INVARIANTS
  TypeOK
  AnswersTrue
  ReportsAgree
PROPERTIES
  ImplementsMap
CHECK_DEADLOCK FALSE
