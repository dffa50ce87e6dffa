SPECIFICATION TimeSpec
CONSTANTS
  Word = 8
  Step = 3
  Targets = {0, 1, 4, 5}
  Values = {0, 1, 3, 8, 20, 31, 32, 57, 63}
  NoLoop = NoLoop
INVARIANTS
  ArithmeticAgrees
PROPERTIES
  TimeIsKept
  WaitEnds
CHECK_DEADLOCK FALSE
