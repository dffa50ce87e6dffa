SPECIFICATION Spec
CONSTANTS
  Tasks <- MCTasks
  Segment <- MCSegment
  Backed <- MCBacked
  ProbeLimit = 4
  DenseKnown = 3
  DenseUnknown = 0
INVARIANTS
  CountsAddUp
  StackSound
  ScheduledAreWalked
  OnlyPlausibleWalked
  WithinBudgets
PROPERTIES
  AbortIsFinal
  WalkEnds
