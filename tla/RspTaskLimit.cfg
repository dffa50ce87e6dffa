SPECIFICATION TaskSpec
CONSTANTS
  d1 = d1
  d2 = d2
  DoneMsg <- MCDoneMsg
  NoDone = NoDone
  GameMsg = GameMsg
  Leftover = Leftover
  Count = 2
  Requests = {0, 1}
  MaxTasks = 3
  MaxReposts = 1
INVARIANTS
  TasksWithinLimit
CHECK_DEADLOCK FALSE
