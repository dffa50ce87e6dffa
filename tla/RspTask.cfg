SPECIFICATION TaskSpec
CONSTANTS
  d1 = d1
  d2 = d2
  DoneMsg <- MCDoneMsg
  NoDone = NoDone
  GameMsg = GameMsg
  Leftover = Leftover
  Count = 2
  Requests = {0, 2, 3, 1001}
  MaxTasks = 4
  MaxReposts = 2
INVARIANTS
  TaskTypeOK
  TasksAccounted
  StopsExactlyAtLimit
PROPERTIES
  QueueDrains
CHECK_DEADLOCK FALSE
