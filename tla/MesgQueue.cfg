SPECIFICATION Spec
CONSTANTS
  q1 = q1
  q2 = q2
  word0 = word0
  m1 = m1
  Queue <- MCQueue
  Msg <- MCMsg
  DmaDone = word0
  NoQueue = NoQueue
  Retrace = Retrace
  Word = Word
  NoMsg = NoMsg
  MaxCount = 2
  MaxCalls = 6
INVARIANTS
  TypeOK
  CountersAddUp
PROPERTIES
  ImplementsFifo
CHECK_DEADLOCK FALSE
