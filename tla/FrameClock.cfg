SPECIFICATION Spec
CONSTANTS
  Wrap = 32
  FrameTicks = 7
  MaxDelay = 2
  Delays <- MCDelays
  Images <- MCImages
  Requests = {0, 2, 4, 1001}
  MaxFrames = 5
  MaxRestores = 2
INVARIANTS
  TypeOK
  SettlesInTwo
  FramesBracketed
  StopsExactlyAtLimit
PROPERTIES
  NoDriftButByRestore
  LimitReached
CHECK_DEADLOCK FALSE
