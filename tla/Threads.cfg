SPECIFICATION Spec
CONSTANTS
  t1 = t1
  t2 = t2
  Thread <- MCThread
  HostThread = HostThread
  Id <- MCId
  HostId = 1
  AnyId = AnyId
  Modes <- MCModes
  MaxRecords <- MCMaxRecords
  MaxStarts = 3
INVARIANTS
  DispatchesAgree
  NeverReadsFreed
PROPERTIES
  DispatchOnce
  LoopFinishes
CHECK_DEADLOCK FALSE
