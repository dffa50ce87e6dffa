SPECIFICATION ProbeSpec
CONSTANTS
  Settings <- MCSettings
  Timeouts <- MCTimeouts
  Fault <- MCFault
  SIGALRM = 14
  Fatal = {8}
  HostStop <- MCHostStop
INVARIANTS
  ReportIdentifiesCause
  LookupNeverRefuses
PROPERTIES
  ProbeEnds
CHECK_DEADLOCK FALSE
