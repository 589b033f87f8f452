\* One worker, a log whose records arrive up to one second late.
CONSTANTS
  Workers = {w1}
  src1 = src1
  src2 = src2
  dst1 = dst1
  dst2 = dst2
  Traffic <- MCTraffic
  NoUser = ""
  PortscanAttempts = 2
  DdosUnique = 2
  BruteforceFailures = 2
  Span = 1
  Skew = 1
  MaxTime = 3
  MaxRecords = 4
SPECIFICATION Spec
INVARIANTS
  TypeOK
  IndexExact
  StaleBounded
  FreshKept
PROPERTIES
  ImplementsIdeal
CHECK_DEADLOCK FALSE
