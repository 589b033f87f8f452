\* Two workers on one window.
CONSTANTS
  Workers = {w1, w2}
  src1 = src1
  src2 = src2
  dst1 = dst1
  dst2 = dst2
  Traffic <- MCTraffic
  NoUser = ""
  PortscanAttempts = 2
  DdosUnique = 2
  BruteforceFailures = 2
  Span = 1
  Skew = 0
  MaxTime = 3
  MaxRecords = 4
SPECIFICATION Spec
INVARIANT
  IndexExact
CHECK_DEADLOCK FALSE
