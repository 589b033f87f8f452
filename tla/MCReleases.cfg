\* Every release, over command lines, environments, rules files and lines.
CONSTANTS
  Value <- MCValue
  IntRange <- MCIntRange
  PortPart <- MCPortPart
  FailOnPart <- MCFailOnPart
  HardwareThreads = 2
  IntEnd = 8
  LongEnd = 32
  Jobs <- MCJobs
  Words <- MCWords
  PolicyPort = 5
  Cap = 2
SPECIFICATION FairSpec
INVARIANTS
  TypeOK
  ErrorsWriteNothing
  SuccessMeansAnalysed
  LateAbortExplained
  GateDecides
  UpgradeKeepsSettings
  ThresholdsAsWritten
  LowThresholdReportsAll
  ReadersExact
  WindowRecount
PROPERTIES
  EndsUnlessWaiting
