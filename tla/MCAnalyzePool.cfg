\* A reader and two workers.
CONSTANTS
  Workers = {w1, w2}
  Types <- MCTypes
  MeteredTypes <- MCMetered
  Verdicts <- MCVerdicts
  FailOn <- MCFailOn
  MaxLines = 3
  Cap = 1
SPECIFICATION FairSpec
INVARIANTS
  TypeOK
  NulloptMeansDone
  NothingLeftBehind
  GateExactUnlessRaced
  GateNeverSpurious
PROPERTIES
  Terminates
