\* Two workers and the --fail-on gate.
CONSTANTS
  Workers = {w1, w2}
  Types <- MCTypes
  MeteredTypes <- MCMetered
  Verdicts <- MCVerdicts
  FailOn <- MCFailOn
  MaxLines = 2
  Cap = 1
SPECIFICATION Spec
INVARIANT
  GateExact
