\* The address cannot be bound.
CONSTANTS
  Failures = {"bind"}
  MaxBacklog = 2
  MaxCount = 1
SPECIFICATION Spec
INVARIANT
  DocumentedExit
