\* A rule whose within_sec is not the span of the engine.
CONSTANTS
  Records <- MCRecords
  RuleFiles <- LongRuleFiles
  cfg <- MCcfg
  s1 = s1
  s2 = s2
  Slots <- MCSlots
  MaxOut = 1
  History = 1
  MaxFed <- MCMaxFed
SYMMETRY Symmetry
SPECIFICATION Spec
INVARIANT RuleWindows
CHECK_DEADLOCK FALSE
