\* Engines in the order of the calls, fed in any order of time.
CONSTANTS
  Records <- MCRecords
  RuleFiles <- MCRuleFiles
  cfg <- MCcfg
  s1 = s1
  s2 = s2
  Slots <- MCSlots
  MaxOut = 1
  History = 1
  MaxFed <- MCMaxFed
SYMMETRY Symmetry
SPECIFICATION Spec
INVARIANTS
  TypeOK
  DetectorsRecount
  RulesRecount
  KeepsRecent
  AnomalyFromOwnHistory
CHECK_DEADLOCK FALSE
