CONSTANTS
  A = A
  B = B
  Ids <- MCIds
  NumRules <- MCNumRules
  U32 = 8
  RRM_GROWTH = 2
  Trees <- MCTrees
  Configs <- MCConfigs
  NoTree = NoTree
  MaxNodes = 2
  MaxSteps = 2
SPECIFICATION Spec
INVARIANTS
  TypeOK
  FuzzHasWork
  RulesCovered
  StagesInOrder
  BudgetKept
PROPERTIES
  TreeStays
  FuzzingEnds
