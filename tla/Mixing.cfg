SPECIFICATION MCSpec
CONSTANTS
  Node <- MCNode
  Mult <- MCMult
  Invocations <- MCInvocations
  RatioUnits = 100
  Precision = 8
  Fraction = 10
  IntMax = 127
INVARIANTS
  IInv
  BudgetSpent
  ImplementedOnce
  SettingsAccepted
  WeightIsLongestPath
  HeaviestHardened
PROPERTIES
  MappingEnds
CHECK_DEADLOCK FALSE
