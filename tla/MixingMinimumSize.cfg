SPECIFICATION Spec
CONSTANTS
  Node <- FewNode
  Mult <- FewMult
  Invocations <- PlainInvocations
  RatioUnits = 100
  Precision = 8
  Fraction = 10
  IntMax = 127
INVARIANTS
  SmallMultipliersSoft
CHECK_DEADLOCK FALSE
