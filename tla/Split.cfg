SPECIFICATION SplitFairSpec
CONSTANT
  Designs <- MCDesigns
INVARIANTS
  SplitIInv
  BlocksFit
  ProductKept
  DistributionExact
  PadFills
PROPERTIES
  SplittingEnds
CHECK_DEADLOCK FALSE
