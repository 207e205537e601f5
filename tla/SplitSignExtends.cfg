SPECIFICATION SplitSpec
CONSTANT
  Designs <- SquareDesigns
INVARIANTS
  SplitOnBAsStated
CHECK_DEADLOCK FALSE
