SPECIFICATION FairSpec
CONSTANTS
  GND_NAME = "$false"
  VCC_NAME = "$true"
  HBPAD_NAME = "$undef"
  Lhs = {"o", "p", "y"}
  Rhs = {"a", "w", "y"}
  MaxConnections = 3
  Names = {"a", "c1", "c2", "o", "p", "w", "x", "y", "$false", "$true", "$undef"}
  Designs <- MCDesigns
INVARIANTS
  NoDangling
  PointersAgree
  WrittenOnce
  SoundAccepted
PROPERTIES
  LinksKept
  PassEnds
CHECK_DEADLOCK FALSE
