CONSTANTS
  Archs <- MCArchs
  Designs <- PassDesigns
  HardAddrLimit = 3
  SoftAddrLimit = 2
  LutramMin = 8
  LutramMax = 9
  MaxClocks = 2
  ChangingClocks = 1
SPECIFICATION MCSpec
INVARIANTS
  CellsCoveredOnce
  PortsShareCells
  ListsHoldNodesOnce
  HardFits
PROPERTIES
  Answers
  MappingEnds
CHECK_DEADLOCK FALSE
