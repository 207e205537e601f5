CONSTANTS
  Archs <- SoftArch
  Designs <- CrossedDesigns
  HardAddrLimit = 3
  SoftAddrLimit = 2
  LutramMin = 8
  LutramMax = 9
  MaxClocks = 1
  ChangingClocks = 0
SPECIFICATION MappingSpec
INVARIANT WritePortsWhole
CHECK_DEADLOCK FALSE
