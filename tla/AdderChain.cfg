SPECIFICATION Spec
CONSTANT
  Jobs <- AllJobs
INVARIANTS
  EveryBitPlaced
  OutputsHandedOver
  ChainConnected
  AddExact
  SubExact
PROPERTIES
  ConnectedOnce
CHECK_DEADLOCK FALSE
