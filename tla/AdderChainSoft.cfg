SPECIFICATION Spec
CONSTANT
  Jobs <- AllJobs
INVARIANTS
  SoftSumExact
CHECK_DEADLOCK FALSE
