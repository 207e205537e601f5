SPECIFICATION Spec
CONSTANTS
  Jobs <- MCJobs
  MinMult <- MCMinMult
INVARIANTS
  PartialResultsExact
PROPERTIES
  ImplementsMultiplication
CHECK_DEADLOCK FALSE
