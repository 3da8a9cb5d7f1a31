SPECIFICATION Spec
CONSTANTS
  NumRows = 5
  ChunkRows = 2
  MaxStoredErrors = 3
  MaxRetries = 2
  RetryReportsExc = TRUE
  Faults <- AllFaults
INVARIANTS
  NoRowSkipped
  CountsAgree
  CopiesBounded
PROPERTIES
  ProgressIsKept
