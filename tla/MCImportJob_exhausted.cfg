SPECIFICATION Spec
CONSTANTS
  NumRows = 3
  ChunkRows = 2
  MaxStoredErrors = 3
  MaxRetries = 1
  RetryReportsExc = TRUE
  Faults <- TenantFault
INVARIANTS
  EndedJobIsSettled
