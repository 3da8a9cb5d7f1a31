SPECIFICATION FairSpec
CONSTANTS
  MaxRetries = 2
  RetryReportsExc = TRUE
  Faults <- AllFaults
INVARIANTS
  StoresAgree
PROPERTIES
  RestoreEnds
  PromiseKept
