SPECIFICATION FairSpec
CONSTANTS
  NumRows = 5
  ChunkRows = 2
  MaxStoredErrors = 3
  MaxRetries = 2
  RetryReportsExc = TRUE
  Faults <- SurvivableFaults
INVARIANTS
  EveryRejectionExplained
PROPERTIES
  ImplementsLedger
  JobEnds
