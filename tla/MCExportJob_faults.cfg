SPECIFICATION FairSpec
CONSTANTS
  MaxRetries = 2
  RetryReportsExc = TRUE
  Faults <- AllFaults
INVARIANTS
  PackagesMatch
PROPERTIES
  ExportEnds
