SPECIFICATION FairSpec
CONSTANTS
  v1 = v1
  v2 = v2
  MaxRecords = 2
  MaxKey = 2
  PageSize = 1
  MaxDeletes = 1
  Verifiers = {v1, v2}
  Types = {"postgres", "objects", "configuration"}
  MaxFaults = 1
  Encrypting = TRUE
  Faults <- AllFaults
INVARIANTS
  BackupsAreSound
  VerificationIsClean
  BadNewsAccounted
PROPERTIES
  BackupsEnd
CHECK_DEADLOCK FALSE
