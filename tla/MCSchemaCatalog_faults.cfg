SPECIFICATION Spec
CONSTANTS
  Requests = {r1, r2, r3, r4}
  Names = {n1, n2}
  Db0 = db0
  Table0 = table0
  Faults <- AllFaults
SYMMETRY Symmetry
INVARIANTS
  OrphansAccounted
  
  MissingTableAccounted
PROPERTIES
  ImplementsRegistry
