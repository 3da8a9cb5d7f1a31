SPECIFICATION Spec
CONSTANTS
  Requests = {r1, r2, r3}
  File0 = file0
  Places = {p1, p2}
  RootPlaces = {p2}
  Versioning = TRUE
  Faults <- AllFaults
SYMMETRY Symmetry
INVARIANTS
  NothingIsLost
PROPERTIES
  ImplementsArchive
