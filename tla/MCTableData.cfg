SPECIFICATION Spec
CONSTANTS
  Requests = {r1, r2, r3, r4}
  ta = ta
  tb = tb
  Start <- MCStart
  Row0 = row0
  Columns = {"c"}
  Data = {row0, none}
  Null = none
  Mixes <- MCMixes
  MaxFaults = 1
SYMMETRY MCSymmetry
INVARIANTS
  ColumnsAgree
  KeysAgree
  RowsKept
CHECK_DEADLOCK FALSE
