SPECIFICATION ServerSpec
CONSTANTS
  a = a
  b = b
  c1 = c1
  c2 = c2
  h1 = h1
  h2 = h2
  x1 = x1
  x2 = x2
  absent = absent
  nil = nil
  Absent = absent
  Nil = nil
  Names = {a}
  TypeOf <- MCTypeOf
  Data = {x1, x2}
  Handles = {h1, h2}
  MaxLen = 1
  MaxDisk = 1
  Clients = {c1}
  Ops = {"CREATE", "SET", "SUB", "PRINT", "SAVE", "RESTORE", "STOP", "CLOSE"}
  MaxCalls = 5
CHECK_DEADLOCK FALSE
SYMMETRY LifeSymmetry
INVARIANTS ServerTypeOK HandlesIssued NotifiedIsCurrent
PROPERTIES ForwardIsCurrent
