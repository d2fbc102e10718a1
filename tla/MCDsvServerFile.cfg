SPECIFICATION ServerSpec
CONSTANTS
  a = a
  b = b
  c1 = c1
  c2 = c2
  h1 = h1
  h2 = h2
  x1 = x1
  x2 = x2
  absent = absent
  nil = nil
  Absent = absent
  Nil = nil
  Names = {a}
  TypeOf <- MCTypeOfArray
  Data = {x1, x2}
  Handles = {h1}
  MaxLen = 2
  MaxDisk = 1
  Clients = {c1}
  Ops = {"CREATE", "ADD_ITEM", "SET_ITEM", "INS_ITEM", "DEL_ITEM", "GET", "GET_TYPE", "GET_LEN", "GET_ITEM", "SAVE", "RESTORE", "SUB"}
  MaxCalls = 5
CHECK_DEADLOCK FALSE
SYMMETRY DataSymmetry
PROPERTY TableSpec
