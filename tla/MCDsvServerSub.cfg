SPECIFICATION ServerSpec
CONSTANTS
  a = a
  b = b
  c1 = c1
  c2 = c2
  h1 = h1
  h2 = h2
  x1 = x1
  x2 = x2
  absent = absent
  nil = nil
  Absent = absent
  Nil = nil
  Names = {a}
  TypeOf <- MCTypeOf
  Data = {0, 1}
  Handles = {h1}
  MaxLen = 1
  MaxDisk = 0
  Clients = {c1, c2}
  Ops = {"CREATE", "SUB"}
  MaxCalls = 4
CHECK_DEADLOCK FALSE
INVARIANT SubscriberTold
