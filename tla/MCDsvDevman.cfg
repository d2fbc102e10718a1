SPECIFICATION DevmanSpec
CONSTANTS
  d1 = d1
  d2 = d2
  list = list
  lvl = lvl
  h1 = h1
  h2 = h2
  absent = absent
  nil = nil
  Absent = absent
  Nil = nil
  Names = {list, lvl}
  TypeOf <- MCTypeOf
  Data = {0, 1}
  Handles = {h1, h2}
  MaxLen = 3
  MaxDisk = 0
  Clients = {d1, d2}
  Devices = {d1, d2}
  Ops = {"CREATE", "SET", "SUB", "ADD_ITEM"}
  MaxCalls = 20
  DevList = list
  LogLevel <- MCLogLevel
  InstID <- MCInstID
  Level <- MCLevel
  Warning = 0
  DefaultID = 0
CHECK_DEADLOCK FALSE
SYMMETRY MCSymmetry
INVARIANTS WritesGood JoinsCounted LevelIsCurrent
PROPERTIES ListOnlyGrows
