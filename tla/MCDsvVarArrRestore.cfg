SPECIFICATION Spec
CONSTANTS
  num = num
  str = str
  arr = arr
  h1 = h1
  h2 = h2
  h3 = h3
  absent = absent
  Absent = absent
  Names <- MCNamesArr
  TypeOf <- MCTypeOf
  Data = {0, 1}
  Handles <- MCHandles2
  MaxLen = 2
  MaxDisk = 2
CHECK_DEADLOCK FALSE
PROPERTY RestoreDefined
