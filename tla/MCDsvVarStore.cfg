SPECIFICATION Spec
CONSTANTS
  num = num
  str = str
  arr = arr
  h1 = h1
  h2 = h2
  h3 = h3
  absent = absent
  Absent = absent
  Names <- MCNamesText
  TypeOf <- MCTypeOf
  Data = {0, 1}
  Handles <- MCHandles2
  MaxLen = 1
  MaxDisk = 2
CHECK_DEADLOCK FALSE
SYMMETRY MCHandleSymmetry
INVARIANT CleanIsSaved
PROPERTIES SavedKept StoreSpec
