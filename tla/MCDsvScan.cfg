SPECIFICATION FairSpec
CONSTANTS
  a = a
  b = b
  c = c
  reader = reader
  tracker = tracker
  Names = {a, b, c}
  Scanners = {reader, tracker}
  Job <- MCJob
  Match <- MCMatch
  GrowAt = {2}
  MaxScans = 3
CHECK_DEADLOCK FALSE
INVARIANTS ScanInv ScanOnce TrackComplete
PROPERTY ScanEnds
