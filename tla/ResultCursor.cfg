CONSTANTS
  c1 = c1  c2 = c2  r = r  s = s
  Cursors <- MCCursors
  Rows <- MCRows
  Size <- MCSize
  MaxRows = 2
  None = None
SPECIFICATION FairSpec
CHECK_DEADLOCK FALSE
INVARIANTS
  ConnectionOutlivesResults
  WireOwned
PROPERTIES
  ImplementsResultSet
  ConnectionFreed
