SPECIFICATION Spec
CONSTANTS
  a = a
  b = b
  r1 = r1
  r2 = r2
  None = None
  Keys <- MCKeys
  Types <- MCTypes
  Specs <- MCSpecs
  Cols <- MCCols
  Rows <- MCRows
  FullReprocess = TRUE
  MaxChanges = 3
  MaxInterruptions = 2
SYMMETRY Symmetry
INVARIANTS SettledTableMatches SettledRowsMatch
PROPERTY UserTableIsLeftAlone
CHECK_DEADLOCK FALSE
