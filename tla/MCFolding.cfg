CONSTANTS
  IntBits = 5
  MaxBits = 16
  Nothing = Nothing
  Expressions <- MCExpressions
  ReplaceMap <- MCReplaceMap
  Variables <- MCVariables
  MaxWidth = 12
  Widths = {3, 7}
SPECIFICATION Spec
INVARIANTS TypeOK IntegersExact SameSignal
CHECK_DEADLOCK FALSE
