CONSTANTS
  A = A
  B = B
  Header = Header
  NoMacro = NoMacro
  Macros = {A, B}
  Predefined = {B}
  Text <- MCText
  Items <- MCItems
  BodyItems <- MCBodyItems
  MaxDepth = 2
  MaxInclude = 3
  MaxNest = 2
  MaxBranches = 3
  MaxBody = 1
  SharedLines = FALSE
SPECIFICATION Spec
INVARIANTS TypeOK EmitsWhatStands DepthCapped UnterminatedReported
PROPERTIES SkippedHasNoEffect ExpansionsEnd
CHECK_DEADLOCK FALSE
