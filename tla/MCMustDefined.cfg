CONSTANTS
  NumStates = 4
  Hold = Hold
  Reg <- MCReg
  Graphs <- MCGraphs
SPECIFICATION Spec
INVARIANTS TypeOK NoUndefinedRead RefusedRightly
PROPERTIES Decided
CHECK_DEADLOCK FALSE
