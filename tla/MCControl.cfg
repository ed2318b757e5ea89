CONSTANTS
  Vars = {"q", "r", "t", "x"}
  Modulus <- MCModulus
  WideModulus = 4
  Names <- MCNames
  Text <- MCText
  Program <- MCProgram
  SourceId <- MCSourceId
  NodeId <- LoweredId
  Countdown <- MCCountdown
  NoNode = NoNode
  Entry = Entry
  Hold = Hold
  Off = Off
  Inputs = {"x"}
  Temps = {"t"}
  Lengths = {60}
  Around <- MCAround
  WordBits = 4
SPECIFICATION MachineSpec
INVARIANTS MachineTypeOK Coverage EdgeCovered TempsDissolve OutputsHold CodesTellStates
PROPERTIES ExecutesTree Answered OutputsDecoded
CHECK_DEADLOCK FALSE
