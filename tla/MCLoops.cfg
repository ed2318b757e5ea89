CONSTANTS
  Vars = {"c", "d", "q", "x"}
  Modulus <- MCModulus
  WideModulus = 4
  Names <- MCNames
  Text <- MCText
  Program <- MCProgram
  SourceId <- MCSourceId
  NodeId <- LoweredId
  Countdown <- MCCountdown
  NoNode = NoNode
  Entry = Entry
  Hold = Hold
  Off = Off
  Inputs = {"x"}
  Temps = {}
  Lengths = {60}
  Around <- MCAround
  WordBits = 4
SPECIFICATION MachineSpec
PROPERTIES CompilesExactly
CHECK_DEADLOCK FALSE
