CONSTANTS
  Vars = {"n", "q", "r", "x"}
  Modulus <- InexactModulus
  WideModulus = 4
  Names <- InexactNames
  Text <- InexactText
  Program <- InexactProgram
  SourceId <- MCSourceId
  NodeId <- LoweredId
  Countdown <- InexactCountdown
  NoNode = NoNode
  Entry = Entry
  Hold = Hold
  Off = Off
  Inputs = {"x"}
  Temps = {}
  Lengths = {60}
  Around <- InexactAround
  WordBits = 4
SPECIFICATION MachineSpec
PROPERTIES CompilesExactly
CHECK_DEADLOCK FALSE
