SPECIFICATION Spec
CONSTANTS
  Modulus = 3
  Fuel = 40
  Clock <- clk
  Nets <- MCNets
  Inputs <- MCInputs
  Registers <- MCRegisters
  Programs <- HijackPrograms
INVARIANTS SameRegisters
CHECK_DEADLOCK FALSE
