SPECIFICATION Spec
CONSTANTS
  Modulus = 3
  Fuel = 40
  Clock <- clk
  Nets <- MCNets
  Inputs <- MCInputs
  Registers <- MCRegisters
  Programs <- MCPrograms
INVARIANTS TypeOK SameRegisters CallsStand StorageApart
CHECK_DEADLOCK FALSE
