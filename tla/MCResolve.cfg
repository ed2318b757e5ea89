CONSTANTS
  Vars <- MCVars
  Modulus <- MCModulus
  Fuel = 8
  Cap = 4
  Target = "f"
  Ports = {"y"}
  Initials <- MCInitials
  Functions <- MCFunctions
  Stores <- MCStores
SPECIFICATION Spec
INVARIANTS SameMeaning JumpsStayInLoops CertifiedExact NeverInconsistent DeadcodeEnds
CHECK_DEADLOCK FALSE
