SPECIFICATION Spec
CONSTANTS
  a = a
  b = b
  Names = {a, b}
  Outline <- TwoPhases
  Executors = {e1, e2}
  MaxInt = 3
  MaxDec = 1
  MaxPlans = 1
  MaxOps = 2
  MaxWork = 2
  MaxFaults = 1
SYMMETRY Symmetry
PROPERTIES RemovalRenumbersByOne
CHECK_DEADLOCK FALSE
