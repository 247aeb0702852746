CONSTANTS
  Jobs = {j1}
  Keys = {k1}
  None = None
  Requests = {r1, r2}
  Children = {c1}
  Operations = {"create", "cancel"}
  Outcomes = {"ok"}
  MaxRetries = 0
  Faults = {}
  MaxFaults = 0
SPECIFICATION Spec
PROPERTIES OnlyPendingIsCancelled
CHECK_DEADLOCK FALSE
