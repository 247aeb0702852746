CONSTANTS
  Jobs = {j1}
  Keys = {k1}
  None = None
  Requests = {r1}
  Children = {c1}
  Operations = {"create"}
  Outcomes = {"ok"}
  MaxRetries = 0
  Faults = {}
  MaxFaults = 0
SPECIFICATION Spec
INVARIANTS SuccessIsReported
CHECK_DEADLOCK FALSE
