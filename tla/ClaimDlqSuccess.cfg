CONSTANTS
  Jobs = {j1}
  Keys = {k1}
  None = None
  Requests = {r1}
  Children = {c1}
  Operations = {"create"}
  Outcomes = {"ok"}
  MaxRetries = 0
  Faults = {"cache_error"}
  MaxFaults = 1
SPECIFICATION Spec
INVARIANTS DlqMeansFailed
CHECK_DEADLOCK FALSE
