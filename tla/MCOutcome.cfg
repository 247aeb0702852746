CONSTANTS
  Jobs = {j1, j2}
  Keys = {k1}
  None = None
  Requests = {r1, r2, r3}
  Children = {c1, c2}
  Operations = {"create", "cancel", "retry"}
  Outcomes = {"ok", "error", "invalid"}
  MaxRetries = 1
  Faults = {"db_write", "retry_publish", "dlq_publish", "revoke_error"}
  MaxFaults = 1
SPECIFICATION Spec
SYMMETRY Symmetry
INVARIANTS OneOutcome StatusAtRest
PROPERTIES FinalStatusIsFinal
CHECK_DEADLOCK FALSE
