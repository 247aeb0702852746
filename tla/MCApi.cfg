CONSTANTS
  Jobs = {j1, j2}
  Keys = {k1}
  None = None
  Requests = {r1, r2, r3}
  Children = {c1, c2}
  Operations = {"create", "retry"}
  Outcomes = {"ok", "error"}
  MaxRetries = 0
  Faults = {"api_crash", "send_error", "commit_error", "queue_evict", "redeliver"}
  MaxFaults = 2
SPECIFICATION Spec
SYMMETRY Symmetry
INVARIANTS TypeOK SubmitIsIdempotent CommittedWasPublished LineageIsSound DuplicatesNeedFaults
CHECK_DEADLOCK FALSE
