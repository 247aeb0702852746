CONSTANTS
  Jobs = {j1, j2}
  Keys = {k1}
  None = None
  Requests = {r1, r2}
  Children = {c1}
  Operations = {"create", "cancel", "retry"}
  Outcomes = {"ok", "error", "invalid"}
  MaxRetries = 1
  Faults = {"redeliver", "child_lost", "restart", "api_crash", "cache_error", "commit_error", "send_error", "revoke_error", "db_write", "retry_publish", "dlq_publish", "cache_evict"}
  MaxFaults = 1
SPECIFICATION FairSpec
INVARIANTS AtLeastOnce SuccessIsReal RetriesAreBounded
PROPERTIES JobsAreDelivered EveryJobSettles EveryRequestEnds
CHECK_DEADLOCK FALSE
