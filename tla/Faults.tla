------------------------------- MODULE Faults -------------------------------
(***************************************************************************)
(* The failures of the environment that a configuration lets happen: lost  *)
(* replies, crashes, redeliveries, evictions.  The two uvicorn processes,  *)
(* the four children of the one Celery worker, Redis and Postgres are the  *)
(* containers of docker-compose.yml; each kind of fault below is an error  *)
(* path of the code that calls them, or a guarantee it relies on.          *)
(***************************************************************************)
EXTENDS Naturals

CONSTANTS Faults,      \* the kinds of fault that may happen
          MaxFaults    \* BOUND: how many of them may happen in one behaviour

FaultKinds ==
  { "api_crash",        \* an API process dies, or its client goes away
    "send_error",       \* send_task raises
    "commit_error",     \* the commit raises
    "revoke_error",     \* control.revoke raises
    "db_write",         \* the worker's UPDATE raises
    "cache_error",      \* a command on the idempotency cache raises
    "cache_evict",      \* an idempotency key expires or is evicted
    "retry_publish",    \* Task.retry cannot publish the next attempt
    "dlq_publish",      \* the message to the dlq queue cannot be published
    "redeliver",        \* the visibility timeout passes while a task runs
    "child_lost",       \* a child process of the worker is killed
    "restart",          \* the whole worker is restarted
    "queue_evict" }     \* Redis evicts the list that is the default queue

ASSUME FaultsAssumption == Faults \subseteq FaultKinds /\ MaxFaults \in Nat

VARIABLE faults        \* how many faults have happened

FaultsTypeOK == faults \in 0..MaxFaults

\* One more fault of this kind.
Fault(kind) == /\ kind \in Faults
               /\ faults < MaxFaults
               /\ faults' = faults + 1

NoFault == UNCHANGED faults
=============================================================================
