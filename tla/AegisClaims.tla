---------------------------- MODULE AegisClaims -----------------------------
(***************************************************************************)
(* What the README, the comments and the tests say of the system and the   *)
(* code does not do.  Each claim is violated in a run of its own.          *)
(***************************************************************************)
EXTENDS AegisWorkers

\* "The DB should reflect COMPLETED" once the task has run (lifecycle test): but its
\* UPDATEs affect no row when the task is faster than the commit of its job.
SuccessIsReported ==
  \A j \in Jobs : Committed(j) /\ ~InFlight(j) /\ effects[kwargs[j]] > 0
                    => rows[j].status = "COMPLETED"

\* "Cancellation: PENDING -> CANCELLED" (Job): but before_start, which reads no status,
\* makes a cancelled job RUNNING when the revocation is still on its way.
CancelledIsFinal ==
  [][\A j \in Jobs : Committed(j) /\ rows[j].status = "CANCELLED"
                       => rows'[j].status = "CANCELLED"]_vars

\* Cancel "returns 409 Conflict if the job is RUNNING, COMPLETED, FAILED" (route): but the
\* UPDATE does not look at the status again, and overwrites what the worker wrote.
OnlyPendingIsCancelled ==
  [][\A j \in Jobs : /\ Committed(j)
                     /\ rows[j].status # "CANCELLED"
                     /\ rows'[j].status = "CANCELLED"
                     => rows[j].status = "PENDING"]_vars

\* "Failed-beyond-retries tasks routed to dedicated dlq queue" (README): but a task that
\* succeeded goes there too when its result cannot be stored.
DlqMeansFailed ==
  \A j \in Jobs : Committed(j) /\ rows[j].status = "DLQ" => effects[rows[j].key] = 0
=============================================================================
