------------------------------ MODULE JobTable ------------------------------
(***************************************************************************)
(* The jobs table of Postgres, as committed.  A row that an open           *)
(* transaction has inserted is not in it: only that transaction sees it.   *)
(***************************************************************************)
EXTENDS Naturals

CONSTANTS Jobs,        \* the job ids (uuid4) that may be drawn
          Keys,        \* the idempotency keys that clients send
          None         \* no row, no job, no key

VARIABLE rows

\* A job made by the retry endpoint has a key of its own, "dlq-retry-<uuid>",
\* which no client sends: the id of that job stands for it.
AllKeys == Keys \cup Jobs

JobStatus == {"PENDING", "RUNNING", "COMPLETED", "FAILED", "CANCELLED", "DLQ"}

Job == [ key : AllKeys, status : JobStatus, execution_count : Nat,
         parent : Jobs \cup {None}, retry_count : Nat ]

ASSUME JobTableAssumption == /\ Jobs \cap Keys = {}
                             /\ None \notin Jobs \cup Keys
                             /\ None \notin Job

JobTableTypeOK == rows \in [Jobs -> Job \cup {None}]

Committed(j) == rows[j] # None

\* VARIANT, for the mutation runs: a status that is none of JobStatus.
NewJobQueued(key, parent, retry_count) ==
  [ key |-> key, status |-> "QUEUED", execution_count |-> 0,
    parent |-> parent, retry_count |-> retry_count ]

\* The row the model's defaults give a new job.
NewJob(key, parent, retry_count) ==
  [ key |-> key, status |-> "PENDING", execution_count |-> 0,
    parent |-> parent, retry_count |-> retry_count ]

\* SELECT ... WHERE idempotency_key = key
WithKey(key) == {j \in Jobs : Committed(j) /\ rows[j].key = key}

\* UPDATE jobs SET status = s, execution_count = execution_count + n WHERE id = j:
\* it has no condition on the status it replaces, and affects no row when the
\* insertion of j is not committed.
UpdateJob(j, s, n) ==
  rows' = IF Committed(j)
          THEN [rows EXCEPT ![j].status = s, ![j].execution_count = @ + n]
          ELSE rows
=============================================================================
