---------------------------- MODULE AegisWorkers ----------------------------
(***************************************************************************)
(* The whole system: requests to the API and children of the worker that   *)
(* meet only in Postgres and Redis.                                        *)
(***************************************************************************)
EXTENDS JobService, BaseTask

vars == <<rows, queue, kwargs, dlq, revoking, revoked, cache, faults,
          req, run, effects, fates>>

TypeOK == /\ JobTableTypeOK
          /\ BrokerTypeOK
          /\ FaultsTypeOK
          /\ ServiceTypeOK
          /\ TaskTypeOK

Init == /\ rows = [j \in Jobs |-> None]
        /\ BrokerInit
        /\ faults = 0
        /\ ServiceInit
        /\ TaskInit

Api(r) == ServiceNext(r) /\ UNCHANGED <<dlq, revoked, cache, run, effects, fates>>

Worker == WorkerNext /\ UNCHANGED req

Next == (\E r \in Requests : Api(r)) \/ Worker

Spec == Init /\ [][Next]_vars

-----------------------------------------------------------------------------
(* What a message of j has led to, and who still owes j something.         *)

\* The effect took place under the key of j, or j ended in another known way.
Settled(j) == Published(j) /\ (effects[kwargs[j]] > 0 \/ fates[j] # {})

\* A child works on j, and Redis would queue the message again if it died.
HeldBy(c, j) == Busy(c) /\ JobOf(c) = j /\ ~run[c].restored

InFlight(j) == Queued(j) \/ \E c \in Children : Busy(c) /\ JobOf(c) = j

-----------------------------------------------------------------------------
(* Safety.                                                                 *)

\* At-least-once delivery (task_acks_late, task_reject_on_worker_lost): whatever
\* crashes, times out or is sent twice, a published job is waiting, or in the hands
\* of a child that has not finished it and whose death would requeue it, or settled:
\* done, failed through on_failure, discarded as revoked, or dropped with its retry.
AtLeastOnce ==
  \A j \in Jobs : Published(j) =>
    \/ Queued(j)
    \/ \E c \in Children : HeldBy(c, j) /\ run[c].pc # "ack"
    \/ Settled(j)

\* A row says COMPLETED, and a result is cached, only when execute() really succeeded
\* under that key, in whatever order retries, duplicates and crashes fall.
SuccessIsReal ==
  /\ \A j \in Jobs : Committed(j) /\ rows[j].status = "COMPLETED"
                       => effects[rows[j].key] > 0
  /\ \A key \in cache : effects[key] > 0

\* send_task comes before the commit: there is no committed job whose message was
\* never published, and the message carries the key of the row.
CommittedWasPublished ==
  \A j \in Jobs : Committed(j) => kwargs[j] = rows[j].key

\* Two requests to create with one key that both succeed, with 200 or 201, name the
\* same job, however they race between the SELECT, the INSERT and the commit.
SubmitIsIdempotent ==
  \A r1, r2 \in Requests :
    /\ {req[r1].code, req[r2].code} \subseteq {200, 201}
    /\ req[r1].op = "create" /\ req[r2].op = "create"
    /\ req[r1].key = req[r2].key
    => /\ req[r1].job = req[r2].job
       /\ Committed(req[r1].job)

\* A job made by the retry endpoint descends from a committed job that did go through
\* on_failure, one generation younger: lineages do not skip, fork from nothing or loop.
LineageIsSound ==
  \A j \in Jobs : Committed(j) /\ rows[j].parent # None =>
    LET p == rows[j].parent
    IN  /\ Committed(p)
        /\ rows[j].retry_count = rows[p].retry_count + 1
        /\ "dlq" \in fates[p]

\* Bounded retries (max_retries): each fault adds at most one more series of attempts to
\* the first; no reordering of retries and duplicates makes execution_count exceed that.
\* A restart is one fault that repeats the work of every child: checked with one.
RetriesAreBounded ==
  \A j \in Jobs : Committed(j) =>
    rows[j].execution_count <= (MaxRetries + 1) * (1 + faults)

\* Exactly once as far as the environment allows: a key has one effect, and one more
\* at most for each fault, even when several jobs or several messages carry it.
DuplicatesNeedFaults == \A key \in AllKeys : effects[key] <= 1 + faults

\* Without faults that repeat a message, a job comes to one end only: in particular a
\* job offered for a retry from the DLQ has had no effect, nor has a revoked one.
OneOutcome ==
  \A j \in Jobs : Published(j) =>
    /\ Cardinality(fates[j]) <= 1
    /\ effects[kwargs[j]] > 0 => fates[j] = {}

\* With no fault and no cancellation so far.
Undisturbed == faults = 0 /\ \A r \in Requests : req[r].op # "cancel"

\* When nothing is left to do for a committed job, its row tells what became of it, or
\* still says PENDING because all was over before the commit: never RUNNING or FAILED.
StatusAtRest ==
  Undisturbed => \A j \in Jobs : Committed(j) /\ ~InFlight(j) =>
    rows[j].status \in {"PENDING", IF effects[kwargs[j]] > 0 THEN "COMPLETED" ELSE "DLQ"}

\* COMPLETED and DLQ are final while nothing is cancelled and no fault occurs, but for the
\* second call of on_failure after a ValidationError, which goes through FAILED again.
FinalStatusIsFinal ==
  [][Undisturbed' => \A j \in Jobs :
       Committed(j) /\ rows[j].status \in {"COMPLETED", "DLQ"} =>
         \/ rows'[j] = rows[j]
         \/ rows'[j] = [rows[j] EXCEPT !.status = "FAILED"] /\ fates[j] = {"dlq"}]_vars

-----------------------------------------------------------------------------
(* The promise to the clients, which the system implements.                *)

Answered == {req[r].job : r \in {r \in Requests : /\ req[r].op \in {"create", "retry"}
                                                  /\ req[r].code \in {200, 201}}}

Promise == INSTANCE Delivery WITH
             Keys <- AllKeys, Ends <- Fates, keyOf <- kwargs,
             open <- {j \in Jobs : InFlight(j)}, answered <- Answered

\* Between submission and its end a job is never out of the system's hands, a job that
\* is over is never taken up again, whatever is redelivered, and no client is told of a
\* job that was not submitted; as long as Redis does not evict the queue.
JobsAreDelivered == Promise!Spec

-----------------------------------------------------------------------------
(* Liveness.  Children and API processes do not stop for ever while they   *)
(* have something to do, and the worker reads its broadcasts: asyncio and  *)
(* the prefork pool schedule them all.  Clients need not make any request, *)
(* and no fault need happen.                                               *)

Fairness == /\ \A r \in Requests : WF_vars(ServiceStep(r) /\ Api(r))
            /\ \A c \in Children : WF_vars(WorkerStep(c) /\ UNCHANGED req)
            /\ \A j \in Jobs : WF_vars(ProcessStep(j) /\ UNCHANGED req)

FairSpec == Spec /\ Fairness

\* Every published job is settled for good in the end, whatever faults happened.
EveryJobSettles == \A j \in Jobs : Published(j) ~> (Settled(j) /\ ~InFlight(j))

\* Every request ends, also one whose INSERT waits for that of another.
EveryRequestEnds == \A r \in Requests : req[r].pc # "idle" ~> req[r].pc = "done"
=============================================================================
