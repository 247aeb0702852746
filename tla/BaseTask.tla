------------------------------ MODULE BaseTask ------------------------------
(***************************************************************************)
(* The worker: the child processes of the Celery worker, each running the  *)
(* life of a BaseTask task from the delivery of its message to the         *)
(* acknowledgement, which comes last (task_acks_late).  A child stops at   *)
(* every call to Postgres and Redis, where the others go on.               *)
(*                                                                         *)
(* Celery itself is external: that it calls before_start, run and then one *)
(* of the hooks, that an exception of run that is not a ValidationError is *)
(* retried until the retries are used up (autoretry_for), that a hook that *)
(* raises makes the task a failed one, and that the message of a lost      *)
(* child is queued again (task_reject_on_worker_lost).                     *)
(***************************************************************************)
EXTENDS Broker, Faults, FiniteSets

CONSTANTS Children,    \* the child processes of the worker (--concurrency)
          Outcomes     \* how execute(), which the task overrides, may end

ASSUME TaskAssumption == /\ IsFiniteSet(Children)
                         /\ Outcomes \subseteq {"ok", "error", "invalid"}

VARIABLES
  run,       \* what each child is doing
  effects,   \* HISTORY: how many times execute() succeeded under each key
  fates      \* HISTORY: the other ways a message of each job came to its end

workerVars == <<rows, queue, kwargs, dlq, revoking, revoked, cache, faults,
                run, effects, fates>>

IdleChild == [ pc |-> "idle", job |-> None, retries |-> 0,
               restored |-> FALSE, again |-> FALSE ]

Child == [ pc : { "idle", "before_start", "check", "execute", "retry", "on_success",
                  "store", "send_to_dlq", "failed", "dlq", "ack" },
           job : Jobs \cup {None},
           retries : Attempts,       \* request.retries
           restored : BOOLEAN,       \* its message was queued again meanwhile
           again : BOOLEAN ]         \* on_failure will be called once more

Fates == {"dlq", "revoked", "dropped"}

TaskTypeOK == /\ run \in [Children -> Child]
              /\ effects \in [AllKeys -> Nat]
              /\ fates \in [Jobs -> SUBSET Fates]

TaskInit == /\ run = [c \in Children |-> IdleChild]
            /\ effects = [key \in AllKeys |-> 0]
            /\ fates = [j \in Jobs |-> {}]

Busy(c) == run[c].pc # "idle"
JobOf(c) == run[c].job
KeyOf(c) == kwargs[run[c].job]
Goto(c, pc) == run' = [run EXCEPT ![c].pc = pc]
Release(c) == run' = [run EXCEPT ![c] = IdleChild]
Ended(j, fate) == fates' = [fates EXCEPT ![j] = @ \cup {fate}]

-----------------------------------------------------------------------------
\* Delivery.  A message of a task that the worker knows as revoked is
\* acknowledged and forgotten: none of the hooks is called.

\* VARIANT, for the mutation runs: the message stays in the queue.
DeliverCopy(c, j, n) ==
  /\ ~Busy(c)
  /\ queue[j][n] > 0
  /\ j \notin revoked
  /\ run' = [run EXCEPT ![c] = [IdleChild EXCEPT !.pc = "before_start",
                                                 !.job = j, !.retries = n]]
  /\ UNCHANGED <<rows, brokerVars, faults, effects, fates>>

Deliver(c, j, n) ==
  /\ ~Busy(c)
  /\ j \notin revoked
  /\ Dequeue(j, n)
  /\ run' = [run EXCEPT ![c] = [IdleChild EXCEPT !.pc = "before_start",
                                                 !.job = j, !.retries = n]]
  /\ UNCHANGED <<rows, kwargs, dlq, revoking, revoked, cache, faults, effects, fates>>

DiscardRevoked(j, n) ==
  /\ j \in revoked
  /\ Dequeue(j, n)
  /\ Ended(j, "revoked")
  /\ UNCHANGED <<rows, kwargs, dlq, revoking, revoked, cache, faults, run, effects>>

RevokeArrives(j) ==
  /\ j \in revoking
  /\ revoking' = revoking \ {j}
  /\ revoked' = revoked \cup {j}
  /\ UNCHANGED <<rows, queue, kwargs, dlq, cache, faults, run, effects, fates>>

-----------------------------------------------------------------------------
\* _update_job_status: every exception is caught and logged, the task goes on.
UpdateJobStatus(c, s, n) == \/ UpdateJob(JobOf(c), s, n) /\ NoFault
                            \/ UNCHANGED rows /\ Fault("db_write")

\* before_start: RUNNING, on every attempt and before the cache is looked at.
BeforeStart(c) ==
  /\ run[c].pc = "before_start"
  /\ UpdateJobStatus(c, "RUNNING", 1)
  /\ Goto(c, "check")
  /\ UNCHANGED <<brokerVars, effects, fates>>

\* Where an exception of run() leads: a retry, or on_failure when none is left.
RetryOrFail(c) == Goto(c, IF run[c].retries < MaxRetries THEN "retry" ELSE "send_to_dlq")

\* VARIANT, for the mutation runs: the key is stored before the task runs.
CheckAndReserve(c) ==
  /\ run[c].pc = "check"
  /\ Goto(c, IF KeyOf(c) \in cache THEN "on_success" ELSE "execute")
  /\ cache' = cache \cup {KeyOf(c)}
  /\ UNCHANGED <<rows, queue, kwargs, dlq, revoking, revoked, faults, effects, fates>>

\* _check_idempotency: on a hit run() returns the cached result.
CheckIdempotency(c) ==
  /\ run[c].pc = "check"
  /\ \/ /\ Goto(c, IF KeyOf(c) \in cache THEN "on_success" ELSE "execute")
        /\ NoFault
     \/ Fault("cache_error") /\ RetryOrFail(c)
  /\ UNCHANGED <<rows, brokerVars, effects, fates>>

\* A ValidationError makes run() call on_failure itself and raise: Celery then
\* calls it once more.
Execute(c) ==
  /\ run[c].pc = "execute"
  /\ \/ /\ "ok" \in Outcomes
        /\ effects' = [effects EXCEPT ![KeyOf(c)] = @ + 1]
        /\ Goto(c, "on_success")
     \/ /\ "error" \in Outcomes
        /\ RetryOrFail(c)
        /\ UNCHANGED effects
     \/ /\ "invalid" \in Outcomes
        /\ run' = [run EXCEPT ![c].pc = "send_to_dlq", ![c].again = TRUE]
        /\ UNCHANGED effects
  /\ UNCHANGED <<rows, brokerVars, faults, fates>>

\* VARIANT, for the mutation runs: the number of retries is not counted up.
RetryUncounted(c) ==
  /\ run[c].pc = "retry"
  /\ Enqueue(JobOf(c), run[c].retries)
  /\ Goto(c, "ack")
  /\ UNCHANGED <<rows, kwargs, dlq, revoking, revoked, cache, faults, effects, fates>>

\* VARIANT, for the mutation runs: on_failure is called for every retry.
RetryAndFail(c) ==
  /\ run[c].pc = "retry"
  /\ Enqueue(JobOf(c), run[c].retries + 1)
  /\ Goto(c, "send_to_dlq")
  /\ UNCHANGED <<rows, kwargs, dlq, revoking, revoked, cache, faults, effects, fates>>

\* self.retry publishes the next attempt, then the message is acknowledged.
Retry(c) ==
  /\ run[c].pc = "retry"
  /\ Enqueue(JobOf(c), run[c].retries + 1)
  /\ Goto(c, "ack")
  /\ UNCHANGED <<rows, kwargs, dlq, revoking, revoked, cache, faults, effects, fates>>

\* When it cannot, Celery rejects the message without requeue: no hook is called.
RetryLost(c) ==
  /\ run[c].pc = "retry"
  /\ Fault("retry_publish")
  /\ Goto(c, "ack")
  /\ Ended(JobOf(c), "dropped")
  /\ UNCHANGED <<rows, brokerVars, effects>>

-----------------------------------------------------------------------------
\* on_success: COMPLETED, then the result is stored under the key.

OnSuccess(c) ==
  /\ run[c].pc = "on_success"
  /\ UpdateJobStatus(c, "COMPLETED", 0)
  /\ Goto(c, "store")
  /\ UNCHANGED <<brokerVars, effects, fates>>

\* setex is not guarded: when it raises, Celery calls on_failure.
StoreIdempotencyResult(c) ==
  /\ run[c].pc = "store"
  /\ \/ cache' = cache \cup {KeyOf(c)} /\ Goto(c, "ack") /\ NoFault
     \/ UNCHANGED cache /\ Goto(c, "send_to_dlq") /\ Fault("cache_error")
  /\ UNCHANGED <<rows, queue, kwargs, dlq, revoking, revoked, effects, fates>>

-----------------------------------------------------------------------------
\* on_failure: the dlq message (a failure to send it is caught), FAILED, DLQ.

SendToDlq(c) ==
  /\ run[c].pc = "send_to_dlq"
  /\ \/ dlq' = [dlq EXCEPT ![JobOf(c)] = @ + 1] /\ NoFault
     \/ UNCHANGED dlq /\ Fault("dlq_publish")
  /\ Goto(c, "failed")
  /\ UNCHANGED <<rows, queue, kwargs, revoking, revoked, cache, effects, fates>>

MarkFailed(c) ==
  /\ run[c].pc = "failed"
  /\ UpdateJobStatus(c, "FAILED", 0)
  /\ Goto(c, "dlq")
  /\ UNCHANGED <<brokerVars, effects, fates>>

\* VARIANT, for the mutation runs: FAILED is written last.
MarkFailedLast(c) ==
  /\ run[c].pc = "dlq"
  /\ UpdateJobStatus(c, "FAILED", 0)
  /\ Goto(c, "ack")
  /\ Ended(JobOf(c), "dlq")
  /\ UNCHANGED <<brokerVars, effects>>

MarkDlq(c) ==
  /\ run[c].pc = "dlq"
  /\ UpdateJobStatus(c, "DLQ", 0)
  /\ IF run[c].again
     THEN run' = [run EXCEPT ![c].pc = "send_to_dlq", ![c].again = FALSE]
     ELSE Goto(c, "ack")
  /\ Ended(JobOf(c), "dlq")
  /\ UNCHANGED <<brokerVars, effects>>

Ack(c) ==
  /\ run[c].pc = "ack"
  /\ Release(c)
  /\ UNCHANGED <<rows, brokerVars, faults, effects, fates>>

\* The same worker consumes the dlq queue: dlq_receive logs the message, no more.
DlqReceive(c, j) ==
  /\ ~Busy(c)
  /\ dlq[j] > 0
  /\ dlq' = [dlq EXCEPT ![j] = @ - 1]
  /\ UNCHANGED <<rows, queue, kwargs, revoking, revoked, cache, faults, run,
                 effects, fates>>

-----------------------------------------------------------------------------
\* Failures of the worker and of Redis.

\* The visibility timeout passes: the message is queued again, the child goes on.
Redeliver(c) ==
  /\ Busy(c) /\ ~run[c].restored
  /\ Fault("redeliver")
  /\ Enqueue(JobOf(c), run[c].retries)
  /\ run' = [run EXCEPT ![c].restored = TRUE]
  /\ UNCHANGED <<rows, kwargs, dlq, revoking, revoked, cache, effects, fates>>

\* VARIANT, for the mutation runs: without task_reject_on_worker_lost.
ChildLostForgotten(c) ==
  /\ Busy(c)
  /\ Fault("child_lost")
  /\ Release(c)
  /\ UNCHANGED <<rows, brokerVars, effects, fates>>

ChildLost(c) ==
  /\ Busy(c)
  /\ Fault("child_lost")
  /\ Release(c)
  /\ IF run[c].restored THEN UNCHANGED queue ELSE Enqueue(JobOf(c), run[c].retries)
  /\ UNCHANGED <<rows, kwargs, dlq, revoking, revoked, cache, effects, fates>>

\* The children whose message goes back to the queue as job j with n retries.
Unacked(j, n) == {c \in Children : /\ Busy(c) /\ ~run[c].restored
                                   /\ JobOf(c) = j /\ run[c].retries = n}

\* VARIANT, for the mutation runs: without task_acks_late.
RestartForgets ==
  /\ Fault("restart")
  /\ run' = [c \in Children |-> IdleChild]
  /\ revoking' = {}
  /\ revoked' = {}
  /\ UNCHANGED <<rows, queue, kwargs, dlq, cache, effects, fates>>

\* The revoked ids are in the memory of the worker, a broadcast is not kept for it.
WorkerRestart ==
  /\ Fault("restart")
  /\ queue' = [j \in Jobs |-> [n \in Attempts |->
                                 queue[j][n] + Cardinality(Unacked(j, n))]]
  /\ run' = [c \in Children |-> IdleChild]
  /\ revoking' = {}
  /\ revoked' = {}
  /\ UNCHANGED <<rows, kwargs, dlq, cache, effects, fates>>

CacheEvict(key) ==
  /\ key \in cache
  /\ Fault("cache_evict")
  /\ cache' = cache \ {key}
  /\ UNCHANGED <<rows, queue, kwargs, dlq, revoking, revoked, run, effects, fates>>

QueueEvict ==
  /\ Fault("queue_evict")
  /\ queue' = [j \in Jobs |-> [n \in Attempts |-> 0]]
  /\ UNCHANGED <<rows, kwargs, dlq, revoking, revoked, cache, run, effects, fates>>

-----------------------------------------------------------------------------
HookStep(c) == \/ BeforeStart(c) \/ CheckIdempotency(c) \/ Execute(c) \/ Retry(c)
               \/ OnSuccess(c) \/ StoreIdempotencyResult(c)
               \/ SendToDlq(c) \/ MarkFailed(c) \/ MarkDlq(c) \/ Ack(c)

WorkerStep(c) == \/ HookStep(c)
                 \/ \E j \in Jobs : \/ DlqReceive(c, j)
                                    \/ \E n \in Attempts : Deliver(c, j, n)

WorkerFault(c) == RetryLost(c) \/ Redeliver(c) \/ ChildLost(c)

ProcessStep(j) == \/ RevokeArrives(j)
                  \/ \E n \in Attempts : DiscardRevoked(j, n)

PlatformFault == \/ WorkerRestart
                 \/ QueueEvict
                 \/ \E key \in AllKeys : CacheEvict(key)

WorkerNext == \/ \E c \in Children : WorkerStep(c) \/ WorkerFault(c)
              \/ \E j \in Jobs : ProcessStep(j)
              \/ PlatformFault
=============================================================================
