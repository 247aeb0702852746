------------------------------- MODULE Broker -------------------------------
(***************************************************************************)
(* Redis, as Celery and the tasks use it: the default queue, the dlq       *)
(* queue, the broadcast that revokes a task, and the cache of results by   *)
(* idempotency key.                                                        *)
(*                                                                         *)
(* The task id of a job's message never changes over its retries, so a     *)
(* message is a job and a number of retries.  A message with a countdown   *)
(* is in the queue with the others: it may be delivered at any later time. *)
(***************************************************************************)
EXTENDS JobTable

CONSTANT MaxRetries    \* BaseTask.max_retries

ASSUME BrokerAssumption == MaxRetries \in Nat

VARIABLES
  queue,      \* queue[j][n]: how many messages of job j with n retries wait
  kwargs,     \* the idempotency_key sent with the messages of job j, if any was sent
  dlq,        \* how many messages about job j are in the dlq queue
  revoking,   \* the jobs whose revocation is broadcast and not yet received
  revoked,    \* the jobs the worker process remembers as revoked
  cache       \* the idempotency keys with a stored result

brokerVars == <<queue, kwargs, dlq, revoking, revoked, cache>>

Attempts == 0..MaxRetries

BrokerTypeOK == /\ queue \in [Jobs -> [Attempts -> Nat]]
                /\ kwargs \in [Jobs -> AllKeys \cup {None}]
                /\ dlq \in [Jobs -> Nat]
                /\ revoking \subseteq Jobs
                /\ revoked \subseteq Jobs
                /\ cache \subseteq AllKeys

Published(j) == kwargs[j] # None
Queued(j) == \E n \in Attempts : queue[j][n] > 0

\* The queues after a message more, or one less.
Enqueue(j, n) == queue' = [queue EXCEPT ![j][n] = @ + 1]
Dequeue(j, n) == /\ queue[j][n] > 0
                 /\ queue' = [queue EXCEPT ![j][n] = @ - 1]

\* celery_app.send_task(name, kwargs={job_id, idempotency_key, ...}, queue=default)
SendTask(j, key) == /\ kwargs' = [kwargs EXCEPT ![j] = key]
                    /\ Enqueue(j, 0)

BrokerInit == /\ queue = [j \in Jobs |-> [n \in Attempts |-> 0]]
              /\ kwargs = [j \in Jobs |-> None]
              /\ dlq = [j \in Jobs |-> 0]
              /\ revoking = {}
              /\ revoked = {}
              /\ cache = {}
=============================================================================
