---------------------------- MODULE AegisProofs -----------------------------
(***************************************************************************)
(* Theorems about AegisWorkers, for all sets of jobs, keys, requests and   *)
(* children, any max_retries and any number of faults.                     *)
(***************************************************************************)
EXTENDS AegisWorkers, TLAPS, FiniteSetTheorems

-----------------------------------------------------------------------------
(* Types.                                                                  *)

LEMMA NewJobType ==
  ASSUME NEW key \in AllKeys, NEW parent \in Jobs \cup {None}, NEW n \in Nat
  PROVE  NewJob(key, parent, n) \in Job /\ NewJob(key, parent, n).status = "PENDING"
  BY DEF NewJob, Job, JobStatus

LEMMA RowUpdateType ==
  ASSUME NEW row \in Job, NEW s \in JobStatus, NEW n \in Nat
  PROVE  [row EXCEPT !.status = s, !.execution_count = n] \in Job
  BY DEF Job

LEMMA UpdateJobType ==
  ASSUME JobTableTypeOK, NEW j \in Jobs, NEW s \in JobStatus, NEW n \in Nat,
         UpdateJob(j, s, n)
  PROVE  JobTableTypeOK'
<1>1. CASE ~Committed(j)
  BY <1>1 DEF UpdateJob, JobTableTypeOK
<1>2. CASE Committed(j)
  <2>1. rows[j] \in Job
    BY <1>2 DEF JobTableTypeOK, Committed
  <2>2. [rows[j] EXCEPT !.status = s, !.execution_count = @ + n] \in Job
    <3>1. rows[j].execution_count + n \in Nat
      BY <2>1 DEF Job
    <3>2. QED
      BY <2>1, <3>1, RowUpdateType
  <2>3. rows' = [rows EXCEPT ![j] = [rows[j] EXCEPT !.status = s,
                                                    !.execution_count = @ + n]]
    BY <1>2, <2>1 DEF UpdateJob, JobTableTypeOK
  <2>4. QED
    BY <2>2, <2>3 DEF JobTableTypeOK
<1>3. QED
  BY <1>1, <1>2

LEMMA RespondType ==
  ASSUME ServiceTypeOK, NEW r \in Requests, NEW code \in Codes \cup {None},
         NEW job \in Jobs \cup {None}, Respond(r, code, job)
  PROVE  ServiceTypeOK'
  BY ZenonT(60) DEF Respond, ServiceTypeOK, Request

LEMMA StepType ==
  ASSUME ServiceTypeOK, NEW r \in Requests,
         NEW pc \in {"idle", "flush", "send", "commit", "revoke", "update", "done"},
         Step(r, pc)
  PROVE  ServiceTypeOK'
  BY DEF Step, ServiceTypeOK, Request

LEMMA EnqueueType ==
  ASSUME queue \in [Jobs -> [Attempts -> Nat]], NEW j \in Jobs, NEW n \in Attempts,
         Enqueue(j, n)
  PROVE  queue' \in [Jobs -> [Attempts -> Nat]]
  BY DEF Enqueue

LEMMA DequeueType ==
  ASSUME queue \in [Jobs -> [Attempts -> Nat]], NEW j \in Jobs, NEW n \in Attempts,
         Dequeue(j, n)
  PROVE  queue' \in [Jobs -> [Attempts -> Nat]]
  BY DEF Dequeue

LEMMA FaultType ==
  ASSUME FaultsTypeOK, NEW kind, Fault(kind) \/ NoFault
  PROVE  FaultsTypeOK'
  BY FaultsAssumption DEF FaultsTypeOK, Fault, NoFault

LEMMA GotoType ==
  ASSUME TaskTypeOK, NEW c \in Children,
         NEW pc \in {"idle", "before_start", "check", "execute", "retry", "on_success",
                     "store", "send_to_dlq", "failed", "dlq", "ack"},
         Goto(c, pc)
  PROVE  run' \in [Children -> Child]
  BY DEF Goto, TaskTypeOK, Child

LEMMA ReleaseType ==
  ASSUME TaskTypeOK, NEW c \in Children, Release(c)
  PROVE  run' \in [Children -> Child]
  BY BrokerAssumption DEF Release, TaskTypeOK, Child, IdleChild, Attempts

-----------------------------------------------------------------------------
(* The shape of requests and children: what TypeOK needs to be inductive.  *)

RequestShape ==
  \A r \in Requests :
    /\ req[r].pc \in {"flush", "send", "commit", "revoke", "update"} => req[r].job \in Jobs
    /\ req[r].pc \in {"flush", "send", "commit"} => /\ req[r].row \in Job
                                                 /\ req[r].row.status = "PENDING"

ChildShape ==
  \A c \in Children :
    /\ Busy(c) => JobOf(c) \in Jobs /\ Published(JobOf(c))
    /\ run[c].pc = "retry" => run[c].retries < MaxRetries

QueueShape ==
  \A j \in Jobs, n \in Attempts : queue[j][n] > 0 => Published(j)

TypeInv == TypeOK /\ RequestShape /\ ChildShape /\ QueueShape

LEMMA TypeInvInit == Init => TypeInv
<1> SUFFICES ASSUME Init PROVE TypeInv
  OBVIOUS
<1> USE DEF Init
<1>1. JobTableTypeOK /\ FaultsTypeOK
  BY FaultsAssumption DEF JobTableTypeOK, FaultsTypeOK
<1>2. BrokerTypeOK
  BY DEF BrokerInit, BrokerTypeOK
<1>3. ServiceTypeOK
  BY DEF ServiceInit, ServiceTypeOK, NoRequest, Request
<1>4. TaskTypeOK
  BY BrokerAssumption DEF TaskInit, TaskTypeOK, IdleChild, Child, Attempts, Fates
<1>5. RequestShape
  BY DEF RequestShape, ServiceInit, NoRequest
<1>6. ChildShape /\ QueueShape
  BY DEF ChildShape, QueueShape, TaskInit, IdleChild, BrokerInit, Busy
<1>7. QED
  BY <1>1, <1>2, <1>3, <1>4, <1>5, <1>6 DEF TypeInv, TypeOK

\* A request that ends keeps the shape, whatever it was doing.
LEMMA RespondShape ==
  ASSUME ServiceTypeOK, RequestShape, NEW r \in Requests, NEW code, NEW job,
         Respond(r, code, job)
  PROVE  RequestShape'
  BY DEF Respond, RequestShape, ServiceTypeOK, Request

LEMMA StartType ==
  ASSUME ServiceTypeOK, RequestShape, NEW r \in Requests,
         NEW op \in Operations, NEW pc \in {"flush", "revoke", "done"},
         NEW key \in Keys \cup {None}, NEW job \in Jobs \cup {None},
         NEW row \in Job \cup {None}, NEW code \in Codes \cup {None},
         pc # "done" => job \in Jobs,
         pc = "flush" => row \in Job /\ row.status = "PENDING",
         Start(r, op, pc, key, job, row, code)
  PROVE  ServiceTypeOK' /\ RequestShape'
  BY DEF Start, ServiceTypeOK, Request, RequestShape

LEMMA StepShape ==
  ASSUME ServiceTypeOK, RequestShape, NEW r \in Requests, NEW pc, Step(r, pc),
         req[r].job \in Jobs,
         pc \in {"flush", "send", "commit"} => req[r].pc \in {"flush", "send", "commit"}
  PROVE  RequestShape'
  BY DEF Step, RequestShape, ServiceTypeOK, Request

LEMMA SendTaskType ==
  ASSUME BrokerTypeOK, QueueShape, ChildShape, NEW j \in Jobs, NEW key \in AllKeys,
         SendTask(j, key), UNCHANGED run
  PROVE  /\ kwargs' \in [Jobs -> AllKeys \cup {None}]
         /\ queue' \in [Jobs -> [Attempts -> Nat]]
         /\ QueueShape'
         /\ ChildShape'
<1>1. key # None
  BY JobTableAssumption DEF AllKeys
<1>2. 0 \in Attempts
  BY BrokerAssumption DEF Attempts
<1>3. kwargs' \in [Jobs -> AllKeys \cup {None}] /\ queue' \in [Jobs -> [Attempts -> Nat]]
  BY <1>2, EnqueueType DEF SendTask, BrokerTypeOK
<1>4. \A i \in Jobs : Published(i) => Published(i)'
  BY <1>1 DEF SendTask, Published, BrokerTypeOK
<1>5. QueueShape'
  BY <1>1, <1>2, <1>4 DEF SendTask, Enqueue, Published, QueueShape, BrokerTypeOK
<1>6. ChildShape'
  BY <1>4 DEF ChildShape, Busy, JobOf
<1>7. QED
  BY <1>3, <1>5, <1>6

\* The rows of transactions are rows; inserting and updating keep the table typed.
LEMMA InsertType ==
  ASSUME JobTableTypeOK, NEW r \in Requests, req[r].job \in Jobs, req[r].row \in Job,
         Insert(r)
  PROVE  JobTableTypeOK'
  BY DEF Insert, JobTableTypeOK

LEMMA ServiceTypeStep ==
  ASSUME TypeInv, NEW r \in Requests, Api(r)
  PROVE  TypeInv'
<1> USE DEF TypeInv, TypeOK
<1>1. ASSUME FaultsTypeOK', JobTableTypeOK', ServiceTypeOK', RequestShape',
             UNCHANGED <<queue, kwargs>>, revoking' \subseteq Jobs
      PROVE  TypeInv'
  <2>1. BrokerTypeOK' /\ TaskTypeOK'
    BY <1>1 DEF Api, BrokerTypeOK, TaskTypeOK
  <2>2. QueueShape' /\ ChildShape'
    BY <1>1 DEF Api, QueueShape, ChildShape, Published, Busy, JobOf
  <2>3. QED
    BY <1>1, <2>1, <2>2
<1>2. ASSUME FaultsTypeOK /\ JobTableTypeOK, ServiceTypeOK', RequestShape',
             UNCHANGED <<rows, queue, kwargs, revoking, faults>>
      PROVE  TypeInv'
  BY <1>1, <1>2 DEF FaultsTypeOK, JobTableTypeOK, BrokerTypeOK
<1>3. CASE TaskNotAllowed(r)
  <2>1. ServiceTypeOK' /\ RequestShape'
    BY <1>3, RespondType, RespondShape DEF TaskNotAllowed, Codes
  <2>2. QED
    BY <1>1, <1>3, <2>1 DEF TaskNotAllowed, FaultsTypeOK, JobTableTypeOK, BrokerTypeOK
<1>4. ASSUME NEW key \in Keys, CreateJob(r, key)
      PROVE  TypeInv'
  <2>1. ASSUME NEW j \in WithKey(key), Start(r, "create", "done", key, j, None, 200)
        PROVE  ServiceTypeOK' /\ RequestShape'
    BY <1>4, <2>1, StartType DEF CreateJob, WithKey, Codes
  <2>2. ASSUME NEW j \in Jobs,
               Start(r, "create", "flush", key, j, NewJob(key, None, 0), None)
        PROVE  ServiceTypeOK' /\ RequestShape'
    <3>1. NewJob(key, None, 0) \in Job /\ NewJob(key, None, 0).status = "PENDING"
      BY NewJobType DEF AllKeys
    <3>2. QED
      BY <1>4, <2>2, <3>1, StartType DEF CreateJob
  <2>3. QED
    BY <1>2, <1>4, <2>1, <2>2 DEF CreateJob
<1>5. ASSUME NEW j \in Jobs, CancelJob(r, j)
      PROVE  TypeInv'
  <2>1. ServiceTypeOK' /\ RequestShape'
    BY <1>5, StartType DEF CancelJob, Codes
  <2>2. QED
    BY <1>2, <1>5, <2>1 DEF CancelJob
<1>6. ASSUME NEW p \in Jobs, RetryDlqJob(r, p)
      PROVE  TypeInv'
  <2>1. ASSUME NEW j \in Jobs, Committed(p),
               Start(r, "retry", "flush", None, j,
                     NewJob(j, p, rows[p].retry_count + 1), None)
        PROVE  ServiceTypeOK' /\ RequestShape'
    <3>1. rows[p].retry_count + 1 \in Nat
      BY <2>1 DEF JobTableTypeOK, Committed, Job
    <3>2. /\ NewJob(j, p, rows[p].retry_count + 1) \in Job
          /\ NewJob(j, p, rows[p].retry_count + 1).status = "PENDING"
      BY <3>1, NewJobType DEF AllKeys
    <3>3. QED
      BY <1>6, <2>1, <3>2, StartType DEF RetryDlqJob
  <2>2. ASSUME NEW code \in {404, 409}, Start(r, "retry", "done", None, None, None, code)
        PROVE  ServiceTypeOK' /\ RequestShape'
    BY <1>6, <2>2, StartType DEF RetryDlqJob, Codes
  <2>3. QED
    BY <1>2, <1>6, <2>1, <2>2 DEF RetryDlqJob
<1>7. CASE Flush(r)
  <2>1. ServiceTypeOK' /\ RequestShape'
    BY <1>7, RespondType, RespondShape, StepType, StepShape DEF Flush, Codes, RequestShape
  <2>2. QED
    BY <1>1, <1>7, <2>1 DEF Flush, FaultsTypeOK, JobTableTypeOK, BrokerTypeOK
<1>8. CASE Send(r) \/ SendError(r)
  <2>1. req[r].job \in Jobs /\ req[r].row \in Job /\ req[r].row.key \in AllKeys
    BY <1>8 DEF Send, SendError, RequestShape, Job
  <2>2. ServiceTypeOK' /\ RequestShape'
    BY <1>8, <2>1, RespondType, RespondShape, StepType, StepShape DEF Send, SendError, Codes
  <2>3. FaultsTypeOK'
    BY <1>8, FaultType DEF Send, SendError, NoFault
  <2>4. /\ kwargs' \in [Jobs -> AllKeys \cup {None}]
        /\ queue' \in [Jobs -> [Attempts -> Nat]]
        /\ QueueShape'
        /\ ChildShape'
    <3>1. CASE SendTask(req[r].job, req[r].row.key)
      BY <2>1, <3>1, SendTaskType DEF Api
    <3>2. CASE UNCHANGED <<queue, kwargs>>
      BY <3>2 DEF Api, QueueShape, ChildShape, Published, Busy, JobOf, BrokerTypeOK
    <3>3. QED
      BY <1>8, <3>1, <3>2 DEF Send, SendError
  <2>5. JobTableTypeOK' /\ BrokerTypeOK' /\ TaskTypeOK'
    BY <1>8, <2>4 DEF Send, SendError, Api, JobTableTypeOK, BrokerTypeOK, TaskTypeOK
  <2>6. QED
    BY <2>2, <2>3, <2>4, <2>5
<1>9. CASE Commit(r) \/ CommitError(r)
  <2>1. req[r].job \in Jobs /\ req[r].row \in Job
    BY <1>9 DEF Commit, CommitError, RequestShape
  <2>2. ServiceTypeOK' /\ RequestShape'
    BY <1>9, <2>1, RespondType, RespondShape DEF Commit, CommitError, Codes
  <2>3. FaultsTypeOK'
    BY <1>9, FaultType DEF Commit, CommitError, NoFault
  <2>4. JobTableTypeOK'
    BY <1>9, <2>1, InsertType DEF Commit, CommitError, JobTableTypeOK
  <2>5. QED
    BY <1>1, <1>9, <2>2, <2>3, <2>4 DEF Commit, CommitError, BrokerTypeOK
<1>10. CASE Revoke(r) \/ RevokeError(r)
  <2>1. req[r].job \in Jobs
    BY <1>10 DEF Revoke, RevokeError, RequestShape
  <2>2. ServiceTypeOK' /\ RequestShape'
    BY <1>10, <2>1, RespondType, RespondShape, StepType, StepShape
       DEF Revoke, RevokeError, Codes
  <2>3. FaultsTypeOK'
    BY <1>10, FaultType DEF Revoke, RevokeError, NoFault
  <2>4. QED
    BY <1>1, <1>10, <2>1, <2>2, <2>3
       DEF Revoke, RevokeError, JobTableTypeOK, BrokerTypeOK
<1>11. CASE CancelUpdate(r) \/ CancelUpdateError(r)
  <2>1. req[r].job \in Jobs
    BY <1>11 DEF CancelUpdate, CancelUpdateError, RequestShape
  <2>2. ServiceTypeOK' /\ RequestShape'
    BY <1>11, <2>1, RespondType, RespondShape DEF CancelUpdate, CancelUpdateError, Codes
  <2>3. FaultsTypeOK'
    BY <1>11, FaultType DEF CancelUpdate, CancelUpdateError, NoFault
  <2>4. JobTableTypeOK'
    BY <1>11, <2>1, UpdateJobType
       DEF CancelUpdate, CancelUpdateError, JobTableTypeOK, JobStatus
  <2>5. QED
    BY <1>1, <1>11, <2>2, <2>3, <2>4 DEF CancelUpdate, CancelUpdateError, BrokerTypeOK
<1>12. CASE ApiCrash(r)
  <2>1. ServiceTypeOK' /\ RequestShape'
    BY <1>12, RespondType, RespondShape DEF ApiCrash
  <2>2. FaultsTypeOK'
    BY <1>12, FaultType DEF ApiCrash
  <2>3. QED
    BY <1>1, <1>12, <2>1, <2>2 DEF ApiCrash, JobTableTypeOK, BrokerTypeOK
<1>13. QED
  BY <1>3, <1>4, <1>5, <1>6, <1>7, <1>8, <1>9, <1>10, <1>11, <1>12
     DEF Api, ServiceNext, ServiceCall, ServiceStep, ServiceFault

\* The steps of the worker that leave the queue and the kwargs alone.
LEMMA WorkerShapeKept ==
  ASSUME TypeInv, UNCHANGED <<queue, kwargs, req>>, run' \in [Children -> Child],
         \A c \in Children : \/ run'[c].job = run[c].job
                             \/ ~Busy(c)',
         \A c \in Children : Busy(c)' => Busy(c),
         \A c \in Children : run'[c].pc = "retry" => run'[c].retries < MaxRetries
  PROVE  RequestShape' /\ ServiceTypeOK' /\ ChildShape' /\ QueueShape'
  BY DEF TypeInv, TypeOK, RequestShape, ServiceTypeOK, ChildShape, QueueShape, Busy, JobOf,
         Published

LEMMA UpdateJobStatusType ==
  ASSUME JobTableTypeOK, FaultsTypeOK, NEW c \in Children, JobOf(c) \in Jobs,
         NEW s \in JobStatus, NEW n \in Nat, UpdateJobStatus(c, s, n)
  PROVE  JobTableTypeOK' /\ FaultsTypeOK'
  BY UpdateJobType, FaultType DEF UpdateJobStatus, JobTableTypeOK

LEMMA HookTypeStep ==
  ASSUME TypeInv, NEW c \in Children, HookStep(c) \/ RetryLost(c), UNCHANGED req
  PROVE  TypeInv'
<1> USE DEF TypeInv, TypeOK
<1>1. JobOf(c) \in Jobs /\ Published(JobOf(c)) /\ KeyOf(c) \in AllKeys
  BY DEF HookStep, BeforeStart, CheckIdempotency, Execute, Retry, OnSuccess,
         StoreIdempotencyResult, SendToDlq, MarkFailed, MarkDlq, Ack, RetryLost,
         ChildShape, Busy, BrokerTypeOK, KeyOf, JobOf, Published
<1>2. ASSUME NEW pc \in {"check", "on_success", "execute", "retry", "store", "send_to_dlq",
                         "failed", "dlq", "ack"},
             Goto(c, pc), Busy(c), pc = "retry" => run[c].retries < MaxRetries
      PROVE  /\ run' \in [Children -> Child]
             /\ UNCHANGED <<queue, kwargs>> =>
                  RequestShape' /\ ServiceTypeOK' /\ ChildShape' /\ QueueShape'
  <2>1. run' \in [Children -> Child]
    BY <1>2, GotoType
  <2>2. \A d \in Children : /\ run'[d].job = run[d].job
                            /\ Busy(d)' => Busy(d)
                            /\ run'[d].pc = "retry" => run'[d].retries < MaxRetries
    BY <1>2 DEF Goto, ChildShape, Busy, TaskTypeOK, Child
  <2>3. QED
    BY <2>1, <2>2, WorkerShapeKept
<1>3. ASSUME Goto(c, "retry") \/ Goto(c, "send_to_dlq"), RetryOrFail(c), Busy(c),
             UNCHANGED <<queue, kwargs>>
      PROVE  /\ run' \in [Children -> Child]
             /\ RequestShape' /\ ServiceTypeOK' /\ ChildShape' /\ QueueShape'
  <2>1. CASE run[c].retries < MaxRetries
    BY <1>2, <1>3, <2>1 DEF RetryOrFail
  <2>2. CASE ~(run[c].retries < MaxRetries)
    BY <1>2, <1>3, <2>2 DEF RetryOrFail
  <2>3. QED
    BY <2>1, <2>2
<1>4. CASE BeforeStart(c)
  <2>1. JobTableTypeOK' /\ FaultsTypeOK'
    BY <1>1, <1>4, UpdateJobStatusType DEF BeforeStart, JobStatus
  <2>2. QED
    BY <1>2, <1>4, <2>1 DEF BeforeStart, Busy, BrokerTypeOK, brokerVars, TaskTypeOK
<1>5. CASE CheckIdempotency(c)
  <2>1. FaultsTypeOK'
    BY <1>5, FaultType DEF CheckIdempotency
  <2>2. /\ run' \in [Children -> Child]
        /\ RequestShape' /\ ServiceTypeOK' /\ ChildShape' /\ QueueShape'
    BY <1>2, <1>3, <1>5 DEF CheckIdempotency, Busy, brokerVars, RetryOrFail
  <2>3. QED
    BY <1>5, <2>1, <2>2 DEF CheckIdempotency, JobTableTypeOK, BrokerTypeOK, brokerVars, TaskTypeOK
<1>6. CASE Execute(c)
  <2>1. effects' \in [AllKeys -> Nat]
    BY <1>1, <1>6 DEF Execute, TaskTypeOK
  <2>2. /\ run' \in [Children -> Child]
        /\ RequestShape' /\ ServiceTypeOK' /\ ChildShape' /\ QueueShape'
    <3>1. CASE Goto(c, "on_success")
      BY <1>2, <1>6, <3>1 DEF Execute, Busy, brokerVars
    <3>2. CASE RetryOrFail(c)
      BY <1>3, <1>6, <3>2 DEF Execute, Busy, brokerVars, RetryOrFail
    <3>3. CASE run' = [run EXCEPT ![c].pc = "send_to_dlq", ![c].again = TRUE]
      <4>1. run' \in [Children -> Child]
        BY <3>3, ZenonT(60) DEF TaskTypeOK, Child
      <4>2. \A d \in Children : /\ run'[d].job = run[d].job
                                /\ Busy(d)' => Busy(d)
                                /\ run'[d].pc = "retry" => run'[d].retries < MaxRetries
        BY <1>6, <3>3 DEF Execute, ChildShape, Busy, TaskTypeOK, Child
      <4>3. QED
        BY <1>6, <4>1, <4>2, WorkerShapeKept DEF Execute, brokerVars
    <3>4. QED
      BY <1>6, <3>1, <3>2, <3>3 DEF Execute
  <2>3. QED
    BY <1>6, <2>1, <2>2
       DEF Execute, JobTableTypeOK, FaultsTypeOK, BrokerTypeOK, brokerVars, TaskTypeOK
<1>7. CASE Retry(c)
  <2>1. run[c].retries + 1 \in Attempts
    BY <1>7, BrokerAssumption DEF Retry, ChildShape, TaskTypeOK, Child, Attempts
  <2>2. queue' \in [Jobs -> [Attempts -> Nat]]
    BY <1>1, <1>7, <2>1, EnqueueType DEF Retry, BrokerTypeOK
  <2>3. run' \in [Children -> Child]
    BY <1>2, <1>7 DEF Retry, Busy
  <2>4. QueueShape'
    BY <1>1, <1>7, <2>1 DEF Retry, Enqueue, QueueShape, Published, BrokerTypeOK
  <2>5. ChildShape' /\ RequestShape' /\ ServiceTypeOK'
    BY <1>7 DEF Retry, Goto, ChildShape, RequestShape, ServiceTypeOK, Busy, JobOf, Published,
                TaskTypeOK, Child
  <2>6. QED
    BY <1>7, <2>2, <2>3, <2>4, <2>5
       DEF Retry, JobTableTypeOK, FaultsTypeOK, BrokerTypeOK, TaskTypeOK
<1>8. CASE OnSuccess(c) \/ MarkFailed(c)
  <2>1. JobTableTypeOK' /\ FaultsTypeOK'
    BY <1>1, <1>8, UpdateJobStatusType DEF OnSuccess, MarkFailed, JobStatus
  <2>2. QED
    BY <1>2, <1>8, <2>1 DEF OnSuccess, MarkFailed, Busy, BrokerTypeOK, brokerVars, TaskTypeOK
<1>9. CASE StoreIdempotencyResult(c)
  <2>1. FaultsTypeOK'
    BY <1>9, FaultType DEF StoreIdempotencyResult
  <2>2. QED
    BY <1>1, <1>2, <1>9, <2>1
       DEF StoreIdempotencyResult, Busy, JobTableTypeOK, BrokerTypeOK, TaskTypeOK
<1>10. CASE SendToDlq(c)
  <2>1. FaultsTypeOK'
    BY <1>10, FaultType DEF SendToDlq
  <2>2. QED
    BY <1>1, <1>2, <1>10, <2>1 DEF SendToDlq, Busy, JobTableTypeOK, BrokerTypeOK, TaskTypeOK
<1>11. CASE MarkDlq(c)
  <2>1. JobTableTypeOK' /\ FaultsTypeOK'
    BY <1>1, <1>11, UpdateJobStatusType DEF MarkDlq, JobStatus
  <2>2. fates' \in [Jobs -> SUBSET Fates]
    BY <1>1, <1>11 DEF MarkDlq, Ended, TaskTypeOK, Fates
  <2>3. /\ run' \in [Children -> Child]
        /\ RequestShape' /\ ServiceTypeOK' /\ ChildShape' /\ QueueShape'
    <3>1. CASE Goto(c, "ack")
      BY <1>2, <1>11, <3>1 DEF MarkDlq, Busy, brokerVars
    <3>2. CASE run' = [run EXCEPT ![c].pc = "send_to_dlq", ![c].again = FALSE]
      <4>1. run' \in [Children -> Child]
        BY <3>2, ZenonT(60) DEF TaskTypeOK, Child
      <4>2. \A d \in Children : /\ run'[d].job = run[d].job
                                /\ Busy(d)' => Busy(d)
                                /\ run'[d].pc = "retry" => run'[d].retries < MaxRetries
        BY <1>11, <3>2 DEF MarkDlq, ChildShape, Busy, TaskTypeOK, Child
      <4>3. QED
        BY <1>11, <4>1, <4>2, WorkerShapeKept DEF MarkDlq, brokerVars
    <3>3. QED
      BY <1>11, <3>1, <3>2 DEF MarkDlq
  <2>4. QED
    BY <1>11, <2>1, <2>2, <2>3 DEF MarkDlq, BrokerTypeOK, brokerVars, TaskTypeOK
<1>12. CASE Ack(c)
  <2>1. run' \in [Children -> Child]
    BY <1>12, ReleaseType DEF Ack
  <2>2. \A d \in Children : /\ run'[d].job = run[d].job \/ ~Busy(d)'
                            /\ Busy(d)' => Busy(d)
                            /\ run'[d].pc = "retry" => run'[d].retries < MaxRetries
    BY <1>12 DEF Ack, Release, IdleChild, ChildShape, Busy, TaskTypeOK, Child
  <2>3. QED
    BY <1>12, <2>1, <2>2, WorkerShapeKept
       DEF Ack, JobTableTypeOK, FaultsTypeOK, BrokerTypeOK, brokerVars, TaskTypeOK
<1>13. CASE RetryLost(c)
  <2>1. FaultsTypeOK'
    BY <1>13, FaultType DEF RetryLost
  <2>2. fates' \in [Jobs -> SUBSET Fates]
    BY <1>1, <1>13 DEF RetryLost, Ended, TaskTypeOK, Fates
  <2>3. QED
    BY <1>2, <1>13, <2>1, <2>2
       DEF RetryLost, Busy, JobTableTypeOK, BrokerTypeOK, brokerVars, TaskTypeOK
<1>14. QED
  BY <1>4, <1>5, <1>6, <1>7, <1>8, <1>9, <1>10, <1>11, <1>12, <1>13 DEF HookStep

\* Deliveries, and the steps of the worker process, of Redis and of failures.
LEMMA UnackedCount ==
  ASSUME TypeInv, NEW j \in Jobs, NEW n \in Attempts
  PROVE  /\ Cardinality(Unacked(j, n)) \in Nat
         /\ Cardinality(Unacked(j, n)) = 0 <=> Unacked(j, n) = {}
<1>1. Unacked(j, n) \subseteq Children
  BY DEF Unacked
<1>2. IsFiniteSet(Unacked(j, n))
  BY <1>1, TaskAssumption, FS_Subset
<1>3. QED
  BY <1>2, FS_CardinalityType, FS_EmptySet

LEMMA PlatformTypeStep ==
  ASSUME TypeInv, UNCHANGED req,
         \/ \E c \in Children, j \in Jobs : DlqReceive(c, j) \/ \E n \in Attempts : Deliver(c, j, n)
         \/ \E c \in Children : Redeliver(c) \/ ChildLost(c)
         \/ \E j \in Jobs : ProcessStep(j)
         \/ PlatformFault
  PROVE  TypeInv'
<1> USE DEF TypeInv, TypeOK
<1>1. RequestShape' /\ ServiceTypeOK'
  BY DEF RequestShape, ServiceTypeOK
<1>2. ASSUME JobTableTypeOK', FaultsTypeOK', BrokerTypeOK', TaskTypeOK', ChildShape', QueueShape'
      PROVE  TypeInv'
  BY <1>1, <1>2
<1>3. ASSUME NEW c \in Children, NEW j \in Jobs, NEW n \in Attempts, Deliver(c, j, n)
      PROVE  TypeInv'
  <2>1. queue' \in [Jobs -> [Attempts -> Nat]]
    BY <1>3, DequeueType DEF Deliver, BrokerTypeOK
  <2>2. QueueShape'
    BY <1>3 DEF Deliver, Dequeue, QueueShape, Published, BrokerTypeOK
  <2>3. Published(j)
    BY <1>3 DEF Deliver, Dequeue, QueueShape
  <2>4. run' \in [Children -> Child]
    BY <1>3, BrokerAssumption DEF Deliver, TaskTypeOK, Child, IdleChild, Attempts
  <2>5. ChildShape'
    BY <1>3, <2>3 DEF Deliver, ChildShape, Busy, JobOf, Published, IdleChild, TaskTypeOK, Child
  <2>6. JobTableTypeOK' /\ FaultsTypeOK' /\ BrokerTypeOK' /\ TaskTypeOK'
    BY <1>3, <2>1, <2>4 DEF Deliver, JobTableTypeOK, FaultsTypeOK, BrokerTypeOK, TaskTypeOK
  <2>7. QED
    BY <1>2, <2>2, <2>5, <2>6
<1>4. ASSUME NEW c \in Children, NEW j \in Jobs, DlqReceive(c, j)
      PROVE  TypeInv'
  <2>1. dlq' \in [Jobs -> Nat]
    BY <1>4 DEF DlqReceive, BrokerTypeOK
  <2>2. QED
    BY <1>2, <1>4, <2>1 DEF DlqReceive, JobTableTypeOK, FaultsTypeOK, BrokerTypeOK, TaskTypeOK,
       ChildShape, QueueShape, Busy, JobOf, Published
<1>5. ASSUME NEW c \in Children, Redeliver(c)
      PROVE  TypeInv'
  <2>1. JobOf(c) \in Jobs /\ Published(JobOf(c)) /\ run[c].retries \in Attempts
    BY <1>5 DEF Redeliver, ChildShape, TaskTypeOK, Child
  <2>2. queue' \in [Jobs -> [Attempts -> Nat]]
    BY <1>5, <2>1, EnqueueType DEF Redeliver, BrokerTypeOK
  <2>3. QueueShape'
    BY <1>5, <2>1 DEF Redeliver, Enqueue, QueueShape, Published, BrokerTypeOK
  <2>4. run' \in [Children -> Child]
    BY <1>5 DEF Redeliver, TaskTypeOK, Child
  <2>5. ChildShape'
    BY <1>5 DEF Redeliver, ChildShape, Busy, JobOf, Published, TaskTypeOK, Child
  <2>6. FaultsTypeOK'
    BY <1>5, FaultType DEF Redeliver
  <2>7. QED
    BY <1>2, <1>5, <2>2, <2>3, <2>4, <2>5, <2>6
       DEF Redeliver, JobTableTypeOK, BrokerTypeOK, TaskTypeOK
<1>6. ASSUME NEW c \in Children, ChildLost(c)
      PROVE  TypeInv'
  <2>1. JobOf(c) \in Jobs /\ Published(JobOf(c)) /\ run[c].retries \in Attempts
    BY <1>6 DEF ChildLost, ChildShape, TaskTypeOK, Child
  <2>2. queue' \in [Jobs -> [Attempts -> Nat]]
    BY <1>6, <2>1, EnqueueType DEF ChildLost, BrokerTypeOK
  <2>3. QueueShape'
    BY <1>6, <2>1 DEF ChildLost, Enqueue, QueueShape, Published, BrokerTypeOK
  <2>4. run' \in [Children -> Child]
    BY <1>6, ReleaseType DEF ChildLost
  <2>5. ChildShape'
    BY <1>6 DEF ChildLost, Release, IdleChild, ChildShape, Busy, JobOf, Published, TaskTypeOK, Child
  <2>6. FaultsTypeOK'
    BY <1>6, FaultType DEF ChildLost
  <2>7. QED
    BY <1>2, <1>6, <2>2, <2>3, <2>4, <2>5, <2>6
       DEF ChildLost, JobTableTypeOK, BrokerTypeOK, TaskTypeOK
<1>7. ASSUME NEW j \in Jobs, NEW n \in Attempts, DiscardRevoked(j, n)
      PROVE  TypeInv'
  <2>1. queue' \in [Jobs -> [Attempts -> Nat]]
    BY <1>7, DequeueType DEF DiscardRevoked, BrokerTypeOK
  <2>2. QueueShape'
    BY <1>7 DEF DiscardRevoked, Dequeue, QueueShape, Published, BrokerTypeOK
  <2>3. fates' \in [Jobs -> SUBSET Fates]
    BY <1>7 DEF DiscardRevoked, Ended, TaskTypeOK, Fates
  <2>4. QED
    BY <1>2, <1>7, <2>1, <2>2, <2>3
       DEF DiscardRevoked, JobTableTypeOK, FaultsTypeOK, BrokerTypeOK, TaskTypeOK,
           ChildShape, Busy, JobOf, Published
<1>8. ASSUME NEW j \in Jobs, RevokeArrives(j)
      PROVE  TypeInv'
  BY <1>2, <1>8
     DEF RevokeArrives, JobTableTypeOK, FaultsTypeOK, BrokerTypeOK, TaskTypeOK,
         ChildShape, QueueShape, Busy, JobOf, Published
<1>9. CASE WorkerRestart
  <2>1. \A j \in Jobs, n \in Attempts :
          queue[j][n] + Cardinality(Unacked(j, n)) \in Nat
    BY UnackedCount DEF BrokerTypeOK
  <2>2. queue' \in [Jobs -> [Attempts -> Nat]]
    BY <1>9, <2>1 DEF WorkerRestart
  <2>3. \A j \in Jobs, n \in Attempts : Unacked(j, n) # {} => Published(j)
    BY DEF Unacked, ChildShape
  <2>4. QueueShape'
    <3> SUFFICES ASSUME NEW j \in Jobs, NEW n \in Attempts, queue'[j][n] > 0
                 PROVE  Published(j)'
      BY DEF QueueShape
    <3>1. queue'[j][n] = queue[j][n] + Cardinality(Unacked(j, n))
      BY <1>9 DEF WorkerRestart
    <3>2. queue[j][n] > 0 \/ Unacked(j, n) # {}
      BY <3>1, UnackedCount DEF BrokerTypeOK
    <3>3. QED
      BY <1>9, <2>3, <3>2 DEF WorkerRestart, QueueShape, Published
  <2>5. run' \in [Children -> Child]
    BY <1>9, BrokerAssumption DEF WorkerRestart, IdleChild, Child, Attempts
  <2>6. ChildShape'
    BY <1>9 DEF WorkerRestart, IdleChild, ChildShape, Busy
  <2>7. FaultsTypeOK'
    BY <1>9, FaultType DEF WorkerRestart
  <2>8. QED
    BY <1>2, <1>9, <2>2, <2>4, <2>5, <2>6, <2>7
       DEF WorkerRestart, JobTableTypeOK, BrokerTypeOK, TaskTypeOK
<1>10. ASSUME NEW key \in AllKeys, CacheEvict(key)
       PROVE  TypeInv'
  <2>1. FaultsTypeOK'
    BY <1>10, FaultType DEF CacheEvict
  <2>2. QED
    BY <1>2, <1>10, <2>1
       DEF CacheEvict, JobTableTypeOK, BrokerTypeOK, TaskTypeOK,
           ChildShape, QueueShape, Busy, JobOf, Published
<1>11. CASE QueueEvict
  <2>1. FaultsTypeOK'
    BY <1>11, FaultType DEF QueueEvict
  <2>2. queue' \in [Jobs -> [Attempts -> Nat]] /\ QueueShape'
    BY <1>11 DEF QueueEvict, QueueShape
  <2>3. QED
    BY <1>2, <1>11, <2>1, <2>2
       DEF QueueEvict, JobTableTypeOK, BrokerTypeOK, TaskTypeOK,
           ChildShape, Busy, JobOf, Published
<1>12. QED
  BY <1>3, <1>4, <1>5, <1>6, <1>7, <1>8, <1>9, <1>10, <1>11 DEF ProcessStep, PlatformFault

LEMMA TypeInvStep == TypeInv /\ [Next]_vars => TypeInv'
<1> SUFFICES ASSUME TypeInv, [Next]_vars PROVE TypeInv'
  OBVIOUS
<1>1. ASSUME NEW r \in Requests, Api(r)
      PROVE  TypeInv'
  BY <1>1, ServiceTypeStep
<1>2. CASE Worker
  BY <1>2, HookTypeStep, PlatformTypeStep
     DEF Worker, WorkerNext, WorkerStep, WorkerFault
<1>3. CASE UNCHANGED vars
  BY <1>3 DEF vars, TypeInv, TypeOK, JobTableTypeOK, BrokerTypeOK, FaultsTypeOK,
     ServiceTypeOK, TaskTypeOK, RequestShape, ChildShape, QueueShape, Busy, JobOf, Published
<1>4. QED
  BY <1>1, <1>2, <1>3 DEF Next

\* TypeInv is inductive.
LEMMA TypeInvAlways == Spec => []TypeInv
<1>1. TypeInv /\ [Next]_vars => TypeInv'
  BY TypeInvStep
<1>2. QED
  BY TypeInvInit, <1>1, PTL DEF Spec

\* The state stays of its type: what a step reads of a request, of a message or of a
\* child is there, no status is unknown and no retry exceeds max_retries.
THEOREM TypeCorrect == Spec => []TypeOK
<1>1. TypeInv => TypeOK
  BY DEF TypeInv
<1>2. QED
  BY TypeInvAlways, <1>1, PTL

-----------------------------------------------------------------------------
(* A message is sent once, before the commit, and with the key of the row. *)

\* r has built its job and not yet sent the message.
Unsent(r) == req[r].pc \in {"flush", "send"}

SendInv ==
  /\ \A r \in Requests : Unsent(r) => ~Published(req[r].job)
  /\ \A r, q \in Requests : Unsent(r) /\ Unsent(q) /\ r # q => req[r].job # req[q].job
  /\ \A r \in Requests : req[r].pc = "commit" => kwargs[req[r].job] = req[r].row.key
  /\ CommittedWasPublished

LEMMA SendInvInit == Init => SendInv
  BY DEF Init, SendInv, Unsent, ServiceInit, NoRequest, CommittedWasPublished, Committed

\* What the worker does to the table is an UPDATE, or nothing.
LEMMA UpdateJobKeeps ==
  ASSUME JobTableTypeOK, NEW j \in Jobs, NEW s \in JobStatus, NEW n \in Nat,
         UpdateJob(j, s, n)
  PROVE  \A i \in Jobs : /\ Committed(i)' <=> Committed(i)
                         /\ Committed(i) => /\ rows'[i].key = rows[i].key
                                            /\ rows'[i].parent = rows[i].parent
                                            /\ rows'[i].retry_count = rows[i].retry_count
                                            /\ rows'[i].status = IF i = j THEN s ELSE rows[i].status
<1>1. CASE ~Committed(j)
  BY <1>1 DEF UpdateJob, Committed
<1>2. CASE Committed(j)
  <2>1. rows[j] \in Job
    BY <1>2 DEF Committed, JobTableTypeOK
  <2>2. rows' = [rows EXCEPT ![j] = [rows[j] EXCEPT !.status = s,
                                                    !.execution_count = @ + n]]
    BY <1>2, <2>1 DEF UpdateJob, JobTableTypeOK
  <2>3. \A i \in Jobs \ {j} : rows'[i] = rows[i]
    BY <2>2 DEF JobTableTypeOK
  <2>4. /\ rows'[j].key = rows[j].key
        /\ rows'[j].parent = rows[j].parent
        /\ rows'[j].retry_count = rows[j].retry_count
        /\ rows'[j].status = s
    BY <2>1, <2>2 DEF JobTableTypeOK, Job
  <2>5. rows'[j] # None
    <3>1. rows[j].execution_count + n \in Nat
      BY <2>1 DEF Job
    <3>2. [rows[j] EXCEPT !.status = s, !.execution_count = @ + n] \in Job
      BY <2>1, <3>1, RowUpdateType
    <3>3. QED
      BY <2>2, <3>2, JobTableAssumption DEF JobTableTypeOK
  <2>6. QED
    BY <1>2, <2>3, <2>4, <2>5 DEF Committed
<1>3. QED
  BY <1>1, <1>2

\* What stays of a row, whoever updates it.
SameRow(i) == /\ Committed(i)' <=> Committed(i)
              /\ Committed(i) => /\ rows'[i].key = rows[i].key
                                 /\ rows'[i].parent = rows[i].parent
                                 /\ rows'[i].retry_count = rows[i].retry_count

LEMMA UpdateJobStatusKeeps ==
  ASSUME TypeInv, NEW c \in Children, JobOf(c) \in Jobs, NEW s \in JobStatus, NEW n \in Nat,
         UpdateJobStatus(c, s, n)
  PROVE  \A i \in Jobs : SameRow(i)
  BY UpdateJobKeeps DEF UpdateJobStatus, SameRow, Committed, TypeInv, TypeOK

LEMMA WorkerKeepsRows ==
  ASSUME TypeInv, Worker
  PROVE  /\ \A i \in Jobs : SameRow(i)
         /\ UNCHANGED <<kwargs, req>>
<1>1. ASSUME NEW c \in Children, HookStep(c)
      PROVE  (\A i \in Jobs : SameRow(i)) /\ UNCHANGED kwargs
  <2>1. JobOf(c) \in Jobs
    BY <1>1 DEF HookStep, BeforeStart, CheckIdempotency, Execute, Retry, OnSuccess,
       StoreIdempotencyResult, SendToDlq, MarkFailed, MarkDlq, Ack, TypeInv, ChildShape, Busy
  <2>2. CASE BeforeStart(c) \/ OnSuccess(c) \/ MarkFailed(c) \/ MarkDlq(c)
    BY <2>1, <2>2, UpdateJobStatusKeeps
       DEF BeforeStart, OnSuccess, MarkFailed, MarkDlq, JobStatus, brokerVars
  <2>3. CASE UNCHANGED <<rows, kwargs>>
    BY <2>3 DEF SameRow, Committed
  <2>4. QED
    BY <1>1, <2>2, <2>3 DEF HookStep, CheckIdempotency, Execute, Retry,
       StoreIdempotencyResult, SendToDlq, Ack, brokerVars
<1>2. CASE UNCHANGED <<rows, kwargs>>
  BY <1>2 DEF SameRow, Committed, Worker
<1>3. QED
  BY <1>1, <1>2 DEF Worker, WorkerNext, WorkerStep, WorkerFault, ProcessStep, PlatformFault,
     DlqReceive, Deliver, RetryLost, Redeliver, ChildLost, RevokeArrives, DiscardRevoked,
     WorkerRestart, QueueEvict, CacheEvict, brokerVars

LEMMA RespondEffect ==
  ASSUME ServiceTypeOK, NEW r \in Requests, NEW code, NEW job, Respond(r, code, job)
  PROVE  /\ \A q \in Requests \ {r} : req'[q] = req[q]
         /\ req'[r].pc = "done" /\ req'[r].code = code /\ req'[r].job = job
         /\ req'[r].op = req[r].op /\ req'[r].key = req[r].key
  BY DEF Respond, ServiceTypeOK, Request

LEMMA StepEffect ==
  ASSUME ServiceTypeOK, NEW r \in Requests, NEW pc, Step(r, pc)
  PROVE  /\ \A q \in Requests \ {r} : req'[q] = req[q]
         /\ req'[r].pc = pc /\ req'[r].code = req[r].code /\ req'[r].job = req[r].job
         /\ req'[r].op = req[r].op /\ req'[r].key = req[r].key /\ req'[r].row = req[r].row
  BY DEF Step, ServiceTypeOK, Request

LEMMA SendInvApi ==
  ASSUME TypeInv, SendInv, NEW r \in Requests, Api(r)
  PROVE  SendInv'
<1> USE DEF SendInv
<1>1. ASSUME UNCHANGED kwargs, \A i \in Jobs : SameRow(i),
             \A q \in Requests \ {r} : req'[q] = req[q],
             req'[r].pc = "flush" => /\ ~Published(req'[r].job)
                                     /\ \A q \in Requests \ {r} : req[q].job # req'[r].job,
             req'[r].pc = "send" => Unsent(r) /\ req'[r].job = req[r].job,
             req'[r].pc # "commit"
      PROVE  SendInv'
  <2>1. CommittedWasPublished'
    BY <1>1 DEF SameRow, CommittedWasPublished
  <2>2. \A q \in Requests \ {r} : Unsent(q)' <=> Unsent(q)
    BY <1>1 DEF Unsent
  <2>3. Unsent(r)' => \/ req'[r].pc = "flush"
                      \/ req'[r].pc = "send"
    BY DEF Unsent
  <2>4. \A q \in Requests : Unsent(q)' => ~Published(req[q].job)'
    BY <1>1, <2>2, <2>3 DEF Published
  <2>5. \A p, q \in Requests : Unsent(p)' /\ Unsent(q)' /\ p # q => req'[p].job # req'[q].job
    BY <1>1, <2>2, <2>3
  <2>6. QED
    BY <1>1, <2>1, <2>4, <2>5
<1>2. ASSUME NEW code, NEW job, Respond(r, code, job), UNCHANGED kwargs,
             \A i \in Jobs : SameRow(i)
      PROVE  SendInv'
  BY <1>1, <1>2 DEF Respond, TypeInv, TypeOK, ServiceTypeOK, Request
<1>3. ASSUME NEW op, NEW pc \in {"flush", "revoke", "done"}, NEW key, NEW job, NEW row, NEW code,
             Start(r, op, pc, key, job, row, code), pc = "flush" => Fresh(job),
             UNCHANGED <<rows, kwargs>>
      PROVE  SendInv'
  <2>1. /\ req'[r].pc = pc
        /\ req'[r].job = job
        /\ \A q \in Requests \ {r} : req'[q] = req[q]
    BY <1>3 DEF Start, TypeInv, TypeOK, ServiceTypeOK
  <2>2. \A i \in Jobs : SameRow(i)
    BY <1>3 DEF SameRow, Committed
  <2>3. QED
    BY <1>1, <1>3, <2>1, <2>2 DEF Fresh, Published
<1>4. ASSUME NEW pc \in {"update", "send"}, Step(r, pc), pc = "send" => req[r].pc = "flush",
             UNCHANGED <<rows, kwargs>>
      PROVE  SendInv'
  <2>1. /\ req'[r].pc = pc
        /\ req'[r].job = req[r].job
        /\ \A q \in Requests \ {r} : req'[q] = req[q]
    BY <1>4 DEF Step, TypeInv, TypeOK, ServiceTypeOK, Request
  <2>2. \A i \in Jobs : SameRow(i)
    BY <1>4 DEF SameRow, Committed
  <2>3. QED
    BY <1>1, <1>4, <2>1, <2>2 DEF Unsent
<1>5. UNCHANGED rows => \A i \in Jobs : SameRow(i)
  BY DEF SameRow, Committed
<1>6. CASE ServiceCall(r)
  <2>1. CASE TaskNotAllowed(r)
    BY <1>2, <1>5, <2>1 DEF TaskNotAllowed
  <2>2. ASSUME NEW key \in Keys, CreateJob(r, key)
        PROVE  SendInv'
    BY <1>3, <2>2 DEF CreateJob
  <2>3. ASSUME NEW j \in Jobs, CancelJob(r, j)
        PROVE  SendInv'
    BY <1>3, <2>3 DEF CancelJob
  <2>4. ASSUME NEW j \in Jobs, RetryDlqJob(r, j)
        PROVE  SendInv'
    BY <1>3, <2>4 DEF RetryDlqJob
  <2>5. QED
    BY <1>6, <2>1, <2>2, <2>3, <2>4 DEF ServiceCall
<1>7. CASE Flush(r) \/ Revoke(r) \/ RevokeError(r) \/ ApiCrash(r)
  BY <1>2, <1>4, <1>5, <1>7 DEF Flush, Revoke, RevokeError, ApiCrash
<1>8. CASE Send(r) \/ SendError(r)
  <2>1. /\ req[r].job \in Jobs
        /\ req[r].row \in Job
        /\ req[r].row.key # None
        /\ ~Published(req[r].job)
    BY <1>8, JobTableAssumption
       DEF Send, SendError, TypeInv, RequestShape, Unsent, Job, AllKeys
  <2>2. ~Committed(req[r].job)
    BY <2>1, JobTableAssumption
       DEF CommittedWasPublished, Published, TypeInv, TypeOK, JobTableTypeOK, Job, AllKeys, Committed
  <2>3. CASE SendTask(req[r].job, req[r].row.key)
    <3>1. /\ kwargs'[req[r].job] = req[r].row.key
          /\ \A i \in Jobs \ {req[r].job} : kwargs'[i] = kwargs[i]
      BY <2>1, <2>3 DEF SendTask, TypeInv, TypeOK, BrokerTypeOK
    <3>2. CommittedWasPublished'
      BY <1>8, <2>2, <3>1 DEF Send, SendError, CommittedWasPublished, Committed
    <3>3. /\ \A q \in Requests \ {r} : req'[q] = req[q]
          /\ req'[r].pc \in {"commit", "done"}
          /\ req'[r].pc = "commit" => /\ req'[r].job = req[r].job
                                      /\ req'[r].row = req[r].row
      BY <1>8, StepEffect, RespondEffect DEF Send, SendError, TypeInv, TypeOK
    <3>4. \A q \in Requests : Unsent(q)' => q # r /\ Unsent(q) /\ req[q].job # req[r].job
      BY <1>8, <3>3 DEF Unsent, Send, SendError
    <3>5. \A q \in Requests \ {r} : req[q].pc = "commit" => req[q].job # req[r].job
      <4> SUFFICES ASSUME NEW q \in Requests \ {r}, req[q].pc = "commit"
                   PROVE  kwargs[req[q].job] # None
        BY <2>1 DEF Published
      <4>1. req[q].row \in Job /\ kwargs[req[q].job] = req[q].row.key
        BY DEF TypeInv, RequestShape
      <4>2. QED
        BY <4>1, JobTableAssumption DEF Job, AllKeys
    <3>6. \A q \in Requests : Unsent(q)' => ~Published(req[q].job)'
      BY <3>1, <3>3, <3>4 DEF Published, TypeInv, RequestShape, Unsent
    <3>7. \A p, q \in Requests : Unsent(p)' /\ Unsent(q)' /\ p # q => req'[p].job # req'[q].job
      BY <3>3, <3>4
    <3>8. \A q \in Requests : req'[q].pc = "commit" => kwargs'[req'[q].job] = req'[q].row.key
      BY <3>1, <3>3, <3>5 DEF TypeInv, RequestShape
    <3>9. QED
      BY <3>2, <3>6, <3>7, <3>8
  <2>4. CASE UNCHANGED kwargs /\ SendError(r)
    BY <1>2, <1>5, <2>4 DEF SendError
  <2>5. QED
    BY <1>8, <2>3, <2>4 DEF Send, SendError
<1>9. CASE Commit(r) \/ CommitError(r)
  <2>1. req[r].job \in Jobs /\ req[r].row \in Job /\ kwargs[req[r].job] = req[r].row.key
    BY <1>9 DEF Commit, CommitError, TypeInv, RequestShape
  <2>2. /\ UNCHANGED kwargs
        /\ \A q \in Requests \ {r} : req'[q] = req[q]
        /\ req'[r].pc = "done"
    BY <1>9, RespondEffect DEF Commit, CommitError, TypeInv, TypeOK
  <2>3. CommittedWasPublished'
    <3>1. CASE Insert(r)
      BY <2>1, <2>2, <3>1
         DEF Insert, CommittedWasPublished, Committed, TypeInv, TypeOK, JobTableTypeOK
    <3>2. CASE UNCHANGED rows
      BY <2>2, <3>2 DEF CommittedWasPublished, Committed
    <3>3. QED
      BY <1>9, <3>1, <3>2 DEF Commit, CommitError
  <2>4. \A q \in Requests : Unsent(q)' => q # r /\ Unsent(q)
    BY <2>2 DEF Unsent
  <2>5. QED
    BY <2>2, <2>3, <2>4 DEF Published
<1>10. CASE CancelUpdate(r) \/ CancelUpdateError(r)
  <2>1. req[r].job \in Jobs
    BY <1>10 DEF CancelUpdate, CancelUpdateError, TypeInv, RequestShape
  <2>2. \A i \in Jobs : SameRow(i)
    BY <1>5, <1>10, <2>1, UpdateJobKeeps
       DEF CancelUpdate, CancelUpdateError, SameRow, JobStatus, TypeInv, TypeOK
  <2>3. QED
    BY <1>2, <1>10, <2>2 DEF CancelUpdate, CancelUpdateError
<1>11. QED
  BY <1>6, <1>7, <1>8, <1>9, <1>10 DEF Api, ServiceNext, ServiceStep, ServiceFault

LEMMA SendInvWorker ==
  ASSUME TypeInv, SendInv, Worker
  PROVE  SendInv'
<1>1. (\A i \in Jobs : SameRow(i)) /\ UNCHANGED <<kwargs, req>>
  BY WorkerKeepsRows
<1>2. CommittedWasPublished'
  BY <1>1 DEF SendInv, CommittedWasPublished, SameRow
<1>3. QED
  BY <1>1, <1>2 DEF SendInv, Unsent, Published

LEMMA SendInvStep == SendInv /\ TypeInv /\ [Next]_vars => SendInv'
<1> SUFFICES ASSUME SendInv, TypeInv, [Next]_vars PROVE SendInv'
  OBVIOUS
<1>1. CASE UNCHANGED vars
  BY <1>1 DEF vars, SendInv, Unsent, Published, CommittedWasPublished, Committed
<1>2. QED
  BY <1>1, SendInvApi, SendInvWorker DEF Next

\* For every committed job a message was published, with the key of its row: crashes,
\* errors of send_task and lost replies of the commit leave no job without a message.
THEOREM CommittedJobsWerePublished == Spec => []CommittedWasPublished
<1>1. SendInv /\ TypeInv /\ [Next]_vars => SendInv'
  BY SendInvStep
<1>2. Spec => []SendInv
  BY SendInvInit, TypeInvAlways, <1>1, PTL DEF Spec
<1>3. SendInv => CommittedWasPublished
  BY DEF SendInv
<1>4. QED
  BY <1>2, <1>3, PTL

-----------------------------------------------------------------------------
(* COMPLETED and a cached result come only after an effect.                *)

\* A child on its way through on_success works under a key that has its effect.
SuccessHeld ==
  \A c \in Children : run[c].pc \in {"on_success", "store"} => effects[KeyOf(c)] > 0

SuccessInv == SuccessHeld /\ SuccessIsReal

LEMMA SuccessInvInit == Init => SuccessInv
  BY DEF Init, SuccessInv, SuccessHeld, SuccessIsReal, TaskInit, IdleChild, BrokerInit, Committed

\* Effects and fates are never undone.
LEMMA HistoryGrows ==
  ASSUME TypeInv, [Next]_vars
  PROVE  /\ \A key \in AllKeys : effects'[key] >= effects[key]
         /\ \A j \in Jobs : fates[j] \subseteq fates'[j]
<1>1. CASE UNCHANGED <<effects, fates>>
  BY <1>1 DEF TypeInv, TypeOK, TaskTypeOK
<1>2. ASSUME NEW c \in Children, Execute(c)
      PROVE  /\ \A key \in AllKeys : effects'[key] >= effects[key]
             /\ UNCHANGED fates
  BY <1>2 DEF Execute, TypeInv, TypeOK, TaskTypeOK
<1>3. ASSUME NEW j, NEW fate, Ended(j, fate)
      PROVE  \A i \in Jobs : fates[i] \subseteq fates'[i]
  BY <1>3 DEF Ended, TypeInv, TypeOK, TaskTypeOK
<1>4. ASSUME NEW c \in Children, MarkDlq(c) \/ RetryLost(c)
      PROVE  UNCHANGED effects /\ \A i \in Jobs : fates[i] \subseteq fates'[i]
  BY <1>3, <1>4 DEF MarkDlq, RetryLost
<1>5. ASSUME NEW j \in Jobs, NEW n \in Attempts, DiscardRevoked(j, n)
      PROVE  UNCHANGED effects /\ \A i \in Jobs : fates[i] \subseteq fates'[i]
  BY <1>3, <1>5 DEF DiscardRevoked
<1>6. ASSUME NEW c \in Children, HookStep(c)
      PROVE  \/ Execute(c) \/ MarkDlq(c)
             \/ UNCHANGED <<effects, fates>>
  BY <1>6 DEF HookStep, BeforeStart, CheckIdempotency, Retry, OnSuccess,
     StoreIdempotencyResult, SendToDlq, MarkFailed, Ack
<1>7. ASSUME NEW c \in Children, WorkerStep(c) \/ WorkerFault(c)
      PROVE  \/ Execute(c) \/ MarkDlq(c) \/ RetryLost(c)
             \/ UNCHANGED <<effects, fates>>
  BY <1>6, <1>7 DEF WorkerStep, WorkerFault, DlqReceive, Deliver, Redeliver, ChildLost
<1>8. ASSUME NEW j \in Jobs, ProcessStep(j)
      PROVE  \/ \E n \in Attempts : DiscardRevoked(j, n)
             \/ UNCHANGED <<effects, fates>>
  BY <1>8 DEF ProcessStep, RevokeArrives
<1>9. PlatformFault => UNCHANGED <<effects, fates>>
  BY DEF PlatformFault, WorkerRestart, QueueEvict, CacheEvict
<1>10. CASE Worker
  <2>1. CASE \E c \in Children : WorkerStep(c) \/ WorkerFault(c)
    BY <1>1, <1>2, <1>4, <1>7, <2>1 DEF TypeInv, TypeOK, TaskTypeOK
  <2>2. CASE \E j \in Jobs : ProcessStep(j)
    BY <1>1, <1>5, <1>8, <2>2 DEF TypeInv, TypeOK, TaskTypeOK
  <2>3. CASE PlatformFault
    BY <1>1, <1>9, <2>3
  <2>4. QED
    BY <1>10, <2>1, <2>2, <2>3 DEF Worker, WorkerNext
<1>11. QED
  BY <1>1, <1>10 DEF Next, vars, Api

\* What a step of the API does to the table: a new row is PENDING, an old one keeps its
\* status or is CANCELLED; and it sends no message of a published job.
LEMMA ApiKeeps ==
  ASSUME TypeInv, SendInv, NEW r \in Requests, Api(r)
  PROVE  /\ \A j \in Jobs : Published(j) => kwargs'[j] = kwargs[j]
         /\ \A j \in Jobs, n \in Attempts : queue'[j][n] >= queue[j][n]
         /\ \A j \in Jobs : Published(j)' /\ ~Published(j) => queue'[j][0] > 0
<1>1. CASE UNCHANGED <<kwargs, queue>>
  BY <1>1 DEF Published, TypeInv, TypeOK, BrokerTypeOK
<1>2. ASSUME SendTask(req[r].job, req[r].row.key), Unsent(r)
      PROVE  /\ \A j \in Jobs : Published(j) => kwargs'[j] = kwargs[j]
             /\ \A j \in Jobs, n \in Attempts : queue'[j][n] >= queue[j][n]
             /\ \A j \in Jobs : Published(j)' /\ ~Published(j) => queue'[j][0] > 0
  <2>1. req[r].job \in Jobs /\ ~Published(req[r].job)
    BY <1>2 DEF Unsent, TypeInv, RequestShape, SendInv
  <2>2. 0 \in Attempts
    BY BrokerAssumption DEF Attempts
  <2>3. QED
    BY <1>2, <2>1, <2>2 DEF SendTask, Enqueue, Published, TypeInv, TypeOK, BrokerTypeOK
<1>3. QED
  BY <1>1, <1>2 DEF Api, ServiceNext, ServiceCall, ServiceStep, ServiceFault, TaskNotAllowed,
     CreateJob, CancelJob, RetryDlqJob, Flush, Send, SendError, Commit, CommitError, Revoke,
     RevokeError, CancelUpdate, CancelUpdateError, ApiCrash, Unsent

LEMMA ApiKeepsStatus ==
  ASSUME TypeInv, NEW r \in Requests, Api(r), NEW j \in Jobs, Committed(j)'
  PROVE  \/ Committed(j) /\ rows'[j] = rows[j]
         \/ Committed(j) /\ SameRow(j) /\ rows'[j].status = "CANCELLED"
         \/ /\ req[r].pc = "commit" /\ j = req[r].job
            /\ Insert(r)
            /\ rows'[j] = req[r].row
<1>1. CASE UNCHANGED rows
  BY <1>1 DEF Committed
<1>2. CASE (Commit(r) \/ CommitError(r)) /\ Insert(r)
  <2>1. req[r].job \in Jobs /\ req[r].row \in Job /\ req[r].pc = "commit"
    BY <1>2 DEF Commit, CommitError, TypeInv, RequestShape
  <2>2. QED
    BY <1>2, <2>1 DEF Insert, Committed, TypeInv, TypeOK, JobTableTypeOK
<1>3. CASE (CancelUpdate(r) \/ CancelUpdateError(r)) /\ UpdateJob(req[r].job, "CANCELLED", 0)
  <2>1. req[r].job \in Jobs
    BY <1>3 DEF CancelUpdate, CancelUpdateError, TypeInv, RequestShape
  <2>2. \A i \in Jobs : SameRow(i)
    BY <1>3, <2>1, UpdateJobKeeps DEF SameRow, JobStatus, TypeInv, TypeOK
  <2>3. CASE j = req[r].job
    BY <1>3, <2>2, <2>3, UpdateJobKeeps DEF SameRow, JobStatus, TypeInv, TypeOK
  <2>4. CASE j # req[r].job
    BY <1>3, <2>1, <2>4 DEF UpdateJob, Committed, TypeInv, TypeOK, JobTableTypeOK
  <2>5. QED
    BY <2>3, <2>4
<1>4. QED
  BY <1>1, <1>2, <1>3 DEF Api, ServiceNext, ServiceCall, ServiceStep, ServiceFault, TaskNotAllowed,
     CreateJob, CancelJob, RetryDlqJob, Flush, Send, SendError, Commit, CommitError, Revoke,
     RevokeError, CancelUpdate, CancelUpdateError, ApiCrash

\* Only on_success makes a row COMPLETED.
LEMMA WhoCompletes ==
  ASSUME TypeInv, Worker, NEW j \in Jobs, Committed(j)', rows'[j].status = "COMPLETED"
  PROVE  /\ Committed(j)
         /\ rows'[j].key = rows[j].key
         /\ \/ rows[j].status = "COMPLETED"
            \/ \E c \in Children : run[c].pc = "on_success" /\ JobOf(c) = j
<1>1. Committed(j) /\ rows'[j].key = rows[j].key
  BY WorkerKeepsRows DEF SameRow
<1>2. CASE UNCHANGED rows
  BY <1>1, <1>2
<1>3. ASSUME NEW c \in Children, Busy(c), NEW s \in JobStatus, NEW n \in Nat,
             UpdateJobStatus(c, s, n), s # "COMPLETED"
      PROVE  rows[j].status = "COMPLETED"
  BY <1>1, <1>3, UpdateJobKeeps
     DEF UpdateJobStatus, TypeInv, TypeOK, ChildShape
<1>4. ASSUME NEW c \in Children, OnSuccess(c), ~(rows[j].status = "COMPLETED")
      PROVE  JobOf(c) = j
  <2>1. JobOf(c) \in Jobs
    BY <1>4 DEF OnSuccess, Busy, TypeInv, ChildShape
  <2>2. QED
    BY <1>1, <1>4, <2>1, UpdateJobKeeps
       DEF OnSuccess, UpdateJobStatus, JobStatus, TypeInv, TypeOK
<1>5. ASSUME NEW c \in Children, BeforeStart(c) \/ MarkFailed(c) \/ MarkDlq(c)
      PROVE  rows[j].status = "COMPLETED"
  BY <1>3, <1>5 DEF BeforeStart, MarkFailed, MarkDlq, Busy, JobStatus
<1>6. ASSUME NEW c \in Children, HookStep(c)
      PROVE  BeforeStart(c) \/ MarkFailed(c) \/ MarkDlq(c) \/ OnSuccess(c) \/ UNCHANGED rows
  BY <1>6 DEF HookStep, CheckIdempotency, Execute, Retry, StoreIdempotencyResult, SendToDlq, Ack
<1>7. QED
  BY <1>1, <1>2, <1>4, <1>5, <1>6 DEF Worker, WorkerNext, WorkerStep, WorkerFault, ProcessStep,
     PlatformFault, DlqReceive, Deliver, RetryLost, Redeliver, ChildLost, RevokeArrives,
     DiscardRevoked, WorkerRestart, QueueEvict, CacheEvict, OnSuccess

\* Only a child at the end of on_success stores a result.
LEMMA WhoStores ==
  ASSUME Worker, NEW key \in cache'
  PROVE  \/ key \in cache
         \/ \E c \in Children : run[c].pc = "store" /\ KeyOf(c) = key
<1>1. ASSUME NEW c \in Children, HookStep(c)
      PROVE  \/ cache' = cache
             \/ run[c].pc = "store" /\ cache' = cache \cup {KeyOf(c)}
  BY <1>1 DEF HookStep, BeforeStart, CheckIdempotency, Execute, Retry, OnSuccess,
     StoreIdempotencyResult, SendToDlq, MarkFailed, MarkDlq, Ack, brokerVars
<1>2. QED
  BY <1>1 DEF Worker, WorkerNext, WorkerStep, WorkerFault, ProcessStep,
     PlatformFault, DlqReceive, Deliver, RetryLost, Redeliver, ChildLost, RevokeArrives,
     DiscardRevoked, WorkerRestart, QueueEvict, CacheEvict, brokerVars

\* A child enters on_success with a cached key, or with the effect it has just had.
LEMMA WhoSucceeds ==
  ASSUME TypeInv, Worker, NEW c \in Children, run'[c].pc \in {"on_success", "store"}
  PROVE  /\ Busy(c)
         /\ JobOf(c)' = JobOf(c)
         /\ \/ run[c].pc \in {"on_success", "store"}
            \/ KeyOf(c) \in cache
            \/ effects'[KeyOf(c)] > 0
<1>1. CASE run'[c] = run[c]
  BY <1>1 DEF Busy, JobOf
<1>2. ASSUME NEW d \in Children, HookStep(d), d # c
      PROVE  run'[c] = run[c]
  BY <1>2 DEF HookStep, BeforeStart, CheckIdempotency, Execute, Retry, OnSuccess, RetryOrFail,
     StoreIdempotencyResult, SendToDlq, MarkFailed, MarkDlq, Ack, Goto, Release,
     TypeInv, TypeOK, TaskTypeOK
<1>3. ASSUME NEW pc, Goto(c, pc), Busy(c)
      PROVE  Busy(c) /\ JobOf(c)' = JobOf(c) /\ run'[c].pc = pc
  BY <1>3 DEF Goto, JobOf, TypeInv, TypeOK, TaskTypeOK, Child
<1>4. CASE CheckIdempotency(c)
  BY <1>3, <1>4 DEF CheckIdempotency, RetryOrFail, Busy
<1>5. CASE Execute(c)
  <2>1. CASE Goto(c, "on_success") /\ effects' = [effects EXCEPT ![KeyOf(c)] = @ + 1]
    <3>1. KeyOf(c) \in AllKeys
      BY <1>5 DEF Execute, KeyOf, JobOf, Busy, Published, TypeInv, TypeOK, ChildShape, BrokerTypeOK
    <3>2. effects'[KeyOf(c)] > 0
      BY <2>1, <3>1 DEF TypeInv, TypeOK, TaskTypeOK
    <3>3. QED
      BY <1>3, <1>5, <2>1, <3>2 DEF Execute, Busy
  <2>2. CASE RetryOrFail(c)
    BY <1>3, <1>5, <2>2 DEF Execute, RetryOrFail, Busy
  <2>3. CASE run' = [run EXCEPT ![c].pc = "send_to_dlq", ![c].again = TRUE]
    BY <2>3 DEF TypeInv, TypeOK, TaskTypeOK, Child
  <2>4. QED
    BY <1>5, <2>1, <2>2, <2>3 DEF Execute
<1>6. CASE OnSuccess(c) \/ StoreIdempotencyResult(c)
  BY <1>3, <1>6 DEF OnSuccess, StoreIdempotencyResult, Busy
<1>7. CASE BeforeStart(c) \/ Retry(c) \/ SendToDlq(c) \/ MarkFailed(c) \/ RetryLost(c)
  BY <1>3, <1>7 DEF BeforeStart, Retry, SendToDlq, MarkFailed, RetryLost, Busy
<1>8. CASE MarkDlq(c)
  <2>1. run'[c].pc \in {"send_to_dlq", "ack"}
    BY <1>8 DEF MarkDlq, Goto, TypeInv, TypeOK, TaskTypeOK, Child
  <2>2. QED
    BY <2>1
<1>9. CASE Ack(c) \/ ChildLost(c) \/ WorkerRestart
  BY <1>9 DEF Ack, ChildLost, WorkerRestart, Release, IdleChild, TypeInv, TypeOK, TaskTypeOK
<1>10. CASE HookStep(c)
  BY <1>4, <1>5, <1>6, <1>7, <1>8, <1>9, <1>10 DEF HookStep
<1>11. ASSUME NEW d \in Children, ChildLost(d) \/ Redeliver(d) \/ RetryLost(d)
       PROVE  \/ run'[c] = run[c]
              \/ d = c /\ (ChildLost(c) \/ RetryLost(c))
              \/ /\ d = c /\ Busy(c)
                 /\ run' = [run EXCEPT ![c].restored = TRUE]
  BY <1>11 DEF ChildLost, Redeliver, RetryLost, Release, Goto, TypeInv, TypeOK, TaskTypeOK
<1>12. ASSUME Busy(c), run' = [run EXCEPT ![c].restored = TRUE]
       PROVE  JobOf(c)' = JobOf(c) /\ run[c].pc \in {"on_success", "store"}
  BY <1>12 DEF JobOf, TypeInv, TypeOK, TaskTypeOK, Child
<1>13. CASE \E d \in Children : WorkerFault(d)
  BY <1>1, <1>7, <1>9, <1>11, <1>12, <1>13 DEF WorkerFault
<1>14. ASSUME NEW d \in Children, NEW j \in Jobs, NEW n \in Attempts, Deliver(d, j, n)
       PROVE  run'[c] = run[c]
  BY <1>14 DEF Deliver, IdleChild, TypeInv, TypeOK, TaskTypeOK
<1>15. CASE \E d \in Children : WorkerStep(d)
  BY <1>1, <1>2, <1>10, <1>14, <1>15 DEF WorkerStep, DlqReceive
<1>16. CASE (\E j \in Jobs : ProcessStep(j)) \/ PlatformFault
  BY <1>1, <1>9, <1>16
     DEF ProcessStep, PlatformFault, RevokeArrives, DiscardRevoked, QueueEvict, CacheEvict
<1>17. QED
  BY <1>13, <1>15, <1>16 DEF Worker, WorkerNext

LEMMA SuccessInvApi ==
  ASSUME TypeInv, SendInv, SuccessInv, NEW r \in Requests, Api(r)
  PROVE  SuccessInv'
<1>1. UNCHANGED <<run, effects, cache>>
  BY DEF Api
<1>2. \A c \in Children : Busy(c) => KeyOf(c)' = KeyOf(c)
  BY <1>1, ApiKeeps DEF KeyOf, JobOf, TypeInv, ChildShape
<1>3. SuccessHeld'
  BY <1>1, <1>2 DEF SuccessInv, SuccessHeld, Busy
<1>4. ASSUME NEW j \in Jobs, Committed(j)', rows'[j].status = "COMPLETED"
      PROVE  Committed(j) /\ rows[j].status = "COMPLETED" /\ rows'[j].key = rows[j].key
  BY <1>4, ApiKeepsStatus DEF TypeInv, RequestShape
<1>5. SuccessIsReal'
  BY <1>1, <1>4 DEF SuccessInv, SuccessIsReal
<1>6. QED
  BY <1>3, <1>5 DEF SuccessInv

LEMMA SuccessInvWorker ==
  ASSUME TypeInv, TypeInv', SendInv, SuccessInv, Worker
  PROVE  SuccessInv'
<1>1. /\ \A key \in AllKeys : effects[key] > 0 => effects'[key] > 0
      /\ UNCHANGED kwargs
  BY HistoryGrows, WorkerKeepsRows DEF Next, TypeInv, TypeOK, TaskTypeOK
<1>2. \A c \in Children : Busy(c) => KeyOf(c) \in AllKeys /\ KeyOf(c) = kwargs[JobOf(c)]
  BY DEF TypeInv, TypeOK, ChildShape, BrokerTypeOK, Published, KeyOf, JobOf
<1>3. SuccessHeld'
  <2> SUFFICES ASSUME NEW c \in Children, run'[c].pc \in {"on_success", "store"}
               PROVE  effects'[KeyOf(c)'] > 0
    BY DEF SuccessHeld
  <2>1. Busy(c) /\ JobOf(c)' = JobOf(c)
    BY WhoSucceeds
  <2>2. KeyOf(c)' = KeyOf(c)
    BY <1>1, <2>1 DEF KeyOf, JobOf
  <2>3. effects[KeyOf(c)] > 0 \/ effects'[KeyOf(c)] > 0
    BY WhoSucceeds DEF SuccessInv, SuccessHeld, SuccessIsReal
  <2>4. QED
    BY <1>1, <1>2, <2>1, <2>2, <2>3
<1>4. ASSUME NEW j \in Jobs, Committed(j)', rows'[j].status = "COMPLETED"
      PROVE  effects'[rows'[j].key] > 0
  <2>1. Committed(j) /\ rows'[j].key = rows[j].key /\ rows[j].key \in AllKeys
    BY <1>4, WhoCompletes DEF TypeInv, TypeOK, JobTableTypeOK, Committed, Job
  <2>2. effects[rows[j].key] > 0
    <3>1. CASE rows[j].status = "COMPLETED"
      BY <2>1, <3>1 DEF SuccessInv, SuccessIsReal
    <3>2. ASSUME NEW c \in Children, run[c].pc = "on_success", JobOf(c) = j
          PROVE  effects[rows[j].key] > 0
      BY <2>1, <3>2 DEF SuccessInv, SuccessHeld, SendInv, CommittedWasPublished, KeyOf, JobOf
    <3>3. QED
      BY <1>4, <3>1, <3>2, WhoCompletes
  <2>3. QED
    BY <1>1, <2>1, <2>2
<1>5. ASSUME NEW key \in cache'
      PROVE  effects'[key] > 0
  <2>1. key \in AllKeys
    BY <1>5 DEF TypeInv, TypeOK, BrokerTypeOK
  <2>2. effects[key] > 0
    BY <1>5, WhoStores DEF SuccessInv, SuccessHeld, SuccessIsReal
  <2>3. QED
    BY <1>1, <2>1, <2>2
<1>6. QED
  BY <1>3, <1>4, <1>5 DEF SuccessInv, SuccessIsReal

LEMMA SuccessInvAlways == Spec => [](SendInv /\ SuccessInv /\ TypeInv)
<1>1. SendInv /\ TypeInv /\ [Next]_vars => SendInv'
  BY SendInvStep
<1>2. SuccessInv /\ SendInv /\ TypeInv /\ TypeInv' /\ [Next]_vars => SuccessInv'
  <2> SUFFICES ASSUME SuccessInv, SendInv, TypeInv, TypeInv', [Next]_vars PROVE SuccessInv'
    OBVIOUS
  <2>1. CASE UNCHANGED vars
    BY <2>1 DEF vars, SuccessInv, SuccessHeld, SuccessIsReal, Committed, KeyOf, JobOf
  <2>2. QED
    BY <2>1, SuccessInvApi, SuccessInvWorker DEF Next
<1>3. QED
  BY SendInvInit, SuccessInvInit, TypeInvAlways, <1>1, <1>2, PTL DEF Spec

\* A job is reported COMPLETED, and a duplicate is answered from the cache, only when
\* the task really succeeded under that key: no order of retries, redeliveries, crashes
\* and early commits makes on_success speak for an effect that did not take place.
THEOREM NoFalseSuccess == Spec => []SuccessIsReal
<1>1. SuccessInv => SuccessIsReal
  BY DEF SuccessInv
<1>2. QED
  BY <1>1, SuccessInvAlways, PTL

-----------------------------------------------------------------------------
(* At-least-once delivery.                                                 *)

\* A child that owes the outcome of its message to j.
Owes(c, j) == HeldBy(c, j) /\ run[c].pc # "ack"

LEMMA AtLeastOnceInit == Init => AtLeastOnce
  BY DEF Init, AtLeastOnce, BrokerInit, Published

\* A child that lets go of its message has queued it again, or the next attempt, or
\* has settled the job.
LEMMA NobodyForgets ==
  ASSUME TypeInv, SuccessInv, Worker, "queue_evict" \notin Faults,
         NEW c \in Children, NEW j \in Jobs, Owes(c, j)
  PROVE  \/ Owes(c, j)'
         \/ Queued(j)'
         \/ Settled(j)'
<1> USE DEF TypeInv, TypeOK
<1>1. j = JobOf(c) /\ Busy(c) /\ Published(j) /\ run[c].retries \in Attempts /\ KeyOf(c) \in AllKeys
  BY DEF Owes, HeldBy, ChildShape, TaskTypeOK, Child, KeyOf, JobOf, BrokerTypeOK, Published
<1>2. UNCHANGED kwargs /\ Published(j)'
  BY <1>1, WorkerKeepsRows DEF Published
<1>3. CASE run'[c] = run[c]
  BY <1>3 DEF Owes, HeldBy, Busy, JobOf
<1>4. ASSUME NEW pc, Goto(c, pc), pc \notin {"idle", "ack"}
      PROVE  Owes(c, j)'
  BY <1>4 DEF Goto, Owes, HeldBy, Busy, JobOf, TaskTypeOK, Child
<1>5. ASSUME NEW n \in Attempts, Enqueue(j, n)
      PROVE  Queued(j)'
  BY <1>5 DEF Enqueue, Queued, BrokerTypeOK
<1>6. ASSUME NEW fate, Ended(j, fate)
      PROVE  Settled(j)'
  BY <1>2, <1>6 DEF Ended, Settled, TaskTypeOK
<1>7. CASE BeforeStart(c) \/ OnSuccess(c) \/ SendToDlq(c) \/ MarkFailed(c)
  BY <1>4, <1>7 DEF BeforeStart, OnSuccess, SendToDlq, MarkFailed
<1>8. CASE CheckIdempotency(c)
  BY <1>4, <1>8 DEF CheckIdempotency, RetryOrFail
<1>9. CASE Execute(c)
  <2>1. CASE run' = [run EXCEPT ![c].pc = "send_to_dlq", ![c].again = TRUE]
    BY <2>1 DEF Owes, HeldBy, Busy, JobOf, TaskTypeOK, Child
  <2>2. CASE Goto(c, "on_success") \/ RetryOrFail(c)
    BY <1>4, <2>2 DEF RetryOrFail
  <2>3. QED
    BY <1>9, <2>1, <2>2 DEF Execute
<1>10. CASE Retry(c)
  <2>1. run[c].retries + 1 \in Attempts
    BY <1>1, <1>10, BrokerAssumption DEF Retry, ChildShape, Attempts
  <2>2. QED
    BY <1>1, <1>5, <1>10, <2>1 DEF Retry
<1>11. CASE StoreIdempotencyResult(c)
  <2>1. effects[KeyOf(c)] > 0
    BY <1>11 DEF StoreIdempotencyResult, SuccessInv, SuccessHeld
  <2>2. Settled(j)'
    BY <1>1, <1>2, <1>11, <2>1 DEF StoreIdempotencyResult, Settled, KeyOf, JobOf
  <2>3. QED
    BY <2>2
<1>12. CASE MarkDlq(c) \/ RetryLost(c)
  BY <1>1, <1>6, <1>12 DEF MarkDlq, RetryLost
<1>13. CASE Redeliver(c) \/ ChildLost(c)
  BY <1>1, <1>5, <1>13 DEF Redeliver, ChildLost, Owes, HeldBy
<1>14. CASE WorkerRestart
  <2>1. c \in Unacked(j, run[c].retries)
    BY <1>1 DEF Unacked, Owes, HeldBy
  <2>2. /\ Cardinality(Unacked(j, run[c].retries)) \in Nat
        /\ Cardinality(Unacked(j, run[c].retries)) > 0
    BY <1>1, <2>1, UnackedCount
  <2>3. queue'[j][run[c].retries] > 0
    <3>1. queue'[j][run[c].retries]
            = queue[j][run[c].retries] + Cardinality(Unacked(j, run[c].retries))
      BY <1>1, <1>14 DEF WorkerRestart
    <3>2. queue[j][run[c].retries] \in Nat
      BY <1>1 DEF BrokerTypeOK
    <3>3. QED
      BY <2>2, <3>1, <3>2
  <2>4. QED
    BY <1>1, <2>3 DEF Queued
<1>15. CASE HookStep(c) \/ WorkerFault(c)
  <2>1. ~Ack(c)
    BY DEF Ack, Owes
  <2>2. QED
    BY <1>7, <1>8, <1>9, <1>10, <1>11, <1>12, <1>13, <1>15, <2>1 DEF HookStep, WorkerFault
<1>16. ASSUME NEW d \in Children, d # c, HookStep(d) \/ WorkerFault(d)
       PROVE  run'[c] = run[c]
  BY <1>16 DEF HookStep, BeforeStart, CheckIdempotency, Execute, Retry, OnSuccess, RetryOrFail,
     StoreIdempotencyResult, SendToDlq, MarkFailed, MarkDlq, Ack, Goto, Release, WorkerFault,
     RetryLost, Redeliver, ChildLost, TaskTypeOK
<1>17. ASSUME NEW d \in Children, NEW i \in Jobs,
              DlqReceive(d, i) \/ \E n \in Attempts : Deliver(d, i, n)
       PROVE  run'[c] = run[c]
  BY <1>1, <1>17 DEF DlqReceive, Deliver, Busy, TaskTypeOK
<1>18. CASE (\E i \in Jobs : ProcessStep(i)) \/ PlatformFault
  <2>1. ~QueueEvict
    BY DEF QueueEvict, Fault
  <2>2. QED
    BY <1>3, <1>14, <1>18, <2>1 DEF ProcessStep, RevokeArrives, DiscardRevoked, PlatformFault,
       CacheEvict
<1>19. QED
  BY <1>3, <1>15, <1>16, <1>17, <1>18 DEF Worker, WorkerNext, WorkerStep

\* Messages that stay, or come, keep the job queued.
LEMMA StillQueued ==
  ASSUME TypeInv, TypeInv', NEW j \in Jobs, NEW n \in Attempts,
         queue[j][n] > 0, queue'[j][n] >= queue[j][n]
  PROVE  Queued(j)'
<1>1. queue[j][n] \in Nat /\ queue'[j][n] \in Nat
  BY DEF TypeInv, TypeOK, BrokerTypeOK
<1>2. queue'[j][n] > 0
  BY <1>1
<1>3. QED
  BY <1>2 DEF Queued

\* A message leaves the queue for a child that owes its outcome, or as revoked.
LEMMA NothingIsLost ==
  ASSUME TypeInv, Worker, "queue_evict" \notin Faults, NEW j \in Jobs, Queued(j)
  PROVE  \/ Queued(j)'
         \/ \E c \in Children : Owes(c, j)'
         \/ Settled(j)'
<1> USE DEF TypeInv, TypeOK
<1>1. PICK n \in Attempts : queue[j][n] > 0
  BY DEF Queued
<1>2. Published(j)'
  BY <1>1, WorkerKeepsRows DEF QueueShape, Published
<1> TypeInv'
  BY TypeInvStep DEF Next
<1>3. CASE queue'[j][n] >= queue[j][n]
  BY <1>1, <1>3, StillQueued
<1>4. CASE UNCHANGED queue
  BY <1>3, <1>4 DEF BrokerTypeOK
<1>5. ASSUME NEW i \in Jobs, NEW m \in Attempts, Enqueue(i, m)
      PROVE  queue'[j][n] >= queue[j][n]
  BY <1>5 DEF Enqueue, BrokerTypeOK
<1>6. ASSUME NEW i \in Jobs, NEW m \in Attempts, Dequeue(i, m), i # j
      PROVE  queue'[j][n] >= queue[j][n]
  BY <1>6 DEF Dequeue, BrokerTypeOK
<1>7. ASSUME NEW c \in Children, NEW i \in Jobs, NEW m \in Attempts, Deliver(c, i, m)
      PROVE  Queued(j)' \/ Owes(c, j)'
  <2>1. CASE i = j
    BY <1>7, <2>1 DEF Deliver, Owes, HeldBy, Busy, JobOf, IdleChild, TaskTypeOK
  <2>2. CASE i # j
    BY <1>1, <1>6, <1>7, <2>2, StillQueued DEF Deliver
  <2>3. QED
    BY <2>1, <2>2
<1>8. ASSUME NEW i \in Jobs, NEW m \in Attempts, DiscardRevoked(i, m)
      PROVE  Queued(j)' \/ Settled(j)'
  <2>1. CASE i = j
    BY <1>2, <1>8, <2>1 DEF DiscardRevoked, Ended, Settled, TaskTypeOK
  <2>2. CASE i # j
    BY <1>1, <1>6, <1>8, <2>2, StillQueued DEF DiscardRevoked
  <2>3. QED
    BY <2>1, <2>2
<1>9. ASSUME NEW c \in Children, Retry(c) \/ Redeliver(c) \/ ChildLost(c)
      PROVE  Queued(j)'
  <2>1. /\ JobOf(c) \in Jobs
        /\ run[c].retries \in Attempts
        /\ Retry(c) => run[c].retries + 1 \in Attempts
    BY <1>9, BrokerAssumption
       DEF Retry, Redeliver, ChildLost, Busy, ChildShape, TaskTypeOK, Child, Attempts
  <2>2. queue'[j][n] >= queue[j][n]
    BY <1>4, <1>5, <1>9, <2>1 DEF Retry, Redeliver, ChildLost, BrokerTypeOK
  <2>3. QED
    BY <1>1, <2>2, StillQueued
<1>10. CASE WorkerRestart
  <2>1. queue'[j][n] = queue[j][n] + Cardinality(Unacked(j, n))
    BY <1>10 DEF WorkerRestart
  <2>2. QED
    BY <1>1, <1>3, <2>1, UnackedCount DEF BrokerTypeOK
<1>11. ASSUME NEW c \in Children, HookStep(c) \/ WorkerFault(c)
       PROVE  Retry(c) \/ Redeliver(c) \/ ChildLost(c) \/ UNCHANGED queue
  BY <1>11 DEF HookStep, BeforeStart, CheckIdempotency, Execute, OnSuccess,
     StoreIdempotencyResult, SendToDlq, MarkFailed, MarkDlq, Ack, WorkerFault, RetryLost, brokerVars
<1>12. CASE \E c \in Children : WorkerStep(c) \/ WorkerFault(c)
  BY <1>4, <1>7, <1>9, <1>11, <1>12 DEF WorkerStep, DlqReceive
<1>13. CASE (\E i \in Jobs : ProcessStep(i)) \/ PlatformFault
  <2>1. ~QueueEvict
    BY DEF QueueEvict, Fault
  <2>2. QED
    BY <1>4, <1>8, <1>10, <1>13, <2>1 DEF ProcessStep, RevokeArrives, PlatformFault, CacheEvict
<1>14. QED
  BY <1>12, <1>13 DEF Worker, WorkerNext

LEMMA AtLeastOnceStep ==
  ASSUME TypeInv, SendInv, SuccessInv, AtLeastOnce, [Next]_vars, "queue_evict" \notin Faults
  PROVE  AtLeastOnce'
<1> SUFFICES ASSUME NEW j \in Jobs, Published(j)'
             PROVE  \/ Queued(j)'
                    \/ \E c \in Children : Owes(c, j)'
                    \/ Settled(j)'
  BY DEF AtLeastOnce, Owes
<1>1. CASE UNCHANGED vars
  BY <1>1 DEF vars, AtLeastOnce, Published, Queued, HeldBy, Busy, JobOf, Settled, Owes
<1>2. ASSUME NEW r \in Requests, Api(r)
      PROVE  \/ Queued(j)'
             \/ \E c \in Children : Owes(c, j)'
             \/ Settled(j)'
  <2>1. CASE ~Published(j)
    BY <1>2, <2>1, ApiKeeps, BrokerAssumption DEF Queued, Attempts
  <2>2. CASE Published(j)
    <3>1. kwargs'[j] = kwargs[j] /\ UNCHANGED <<run, effects, fates>>
      BY <1>2, <2>2, ApiKeeps DEF Api
    <3>2. Queued(j) => Queued(j)'
      <4>1. \A n \in Attempts : queue'[j][n] >= queue[j][n]
        BY <1>2, ApiKeeps
      <4>2. TypeInv'
        BY TypeInvStep
      <4>3. QED
        BY <4>1, <4>2, StillQueued DEF Queued
    <3>3. Settled(j) => Settled(j)'
      BY <3>1 DEF Settled, Published
    <3>4. \A c \in Children : Owes(c, j) => Owes(c, j)'
      BY <3>1 DEF Owes, HeldBy, Busy, JobOf
    <3>5. QED
      BY <2>2, <3>2, <3>3, <3>4 DEF AtLeastOnce, Owes
  <2>3. QED
    BY <2>1, <2>2
<1>3. CASE Worker
  <2>1. UNCHANGED kwargs /\ Published(j)
    BY <1>3, WorkerKeepsRows DEF Published
  <2>2. Settled(j) => Settled(j)'
    <3>1. /\ \A key \in AllKeys : effects'[key] >= effects[key]
          /\ fates[j] \subseteq fates'[j]
      BY HistoryGrows
    <3>2. kwargs[j] \in AllKeys
      BY <2>1 DEF Published, TypeInv, TypeOK, BrokerTypeOK
    <3>3. effects[kwargs[j]] \in Nat /\ effects'[kwargs[j]] >= effects[kwargs[j]]
      BY <3>1, <3>2 DEF TypeInv, TypeOK, TaskTypeOK
    <3>4. effects[kwargs[j]] > 0 => Settled(j)'
      <4>1. effects[kwargs[j]] > 0 => effects'[kwargs'[j]] > 0
        <5>1. TypeInv'
          BY TypeInvStep
        <5>2. effects'[kwargs[j]] \in Nat
          BY <3>2, <5>1 DEF TypeInv, TypeOK, TaskTypeOK
        <5>3. QED
          BY <2>1, <3>3, <5>2
      <4>2. QED
        BY <2>1, <4>1 DEF Settled, Published
    <3>5. fates[j] # {} => Settled(j)'
      BY <2>1, <3>1 DEF Settled, Published
    <3>6. QED
      BY <3>4, <3>5 DEF Settled
  <2>3. QED
    BY <1>3, <2>1, <2>2, NobodyForgets, NothingIsLost DEF AtLeastOnce, Owes
<1>4. QED
  BY <1>1, <1>2, <1>3 DEF Next

\* At-least-once delivery, for any number of crashes, restarts, redeliveries and lost
\* replies, as long as Redis does not evict the queue itself.
THEOREM DeliveredAtLeastOnce ==
  ASSUME "queue_evict" \notin Faults
  PROVE  Spec => []AtLeastOnce
<1>1. AtLeastOnce /\ TypeInv /\ SendInv /\ SuccessInv /\ [Next]_vars => AtLeastOnce'
  BY AtLeastOnceStep
<1>2. QED
  BY AtLeastOnceInit, SuccessInvAlways, <1>1, PTL DEF Spec
=============================================================================
