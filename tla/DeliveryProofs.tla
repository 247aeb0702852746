--------------------------- MODULE DeliveryProofs ---------------------------
(***************************************************************************)
(* Theorems about submission and about retries from the DLQ (what the      *)
(* unique index and the order of the reads give), and the refinement: the  *)
(* system implements Delivery as long as Redis does not evict the queue.   *)
(* For all sets of jobs, keys, requests and children, any max_retries and  *)
(* any number of faults.                                                   *)
(***************************************************************************)
EXTENDS AegisProofs

-----------------------------------------------------------------------------
(* Idempotent submission.                                                  *)

\* r has made its INSERT and neither committed nor rolled back.
Inserted(r) == req[r].pc \in {"send", "commit"}

\* The unique index: neither two committed rows, nor two open INSERTs, nor a
\* committed row and an open INSERT have the same key.
KeysAreUnique ==
  /\ \A i, j \in Jobs : Committed(i) /\ Committed(j) /\ rows[i].key = rows[j].key => i = j
  /\ \A r, q \in Requests : Inserted(r) /\ Inserted(q) /\ r # q => req[r].row.key # req[q].row.key
  /\ \A r \in Requests, j \in Jobs : Inserted(r) /\ Committed(j) => rows[j].key # req[r].row.key

\* A request to create carries its key in its row, and a positive answer names a
\* committed row with that key.
AnswerIsRow(r) ==
  req[r].op = "create" =>
    /\ req[r].pc \in {"flush", "send", "commit"} => req[r].row.key = req[r].key
    /\ req[r].code \in {200, 201} => /\ req[r].job \in Jobs
                                     /\ Committed(req[r].job)
                                     /\ rows[req[r].job].key = req[r].key

\* Only a cancellation is revoking or updating.
Cancels(r) == req[r].pc \in {"revoke", "update"} => req[r].op = "cancel"

SubmitInv == KeysAreUnique /\ \A r \in Requests : AnswerIsRow(r) /\ Cancels(r)

LEMMA SubmitInvInit == Init => SubmitInv
  BY ServiceAssumption DEF Init, SubmitInv, KeysAreUnique, AnswerIsRow, Cancels, Inserted,
     ServiceInit, NoRequest, Committed, Codes

LEMMA StartEffect ==
  ASSUME ServiceTypeOK, NEW r \in Requests, NEW op, NEW pc, NEW key, NEW job, NEW row, NEW code,
         Start(r, op, pc, key, job, row, code)
  PROVE  /\ \A q \in Requests \ {r} : req'[q] = req[q]
         /\ req'[r] = [pc |-> pc, op |-> op, key |-> key, job |-> job, row |-> row, code |-> code]
  BY DEF Start, ServiceTypeOK

\* A step of one request leaves the others alone.
LEMMA OthersWait ==
  ASSUME TypeInv, NEW r \in Requests, Api(r)
  PROVE  \A q \in Requests \ {r} : req'[q] = req[q]
<1>1. req \in [Requests -> Request]
  BY DEF TypeInv, TypeOK, ServiceTypeOK
<1>2. CASE ServiceCall(r)
  BY <1>1, <1>2 DEF ServiceCall, TaskNotAllowed, CreateJob, CancelJob, RetryDlqJob, Start, Respond
<1>3. CASE ServiceStep(r) \/ ServiceFault(r)
  BY <1>1, <1>3 DEF ServiceStep, ServiceFault, Flush, Send, SendError, Commit, CommitError, Revoke,
     RevokeError, CancelUpdate, CancelUpdateError, ApiCrash, Step, Respond
<1>4. QED
  BY <1>2, <1>3 DEF Api, ServiceNext

\* A step that changes no key in the table, and opens no INSERT.
LEMMA NoInsert ==
  ASSUME SubmitInv, NEW r \in Requests, \A i \in Jobs : SameRow(i),
         \A q \in Requests \ {r} : req'[q] = req[q],
         Inserted(r)' => Inserted(r) /\ req'[r].row = req[r].row,
         AnswerIsRow(r)', Cancels(r)'
  PROVE  SubmitInv'
<1>1. KeysAreUnique'
  BY DEF SubmitInv, KeysAreUnique, Inserted, SameRow
<1>2. \A q \in Requests \ {r} : AnswerIsRow(q)' /\ Cancels(q)'
  BY DEF SubmitInv, AnswerIsRow, Cancels, SameRow
<1>3. QED
  BY <1>1, <1>2 DEF SubmitInv

\* The end of a request other than with a new row.
LEMMA RespondSubmit ==
  ASSUME TypeInv, SubmitInv, NEW r \in Requests, NEW code, NEW job,
         Respond(r, code, job), \A i \in Jobs : SameRow(i),
         code \in {200, 201} => req[r].op # "create"
  PROVE  SubmitInv'
<1>1. /\ \A q \in Requests \ {r} : req'[q] = req[q]
      /\ req'[r].pc = "done" /\ req'[r].code = code /\ req'[r].op = req[r].op
  BY RespondEffect DEF TypeInv, TypeOK
<1>2. AnswerIsRow(r)' /\ Cancels(r)'
  BY <1>1 DEF AnswerIsRow, Cancels
<1>3. QED
  BY <1>1, <1>2, NoInsert DEF Inserted

\* The beginning of a request.
LEMMA StartSubmit ==
  ASSUME TypeInv, SubmitInv, NEW r \in Requests, NEW op, NEW pc \in {"flush", "revoke", "done"},
         NEW key, NEW job, NEW row, NEW code,
         Start(r, op, pc, key, job, row, code), UNCHANGED rows,
         pc = "revoke" => op = "cancel",
         op = "create" /\ pc = "flush" => row.key = key,
         op = "create" /\ code \in {200, 201} => job \in WithKey(key)
  PROVE  SubmitInv'
<1>1. /\ \A q \in Requests \ {r} : req'[q] = req[q]
      /\ req'[r] = [pc |-> pc, op |-> op, key |-> key, job |-> job, row |-> row, code |-> code]
  BY StartEffect DEF TypeInv, TypeOK
<1>2. AnswerIsRow(r)' /\ Cancels(r)'
  BY <1>1 DEF AnswerIsRow, Cancels, WithKey, Committed
<1>3. \A i \in Jobs : SameRow(i)
  BY DEF SameRow, Committed
<1>4. QED
  BY <1>1, <1>2, <1>3, NoInsert DEF Inserted

LEMMA SubmitInvCall ==
  ASSUME TypeInv, SubmitInv, NEW r \in Requests, ServiceCall(r)
  PROVE  SubmitInv'
<1>1. None \notin Codes /\ 200 \in Codes /\ 201 \in Codes
  BY ServiceAssumption DEF Codes
<1>2. CASE TaskNotAllowed(r)
  BY <1>2, RespondSubmit DEF TaskNotAllowed, SameRow, Committed
<1>3. ASSUME NEW key \in Keys, CreateJob(r, key)
      PROVE  SubmitInv'
  <2>1. ASSUME NEW j \in WithKey(key), Start(r, "create", "done", key, j, None, 200)
        PROVE  SubmitInv'
    <3>1. UNCHANGED rows
      BY <1>3 DEF CreateJob
    <3>2. QED
      BY <2>1, <3>1, StartSubmit, ZenonT(60)
  <2>2. ASSUME NEW j \in Jobs, Start(r, "create", "flush", key, j, NewJob(key, None, 0), None)
        PROVE  SubmitInv'
    <3>1. NewJob(key, None, 0).key = key
      BY DEF NewJob
    <3>2. QED
      BY <1>1, <1>3, <2>2, <3>1, StartSubmit DEF CreateJob
  <2>3. QED
    BY <1>3, <2>1, <2>2 DEF CreateJob
<1>4. ASSUME NEW j \in Jobs, CancelJob(r, j)
      PROVE  SubmitInv'
  BY <1>1, <1>4, StartSubmit DEF CancelJob
<1>5. ASSUME NEW j \in Jobs, RetryDlqJob(r, j)
      PROVE  SubmitInv'
  <2>1. ASSUME NEW pc \in {"flush", "done"}, NEW job, NEW row, NEW code,
               Start(r, "retry", pc, None, job, row, code)
        PROVE  SubmitInv'
    BY <1>5, <2>1, StartSubmit DEF RetryDlqJob
  <2>2. QED
    BY <1>5, <2>1 DEF RetryDlqJob
<1>6. QED
  BY <1>2, <1>3, <1>4, <1>5 DEF ServiceCall

\* The INSERT waits until no other INSERT of the key is open, and fails when it finds
\* one committed: what is open and what is committed stays unique.
LEMMA SubmitInvFlush ==
  ASSUME TypeInv, SubmitInv, NEW r \in Requests, Flush(r)
  PROVE  SubmitInv'
<1>1. CASE WithKey(req[r].row.key) # {}
  BY <1>1, RespondSubmit DEF Flush, SameRow, Committed
<1>2. CASE WithKey(req[r].row.key) = {}
  <2>1. /\ \A q \in Requests \ {r} : req'[q] = req[q]
        /\ req'[r].pc = "send" /\ req'[r].code = req[r].code /\ req'[r].job = req[r].job
        /\ req'[r].op = req[r].op /\ req'[r].key = req[r].key /\ req'[r].row = req[r].row
    BY <1>2, StepEffect DEF Flush, TypeInv, TypeOK
  <2>2. \A q \in Requests \ {r} : Inserted(q) => req[q].row.key # req[r].row.key
    BY DEF Flush, Inserting, Inserted
  <2>3. \A j \in Jobs : Committed(j) => rows[j].key # req[r].row.key
    BY <1>2 DEF WithKey
  <2>4. UNCHANGED rows
    BY DEF Flush
  <2>5. KeysAreUnique'
    BY <2>1, <2>2, <2>3, <2>4 DEF SubmitInv, KeysAreUnique, Inserted, Committed
  <2>6. AnswerIsRow(r)' /\ Cancels(r)'
    BY <2>1, <2>4 DEF SubmitInv, AnswerIsRow, Cancels, Flush, Committed
  <2>7. \A q \in Requests \ {r} : AnswerIsRow(q)' /\ Cancels(q)'
    BY <2>1, <2>4 DEF SubmitInv, AnswerIsRow, Cancels, Committed
  <2>8. QED
    BY <2>5, <2>6, <2>7 DEF SubmitInv
<1>3. QED
  BY <1>1, <1>2

\* What a commit inserts is not in the table yet.
LEMMA CommitIsNew ==
  ASSUME TypeInv, SendInv, SubmitInv, NEW r \in Requests, req[r].pc = "commit"
  PROVE  req[r].job \in Jobs /\ req[r].row \in Job /\ ~Committed(req[r].job)
<1>1. req[r].job \in Jobs /\ req[r].row \in Job
  BY DEF TypeInv, RequestShape
<1>2. kwargs[req[r].job] = req[r].row.key
  BY DEF SendInv
<1>3. Committed(req[r].job) => kwargs[req[r].job] = rows[req[r].job].key
  BY <1>1 DEF SendInv, CommittedWasPublished
<1>4. Committed(req[r].job) => rows[req[r].job].key # req[r].row.key
  BY <1>1 DEF SubmitInv, KeysAreUnique, Inserted
<1>5. QED
  BY <1>1, <1>2, <1>3, <1>4

LEMMA SubmitInvCommit ==
  ASSUME TypeInv, SendInv, SubmitInv, NEW r \in Requests, Commit(r) \/ CommitError(r)
  PROVE  SubmitInv'
<1>1. CASE UNCHANGED rows /\ CommitError(r)
  BY <1>1, RespondSubmit DEF CommitError, SameRow, Committed
<1>2. CASE Insert(r)
  <2> DEFINE j == req[r].job
  <2>1. j \in Jobs /\ req[r].row \in Job /\ ~Committed(j) /\ req[r].pc = "commit"
    BY CommitIsNew DEF Commit, CommitError
  <2>2. /\ rows'[j] = req[r].row
        /\ \A i \in Jobs \ {j} : rows'[i] = rows[i]
        /\ \A i \in Jobs : Committed(i)' <=> (i = j \/ Committed(i))
    <3>1. rows' = [rows EXCEPT ![j] = req[r].row] /\ rows \in [Jobs -> Job \cup {None}]
      BY <1>2 DEF Insert, TypeInv, TypeOK, JobTableTypeOK
    <3>2. rows'[j] = req[r].row /\ \A i \in Jobs \ {j} : rows'[i] = rows[i]
      BY <2>1, <3>1
    <3>3. req[r].row # None
      BY <2>1, JobTableAssumption
    <3>4. QED
      BY <2>1, <3>2, <3>3 DEF Committed
  <2>3. /\ \A q \in Requests \ {r} : req'[q] = req[q]
        /\ req'[r].pc = "done"
        /\ req'[r].job = j \/ req'[r].code = 500
        /\ req'[r].op = req[r].op /\ req'[r].key = req[r].key
    BY RespondEffect DEF Commit, CommitError, TypeInv, TypeOK
  <2>4. \A i \in Jobs \ {j} : Committed(i) => rows[i].key # req[r].row.key
    BY <2>1 DEF SubmitInv, KeysAreUnique, Inserted
  <2>5. \A q \in Requests \ {r} : Inserted(q) => req[q].row.key # req[r].row.key
    BY <2>1 DEF SubmitInv, KeysAreUnique, Inserted
  <2>6. KeysAreUnique'
    <3>1. \A i, k \in Jobs : Committed(i)' /\ Committed(k)' /\ rows'[i].key = rows'[k].key => i = k
      BY <2>2, <2>4 DEF SubmitInv, KeysAreUnique
    <3>2. \A q \in Requests : Inserted(q)' => q # r /\ Inserted(q)
      BY <2>3 DEF Inserted
    <3>3. \A p, q \in Requests : Inserted(p)' /\ Inserted(q)' /\ p # q
                                   => req'[p].row.key # req'[q].row.key
      BY <2>3, <3>2 DEF SubmitInv, KeysAreUnique
    <3>4. \A q \in Requests, i \in Jobs : Inserted(q)' /\ Committed(i)' => rows'[i].key # req'[q].row.key
      BY <2>2, <2>3, <2>5, <3>2 DEF SubmitInv, KeysAreUnique
    <3>5. QED
      BY <3>1, <3>3, <3>4 DEF KeysAreUnique
  <2>7. AnswerIsRow(r)' /\ Cancels(r)'
    BY <2>1, <2>2, <2>3 DEF SubmitInv, AnswerIsRow, Cancels
  <2>8. \A q \in Requests \ {r} : AnswerIsRow(q)' /\ Cancels(q)'
    BY <2>1, <2>2, <2>3 DEF SubmitInv, AnswerIsRow, Cancels
  <2>9. QED
    BY <2>6, <2>7, <2>8 DEF SubmitInv
<1>3. QED
  BY <1>1, <1>2 DEF Commit, CommitError

LEMMA SubmitInvApi ==
  ASSUME TypeInv, SendInv, SubmitInv, NEW r \in Requests, Api(r)
  PROVE  SubmitInv'
<1>1. None \notin {200, 201}
  BY ServiceAssumption DEF Codes
<1>2. UNCHANGED rows => \A i \in Jobs : SameRow(i)
  BY DEF SameRow, Committed
<1>3. ASSUME NEW pc \in {"commit", "update"}, Step(r, pc), UNCHANGED rows,
             pc = "commit" => req[r].pc = "send", pc = "update" => req[r].pc = "revoke"
      PROVE  SubmitInv'
  <2>1. /\ \A q \in Requests \ {r} : req'[q] = req[q]
        /\ req'[r].pc = pc /\ req'[r].code = req[r].code /\ req'[r].job = req[r].job
        /\ req'[r].op = req[r].op /\ req'[r].key = req[r].key /\ req'[r].row = req[r].row
    BY <1>3, StepEffect DEF TypeInv, TypeOK
  <2>2. AnswerIsRow(r)' /\ Cancels(r)'
    BY <1>3, <2>1 DEF SubmitInv, AnswerIsRow, Cancels, Committed
  <2>3. QED
    BY <1>2, <1>3, <2>1, <2>2, NoInsert DEF Inserted
<1>4. CASE Send(r) \/ Revoke(r)
  BY <1>3, <1>4 DEF Send, Revoke
<1>5. CASE SendError(r) \/ RevokeError(r) \/ ApiCrash(r)
  BY <1>1, <1>2, <1>5, RespondSubmit DEF SendError, RevokeError, ApiCrash
<1>6. CASE CancelUpdate(r) \/ CancelUpdateError(r)
  <2>1. req[r].job \in Jobs /\ req[r].op = "cancel"
    BY <1>6 DEF CancelUpdate, CancelUpdateError, TypeInv, RequestShape, SubmitInv, Cancels
  <2>2. \A i \in Jobs : SameRow(i)
    BY <1>2, <1>6, <2>1, UpdateJobKeeps
       DEF CancelUpdate, CancelUpdateError, SameRow, JobStatus, TypeInv, TypeOK
  <2>3. QED
    BY <1>6, <2>1, <2>2, RespondSubmit DEF CancelUpdate, CancelUpdateError
<1>7. QED
  BY <1>4, <1>5, <1>6, SubmitInvCall, SubmitInvFlush, SubmitInvCommit
     DEF Api, ServiceNext, ServiceStep, ServiceFault

LEMMA SubmitInvWorker ==
  ASSUME TypeInv, SubmitInv, Worker
  PROVE  SubmitInv'
<1>1. (\A i \in Jobs : SameRow(i)) /\ UNCHANGED req
  BY WorkerKeepsRows
<1>2. QED
  BY <1>1 DEF SubmitInv, KeysAreUnique, AnswerIsRow, Cancels, Inserted, SameRow

LEMMA SubmitInvAlways == Spec => []SubmitInv
<1>1. SubmitInv /\ SendInv /\ TypeInv /\ [Next]_vars => SubmitInv'
  <2> SUFFICES ASSUME SubmitInv, SendInv, TypeInv, [Next]_vars PROVE SubmitInv'
    OBVIOUS
  <2>1. CASE UNCHANGED vars
    BY <2>1 DEF vars, SubmitInv, KeysAreUnique, AnswerIsRow, Cancels, Inserted, Committed
  <2>2. QED
    BY <2>1, SubmitInvApi, SubmitInvWorker DEF Next
<1>2. QED
  BY SubmitInvInit, SuccessInvAlways, <1>1, PTL DEF Spec

\* Submission is idempotent: two requests to create with one key that both succeed name
\* one and the same committed job, however many race between the SELECT, the INSERT and
\* the commit, and whatever crashes.
THEOREM SubmissionIsIdempotent == Spec => []SubmitIsIdempotent
<1>1. SubmitInv => SubmitIsIdempotent
  BY DEF SubmitInv, KeysAreUnique, AnswerIsRow, SubmitIsIdempotent
<1>2. QED
  BY <1>1, SubmitInvAlways, PTL

-----------------------------------------------------------------------------
(* Retries from the DLQ.                                                   *)

\* What row says of its parent is true of the table.
Descends(row) ==
  row.parent # None =>
    /\ row.parent \in Jobs
    /\ Committed(row.parent)
    /\ row.retry_count = rows[row.parent].retry_count + 1
    /\ "dlq" \in fates[row.parent]

Building(r) == req[r].pc \in {"flush", "send", "commit"}

LineageInv ==
  /\ \A j \in Jobs : Committed(j) => Descends(rows[j])
  /\ \A r \in Requests : Building(r) => Descends(req[r].row)
  /\ \A j \in Jobs : Committed(j) /\ rows[j].status = "DLQ" => "dlq" \in fates[j]

LEMMA LineageInvInit == Init => LineageInv
  BY DEF Init, LineageInv, Building, ServiceInit, NoRequest, Committed

\* Only on_failure makes a row DLQ, and it is then over.
LEMMA WhoIsDead ==
  ASSUME TypeInv, Worker, NEW j \in Jobs, Committed(j)', rows'[j].status = "DLQ"
  PROVE  Committed(j) /\ (rows[j].status = "DLQ" \/ "dlq" \in fates'[j])
<1>1. Committed(j)
  BY WorkerKeepsRows DEF SameRow
<1>2. CASE UNCHANGED rows
  BY <1>1, <1>2
<1>3. ASSUME NEW c \in Children, Busy(c), NEW s \in JobStatus, NEW n \in Nat,
             UpdateJobStatus(c, s, n), s # "DLQ"
      PROVE  rows[j].status = "DLQ"
  BY <1>1, <1>3, UpdateJobKeeps DEF UpdateJobStatus, TypeInv, TypeOK, ChildShape
<1>4. ASSUME NEW c \in Children, MarkDlq(c), rows[j].status # "DLQ"
      PROVE  "dlq" \in fates'[j]
  <2>1. JobOf(c) \in Jobs
    BY <1>4 DEF MarkDlq, Busy, TypeInv, ChildShape
  <2>2. JobOf(c) = j
    BY <1>1, <1>4, <2>1, UpdateJobKeeps
       DEF MarkDlq, UpdateJobStatus, JobStatus, TypeInv, TypeOK
  <2>3. QED
    BY <1>4, <2>2 DEF MarkDlq, Ended, TypeInv, TypeOK, TaskTypeOK
<1>5. ASSUME NEW c \in Children, BeforeStart(c) \/ OnSuccess(c) \/ MarkFailed(c)
      PROVE  rows[j].status = "DLQ"
  BY <1>3, <1>5 DEF BeforeStart, OnSuccess, MarkFailed, Busy, JobStatus
<1>6. ASSUME NEW c \in Children, HookStep(c)
      PROVE  BeforeStart(c) \/ OnSuccess(c) \/ MarkFailed(c) \/ MarkDlq(c) \/ UNCHANGED rows
  BY <1>6 DEF HookStep, CheckIdempotency, Execute, Retry, StoreIdempotencyResult, SendToDlq, Ack
<1>7. QED
  BY <1>1, <1>2, <1>4, <1>5, <1>6 DEF Worker, WorkerNext, WorkerStep, WorkerFault, ProcessStep,
     PlatformFault, DlqReceive, Deliver, RetryLost, Redeliver, ChildLost, RevokeArrives,
     DiscardRevoked, WorkerRestart, QueueEvict, CacheEvict

\* What is true of a parent stays true: its row is kept and its history grows.
LEMMA DescentStays ==
  ASSUME TypeInv, [Next]_vars, NEW row, Descends(row),
         \A i \in Jobs : Committed(i) => SameRow(i)
  PROVE  Descends(row)'
  BY HistoryGrows DEF Descends, SameRow

\* The API keeps the rows that are committed.
LEMMA ApiKeepsRows ==
  ASSUME TypeInv, SendInv, SubmitInv, NEW r \in Requests, Api(r), NEW i \in Jobs, Committed(i)
  PROVE  SameRow(i)
<1>1. CASE Insert(r) /\ req[r].pc = "commit"
  <2>1. req[r].job \in Jobs /\ i # req[r].job
    BY <1>1, CommitIsNew
  <2>2. rows'[i] = rows[i]
    BY <1>1, <2>1 DEF Insert, TypeInv, TypeOK, JobTableTypeOK
  <2>3. QED
    BY <2>2 DEF SameRow, Committed
<1>2. CASE UNCHANGED rows
  BY <1>2 DEF SameRow, Committed
<1>3. CASE CancelUpdate(r) \/ CancelUpdateError(r)
  <2>1. req[r].job \in Jobs
    BY <1>3 DEF CancelUpdate, CancelUpdateError, TypeInv, RequestShape
  <2>2. QED
    BY <1>2, <1>3, <2>1, UpdateJobKeeps
       DEF CancelUpdate, CancelUpdateError, SameRow, JobStatus, TypeInv, TypeOK
<1>4. QED
  BY <1>1, <1>2, <1>3 DEF Api, ServiceNext, ServiceCall, ServiceStep, ServiceFault, TaskNotAllowed,
     CreateJob, CancelJob, RetryDlqJob, Flush, Send, SendError, Commit, CommitError, Revoke,
     RevokeError, ApiCrash

\* The row of a request that goes on is the one it had, or a new one whose parent it
\* found committed and DLQ.
LEMMA RowsOfRequests ==
  ASSUME TypeInv, LineageInv, NEW r \in Requests, Api(r), NEW q \in Requests, Building(q)'
  PROVE  Descends(req'[q].row)
<1>1. CASE Building(q) /\ req'[q].row = req[q].row
  BY <1>1 DEF LineageInv
<1>2. ASSUME NEW code, NEW job, Respond(r, code, job)
      PROVE  Building(q) /\ req'[q].row = req[q].row
  BY <1>2, RespondEffect DEF Building, TypeInv, TypeOK
<1>3. ASSUME NEW pc \in {"send", "commit", "update"}, Step(r, pc),
             pc # "update" => Building(r)
      PROVE  Building(q) /\ req'[q].row = req[q].row
  BY <1>3, StepEffect DEF Building, TypeInv, TypeOK
<1>4. ASSUME NEW op, NEW pc, NEW key, NEW job, NEW row, NEW code,
             Start(r, op, pc, key, job, row, code), pc = "flush" => Descends(row),
             pc \in {"flush", "revoke", "done"}
      PROVE  Descends(req'[q].row)
  <2>1. /\ \A p \in Requests \ {r} : req'[p] = req[p]
        /\ req'[r].pc = pc /\ req'[r].row = row
    BY <1>4 DEF Start, TypeInv, TypeOK, ServiceTypeOK
  <2>2. CASE q = r
    BY <1>4, <2>1, <2>2 DEF Building
  <2>3. CASE q # r
    BY <1>1, <2>1, <2>3 DEF Building
  <2>4. QED
    BY <2>2, <2>3
<1>5. ASSUME NEW key \in Keys, CreateJob(r, key)
      PROVE  Descends(req'[q].row)
  <2>1. Descends(NewJob(key, None, 0))
    BY DEF Descends, NewJob
  <2>2. QED
    BY <1>4, <1>5, <2>1 DEF CreateJob
<1>6. ASSUME NEW p \in Jobs, RetryDlqJob(r, p)
      PROVE  Descends(req'[q].row)
  <2>1. ASSUME Committed(p), rows[p].status = "DLQ", NEW j \in Jobs
        PROVE  Descends(NewJob(j, p, rows[p].retry_count + 1))
    BY <2>1 DEF Descends, NewJob, LineageInv
  <2>2. QED
    BY <1>4, <1>6, <2>1 DEF RetryDlqJob
<1>7. ASSUME NEW p \in Jobs, CancelJob(r, p)
      PROVE  Descends(req'[q].row)
  BY <1>4, <1>7 DEF CancelJob
<1>8. CASE TaskNotAllowed(r)
  BY <1>1, <1>2, <1>8 DEF TaskNotAllowed
<1>9. CASE ServiceStep(r)
  BY <1>1, <1>2, <1>3, <1>9 DEF ServiceStep, Flush, Send, Commit, Revoke, CancelUpdate, Building
<1>10. CASE ServiceFault(r)
  BY <1>1, <1>2, <1>10
     DEF ServiceFault, SendError, CommitError, RevokeError, CancelUpdateError, ApiCrash
<1>11. QED
  BY <1>5, <1>6, <1>7, <1>8, <1>9, <1>10 DEF Api, ServiceNext, ServiceCall

LEMMA LineageInvApi ==
  ASSUME TypeInv, SendInv, SubmitInv, LineageInv, NEW r \in Requests, Api(r)
  PROVE  LineageInv'
<1>1. \A i \in Jobs : Committed(i) => SameRow(i)
  BY ApiKeepsRows
<1>2. [Next]_vars /\ UNCHANGED fates
  BY DEF Next, Api
<1>3. ASSUME NEW row, Descends(row)
      PROVE  Descends(row)'
  BY <1>1, <1>2, <1>3, DescentStays
<1>4. ASSUME NEW q \in Requests, Building(q)'
      PROVE  Descends(req[q].row)'
  <2>1. Descends(req'[q].row)
    BY <1>4, RowsOfRequests
  <2>2. QED
    BY <1>1, <1>2, <2>1, HistoryGrows DEF Descends, SameRow
<1>5. ASSUME NEW j \in Jobs, Committed(j)'
      PROVE  Descends(rows[j])'
  <2>1. Committed(j) => Descends(rows[j]) /\ rows'[j].parent = rows[j].parent
                                          /\ rows'[j].retry_count = rows[j].retry_count
    BY <1>1 DEF LineageInv, SameRow
  <2>2. ~Committed(j) => Building(r) /\ rows'[j] = req[r].row
    BY <1>5, ApiKeepsStatus DEF Building
  <2>3. CASE Committed(j)
    BY <1>1, <1>2, <2>1, <2>3, HistoryGrows DEF Descends, SameRow
  <2>4. CASE ~Committed(j)
    <3>1. Descends(req[r].row) /\ rows'[j] = req[r].row
      BY <2>2, <2>4 DEF LineageInv
    <3>2. QED
      BY <1>1, <1>2, <3>1, HistoryGrows DEF Descends, SameRow
  <2>5. QED
    BY <2>3, <2>4
<1>6. ASSUME NEW j \in Jobs, Committed(j)', rows'[j].status = "DLQ"
      PROVE  "dlq" \in fates'[j]
  BY <1>2, <1>6, ApiKeepsStatus DEF LineageInv, TypeInv, RequestShape
<1>7. QED
  BY <1>4, <1>5, <1>6 DEF LineageInv

LEMMA LineageInvWorker ==
  ASSUME TypeInv, LineageInv, Worker
  PROVE  LineageInv'
<1>1. (\A i \in Jobs : SameRow(i)) /\ UNCHANGED req
  BY WorkerKeepsRows
<1>2. [Next]_vars
  BY DEF Next
<1>3. ASSUME NEW q \in Requests, Building(q)'
      PROVE  Descends(req[q].row)'
  BY <1>1, <1>2, <1>3, HistoryGrows DEF LineageInv, Building, Descends, SameRow
<1>4. ASSUME NEW j \in Jobs, Committed(j)'
      PROVE  Descends(rows[j])'
  BY <1>1, <1>2, <1>4, HistoryGrows DEF LineageInv, Descends, SameRow
<1>5. ASSUME NEW j \in Jobs, Committed(j)', rows'[j].status = "DLQ"
      PROVE  "dlq" \in fates'[j]
  BY <1>2, <1>5, HistoryGrows, WhoIsDead DEF LineageInv
<1>6. QED
  BY <1>3, <1>4, <1>5 DEF LineageInv

\* A job made by the retry endpoint descends from a committed job that went through
\* on_failure, one generation younger, whatever overwrites the parent's status later.
THEOREM LineagesAreSound == Spec => []LineageIsSound
<1>1. LineageInv /\ SubmitInv /\ SendInv /\ TypeInv /\ [Next]_vars => LineageInv'
  <2> SUFFICES ASSUME LineageInv, SubmitInv, SendInv, TypeInv, [Next]_vars PROVE LineageInv'
    OBVIOUS
  <2>1. CASE UNCHANGED vars
    BY <2>1 DEF vars, LineageInv, Building, Descends, Committed
  <2>2. QED
    BY <2>1, LineageInvApi, LineageInvWorker DEF Next
<1>2. Spec => []LineageInv
  BY LineageInvInit, SubmitInvAlways, SuccessInvAlways, <1>1, PTL DEF Spec
<1>3. LineageInv => LineageIsSound
  BY DEF LineageInv, LineageIsSound, Descends
<1>4. QED
  BY <1>2, <1>3, PTL

-----------------------------------------------------------------------------
(* The refinement: what is open, and what is answered.                     *)

Open == {j \in Jobs : InFlight(j)}

\* A response is the last thing of a request.
AnswersEnd == \A r \in Requests : req[r].code # None => req[r].pc = "done"

-----------------------------------------------------------------------------
(* The API: what it submits and what it answers.                           *)

\* A request that had no response yet adds its job to those answered, if it creates
\* one and succeeds.
LEMMA AnsweredGrows ==
  ASSUME AnswersEnd, NEW r \in Requests, req[r].pc # "done",
         \A q \in Requests \ {r} : req'[q] = req[q]
  PROVE  Answered' = Answered \cup (IF /\ req'[r].op \in {"create", "retry"}
                                       /\ req'[r].code \in {200, 201}
                                    THEN {req'[r].job} ELSE {})
<1>1. req[r].code \notin {200, 201}
  BY ServiceAssumption DEF AnswersEnd, Codes
<1>2. QED
  BY <1>1 DEF Answered

LEMMA AnsweredStays ==
  ASSUME AnswersEnd, NEW r \in Requests, req[r].pc # "done",
         \A q \in Requests \ {r} : req'[q] = req[q],
         req'[r].code \notin {200, 201} \/ req'[r].op = "cancel"
  PROVE  Answered' = Answered
<1>1. ~(req'[r].op \in {"create", "retry"} /\ req'[r].code \in {200, 201})
  OBVIOUS
<1>2. QED
  BY <1>1, AnsweredGrows, Zenon

\* What stays open when neither the queue nor the children change.
LEMMA OpenStays == ASSUME UNCHANGED <<queue, run>> PROVE Open' = Open
  BY DEF Open, InFlight, Queued, Busy, JobOf

LEMMA CallAnswers ==
  ASSUME TypeInv, SendInv, SubmitInv, AnswersEnd, NEW r \in Requests, Api(r), ServiceCall(r)
  PROVE  (\E j \in Jobs : Promise!Answer(j)) \/ UNCHANGED Promise!vars
<1>1. UNCHANGED <<kwargs, effects, fates, queue, run>>
  BY DEF Api, ServiceCall, TaskNotAllowed, CreateJob, CancelJob, RetryDlqJob
<1>2. Open' = Open
  BY <1>1, OpenStays
<1>3. req[r].pc # "done"
  BY DEF ServiceCall, TaskNotAllowed, CreateJob, CancelJob, RetryDlqJob
<1>4. None \notin {200, 201}
  BY ServiceAssumption DEF Codes
<1>5. ASSUME Answered' = Answered
      PROVE  UNCHANGED Promise!vars
  BY <1>1, <1>2, <1>5 DEF Promise!vars, Open
<1>6. ASSUME NEW op, NEW pc, NEW key, NEW job, NEW row, NEW code,
             Start(r, op, pc, key, job, row, code),
             op = "cancel" \/ code \notin {200, 201}
      PROVE  UNCHANGED Promise!vars
  <2>1. /\ \A q \in Requests \ {r} : req'[q] = req[q]
        /\ req'[r].op = op /\ req'[r].code = code
    BY <1>6 DEF Start, TypeInv, TypeOK, ServiceTypeOK
  <2>2. Answered' = Answered
    BY <1>3, <1>6, <2>1, AnsweredStays
  <2>3. QED
    BY <1>5, <2>2
<1>7. CASE TaskNotAllowed(r)
  <2>1. /\ \A q \in Requests \ {r} : req'[q] = req[q]
        /\ req'[r].code = 400
    BY <1>7, RespondEffect DEF TaskNotAllowed, TypeInv, TypeOK
  <2>2. Answered' = Answered
    BY <1>3, <2>1, AnsweredStays
  <2>3. QED
    BY <1>5, <2>2
<1>8. ASSUME NEW j \in Jobs, CancelJob(r, j)
      PROVE  UNCHANGED Promise!vars
  BY <1>6, <1>8 DEF CancelJob
<1>9. ASSUME NEW j \in Jobs, RetryDlqJob(r, j)
      PROVE  UNCHANGED Promise!vars
  <2>1. ASSUME NEW pc, NEW job, NEW row, NEW code \in {404, 409, None},
               Start(r, "retry", pc, None, job, row, code)
        PROVE  UNCHANGED Promise!vars
    BY <1>4, <1>6, <2>1
  <2>2. QED
    BY <1>9, <2>1 DEF RetryDlqJob
<1>10. ASSUME NEW key \in Keys, CreateJob(r, key)
       PROVE  (\E j \in Jobs : Promise!Answer(j)) \/ UNCHANGED Promise!vars
  <2>1. ASSUME NEW j \in WithKey(key), Start(r, "create", "done", key, j, None, 200)
        PROVE  Promise!Answer(j) /\ j \in Jobs
    <3>1. j \in Jobs /\ kwargs[j] = rows[j].key /\ rows[j].key = key
      BY DEF WithKey, SendInv, CommittedWasPublished
    <3>2. kwargs[j] # None
      BY <3>1, JobTableAssumption
    <3>3. /\ \A q \in Requests \ {r} : req'[q] = req[q]
          /\ req'[r].op = "create" /\ req'[r].code = 200 /\ req'[r].job = j
      BY <2>1 DEF Start, TypeInv, TypeOK, ServiceTypeOK
    <3>4. Answered' = Answered \cup {j}
      BY <1>3, <3>3, AnsweredGrows
    <3>5. QED
      BY <1>1, <1>2, <3>1, <3>2, <3>4 DEF Promise!Answer, Open
  <2>2. ASSUME NEW j \in Jobs, Start(r, "create", "flush", key, j, NewJob(key, None, 0), None)
        PROVE  UNCHANGED Promise!vars
    BY <1>4, <1>6, <2>2
  <2>3. QED
    BY <1>10, <2>1, <2>2 DEF CreateJob
<1>11. QED
  BY <1>7, <1>8, <1>9, <1>10 DEF ServiceCall

LEMMA SendSubmits ==
  ASSUME TypeInv, SendInv, AnswersEnd, NEW r \in Requests, Api(r),
         Send(r) \/ (SendError(r) /\ SendTask(req[r].job, req[r].row.key))
  PROVE  \E j \in Jobs : \E key \in AllKeys : Promise!Submit(j, key)
<1> DEFINE j == req[r].job
           key == req[r].row.key
<1>1. j \in Jobs /\ key \in AllKeys /\ kwargs[j] = None /\ req[r].pc = "send"
  BY DEF Send, SendError, TypeInv, RequestShape, SendInv, Unsent, Published, Job
<1>2. /\ kwargs' = [kwargs EXCEPT ![j] = key]
      /\ queue' = [queue EXCEPT ![j][0] = @ + 1]
      /\ UNCHANGED <<run, effects, fates>>
  BY DEF Send, SendError, SendTask, Enqueue, Api
<1>3. Answered' = Answered
  <2>1. /\ \A q \in Requests \ {r} : req'[q] = req[q]
        /\ req'[r].code = req[r].code \/ req'[r].code = 500
        /\ req[r].code = None
    BY <1>1, StepEffect, RespondEffect DEF Send, SendError, AnswersEnd, TypeInv, TypeOK
  <2>2. QED
    BY <1>1, <2>1, AnsweredStays, ServiceAssumption DEF Codes
<1>4. Open' = Open \cup {j}
  <2>1. 0 \in Attempts /\ queue \in [Jobs -> [Attempts -> Nat]]
    BY BrokerAssumption DEF Attempts, TypeInv, TypeOK, BrokerTypeOK
  <2>2. queue'[j][0] > 0
    BY <1>1, <1>2, <2>1
  <2>3. \A i \in Jobs, n \in Attempts : queue[i][n] > 0 => queue'[i][n] > 0
    BY <1>1, <1>2, <2>1
  <2>4. \A i \in Jobs \ {j}, n \in Attempts : queue'[i][n] = queue[i][n]
    BY <1>1, <1>2, <2>1
  <2>5. \A i \in Jobs : InFlight(i)' <=> (i = j \/ InFlight(i))
    BY <1>1, <1>2, <2>1, <2>2, <2>3, <2>4 DEF InFlight, Queued, Busy, JobOf
  <2>6. QED
    BY <1>1, <2>5 DEF Open
<1>5. Promise!Submit(j, key)
  BY <1>1, <1>2, <1>3, <1>4 DEF Promise!Submit, Open
<1>6. QED
  BY <1>1, <1>5

LEMMA CommitAnswers ==
  ASSUME TypeInv, SendInv, AnswersEnd, NEW r \in Requests, Api(r), Commit(r)
  PROVE  (\E j \in Jobs : Promise!Answer(j)) \/ UNCHANGED Promise!vars
<1>1. UNCHANGED <<kwargs, effects, fates, queue, run>> /\ req[r].pc = "commit"
  BY DEF Api, Commit
<1>2. Open' = Open
  BY <1>1, OpenStays
<1>3. req[r].job \in Jobs /\ kwargs[req[r].job] # None
  BY <1>1, JobTableAssumption DEF TypeInv, RequestShape, SendInv, Job, AllKeys
<1>4. /\ \A q \in Requests \ {r} : req'[q] = req[q]
      /\ req'[r].op = req[r].op /\ req'[r].code = 201 /\ req'[r].job = req[r].job
  BY RespondEffect DEF Commit, TypeInv, TypeOK
<1>5. Answered' \in {Answered, Answered \cup {req[r].job}}
  <2>1. Answered' = Answered \cup (IF /\ req'[r].op \in {"create", "retry"}
                                     /\ req'[r].code \in {200, 201}
                                  THEN {req'[r].job} ELSE {})
    BY <1>1, <1>4, AnsweredGrows
  <2>2. Answered \cup {} = Answered
    OBVIOUS
  <2>3. QED
    BY <1>4, <2>1, <2>2
<1>6. CASE Answered' = Answered
  BY <1>1, <1>2, <1>6 DEF Promise!vars, Open
<1>7. CASE Answered' = Answered \cup {req[r].job}
  BY <1>1, <1>2, <1>3, <1>7 DEF Promise!Answer, Open
<1>8. QED
  BY <1>5, <1>6, <1>7

LEMMA ApiDelivers ==
  ASSUME TypeInv, SendInv, SubmitInv, AnswersEnd, NEW r \in Requests, Api(r)
  PROVE  [Promise!Next]_Promise!vars
<1>1. ASSUME UNCHANGED <<kwargs, queue>>, req[r].pc # "done",
             \A q \in Requests \ {r} : req'[q] = req[q],
             req'[r].op = req[r].op,
             req'[r].code \notin {200, 201} \/ req[r].op = "cancel"
      PROVE  UNCHANGED Promise!vars
  <2>1. Open' = Open /\ Answered' = Answered
    BY <1>1, OpenStays, AnsweredStays DEF Api
  <2>2. QED
    BY <1>1, <2>1 DEF Api, Promise!vars, Open
<1>2. None \notin {200, 201}
  BY ServiceAssumption DEF Codes
<1>3. ASSUME UNCHANGED <<kwargs, queue>>, req[r].pc # "done", NEW code, NEW job,
             Respond(r, code, job), code \notin {200, 201} \/ req[r].op = "cancel"
      PROVE  UNCHANGED Promise!vars
  BY <1>1, <1>3, RespondEffect DEF TypeInv, TypeOK
<1>4. ASSUME UNCHANGED <<kwargs, queue>>, req[r].pc # "done", NEW pc, Step(r, pc)
      PROVE  UNCHANGED Promise!vars
  <2>1. req[r].code = None
    BY <1>4 DEF AnswersEnd
  <2>2. QED
    BY <1>1, <1>2, <1>4, <2>1, StepEffect DEF TypeInv, TypeOK
<1>5. CASE Flush(r) \/ Revoke(r)
  BY <1>3, <1>4, <1>5 DEF Flush, Revoke
<1>6. CASE CancelUpdate(r)
  BY <1>3, <1>6 DEF CancelUpdate, SubmitInv, Cancels
<1>7. CASE CommitError(r) \/ RevokeError(r) \/ CancelUpdateError(r) \/ ApiCrash(r)
  BY <1>2, <1>3, <1>7 DEF CommitError, RevokeError, CancelUpdateError, ApiCrash
<1>8. CASE SendError(r) /\ UNCHANGED <<queue, kwargs>>
  BY <1>3, <1>8 DEF SendError
<1>9. SendError(r) => SendTask(req[r].job, req[r].row.key) \/ UNCHANGED <<queue, kwargs>>
  BY DEF SendError
<1>10. QED
  BY <1>5, <1>6, <1>7, <1>8, <1>9, CallAnswers, SendSubmits, CommitAnswers
     DEF Api, ServiceNext, ServiceStep, ServiceFault, Promise!Next

LEMMA AnswersEndInit == Init => AnswersEnd
  BY DEF Init, AnswersEnd, ServiceInit, NoRequest

LEMMA AnswersEndStep == AnswersEnd /\ TypeInv /\ [Next]_vars => AnswersEnd'
<1> SUFFICES ASSUME AnswersEnd, TypeInv, [Next]_vars PROVE AnswersEnd'
  OBVIOUS
<1>1. CASE UNCHANGED req
  BY <1>1 DEF AnswersEnd
<1>2. ASSUME NEW r \in Requests, NEW code, NEW job, Respond(r, code, job)
      PROVE  AnswersEnd'
  BY <1>2, RespondEffect DEF AnswersEnd, TypeInv, TypeOK
<1>3. ASSUME NEW r \in Requests, NEW pc, Step(r, pc), req[r].pc # "done"
      PROVE  AnswersEnd'
  BY <1>3, StepEffect DEF AnswersEnd, TypeInv, TypeOK
<1>4. ASSUME NEW r \in Requests, NEW op, NEW pc, NEW key, NEW job, NEW row, NEW code,
             Start(r, op, pc, key, job, row, code), code = None \/ pc = "done"
      PROVE  AnswersEnd'
  <2>1. ServiceTypeOK
    BY DEF TypeInv, TypeOK
  <2>2. /\ \A q \in Requests \ {r} : req'[q] = req[q]
        /\ req'[r].pc = pc /\ req'[r].code = code
    BY <1>4, <2>1 DEF Start, ServiceTypeOK
  <2>3. QED
    BY <1>4, <2>2 DEF AnswersEnd
<1>5. ASSUME NEW r \in Requests, ServiceCall(r)
      PROVE  AnswersEnd'
  BY <1>2, <1>4, <1>5 DEF ServiceCall, TaskNotAllowed, CreateJob, CancelJob, RetryDlqJob
<1>6. ASSUME NEW r \in Requests, ServiceStep(r) \/ ServiceFault(r)
      PROVE  AnswersEnd'
  BY <1>2, <1>3, <1>6
     DEF ServiceStep, Flush, Send, Commit, Revoke, CancelUpdate,
         ServiceFault, SendError, CommitError, RevokeError, CancelUpdateError, ApiCrash
<1>7. QED
  BY <1>1, <1>5, <1>6 DEF Next, Api, ServiceNext, Worker, vars

-----------------------------------------------------------------------------
(* The worker: what it has in hand, and what it lets go of.                *)

\* The hooks and the faults of a child leave the other children alone, and never give it
\* another job.
LEMMA ChildKeepsJob ==
  ASSUME TypeInv, NEW d \in Children, HookStep(d) \/ WorkerFault(d), NEW c \in Children, Busy(c)'
  PROVE  Busy(c) /\ JobOf(c)' = JobOf(c)
<1>1. CASE c = d
  BY <1>1 DEF HookStep, BeforeStart, CheckIdempotency, Execute, Retry, OnSuccess, RetryOrFail,
     StoreIdempotencyResult, SendToDlq, MarkFailed, MarkDlq, Ack, Goto, Release, WorkerFault,
     RetryLost, Redeliver, ChildLost, TypeInv, TypeOK, TaskTypeOK, Child, Busy, JobOf, IdleChild
<1>2. CASE c # d
  BY <1>2 DEF HookStep, BeforeStart, CheckIdempotency, Execute, Retry, OnSuccess, RetryOrFail,
     StoreIdempotencyResult, SendToDlq, MarkFailed, MarkDlq, Ack, Goto, Release, WorkerFault,
     RetryLost, Redeliver, ChildLost, TypeInv, TypeOK, TaskTypeOK, Busy, JobOf
<1>3. QED
  BY <1>1, <1>2

\* A child that has a job after the step had it before, or took its message.
LEMMA HandsAreOld ==
  ASSUME TypeInv, Worker, NEW c \in Children, Busy(c)'
  PROVE  \/ Busy(c) /\ JobOf(c)' = JobOf(c)
         \/ JobOf(c)' \in Jobs /\ Queued(JobOf(c)')
<1>1. CASE run'[c] = run[c]
  BY <1>1 DEF Busy, JobOf
<1>2. CASE \E d \in Children : HookStep(d) \/ WorkerFault(d)
  BY <1>2, ChildKeepsJob
<1>3. ASSUME NEW d \in Children, NEW i \in Jobs, NEW n \in Attempts, Deliver(d, i, n), run'[c] # run[c]
      PROVE  JobOf(c)' = i /\ Queued(i)
  BY <1>3 DEF Deliver, Dequeue, Queued, JobOf, IdleChild, TypeInv, TypeOK, TaskTypeOK
<1>4. CASE WorkerRestart
  BY <1>4 DEF WorkerRestart, Busy, IdleChild
<1>5. QED
  BY <1>1, <1>2, <1>3, <1>4
     DEF Worker, WorkerNext, WorkerStep, DlqReceive, ProcessStep, RevokeArrives, DiscardRevoked,
         PlatformFault, QueueEvict, CacheEvict

\* A message that is in the queue after the step was in it before, or a child has its job.
LEMMA MessagesAreOld ==
  ASSUME TypeInv, Worker, NEW j \in Jobs, NEW n \in Attempts, queue'[j][n] > 0
  PROVE  InFlight(j)
<1> USE DEF TypeInv, TypeOK, BrokerTypeOK
<1>1. CASE queue'[j][n] = queue[j][n]
  BY <1>1 DEF InFlight, Queued
<1>2. ASSUME NEW c \in Children, Busy(c), NEW m \in Attempts, Enqueue(JobOf(c), m)
      PROVE  InFlight(j)
  <2>1. CASE JobOf(c) = j
    BY <1>2, <2>1 DEF InFlight
  <2>2. CASE JobOf(c) # j
    BY <1>1, <1>2, <2>2 DEF Enqueue
  <2>3. QED
    BY <2>1, <2>2
<1>3. ASSUME NEW i \in Jobs, NEW m \in Attempts, Dequeue(i, m)
      PROVE  InFlight(j)
  <2>1. queue[j][n] > 0
    BY <1>3 DEF Dequeue
  <2>2. QED
    BY <2>1 DEF InFlight, Queued
<1>4. ASSUME NEW c \in Children, Retry(c) \/ Redeliver(c) \/ ChildLost(c)
      PROVE  InFlight(j)
  <2>1. /\ Busy(c)
        /\ run[c].retries \in Attempts
        /\ Retry(c) => run[c].retries + 1 \in Attempts
    BY <1>4, BrokerAssumption
       DEF Retry, Redeliver, ChildLost, Busy, ChildShape, TaskTypeOK, Child, Attempts
  <2>2. QED
    BY <1>1, <1>2, <1>4, <2>1 DEF Retry, Redeliver, ChildLost
<1>5. CASE WorkerRestart
  <2>1. queue'[j][n] = queue[j][n] + Cardinality(Unacked(j, n))
    BY <1>5 DEF WorkerRestart
  <2>2. queue[j][n] > 0 \/ Unacked(j, n) # {}
    BY <2>1, UnackedCount
  <2>3. QED
    BY <2>2 DEF InFlight, Queued, Unacked
<1>6. ~QueueEvict
  BY DEF QueueEvict
<1>7. ASSUME NEW c \in Children, HookStep(c) \/ WorkerFault(c)
      PROVE  Retry(c) \/ Redeliver(c) \/ ChildLost(c) \/ UNCHANGED queue
  BY <1>7 DEF HookStep, BeforeStart, CheckIdempotency, Execute, OnSuccess,
     StoreIdempotencyResult, SendToDlq, MarkFailed, MarkDlq, Ack, WorkerFault, RetryLost, brokerVars
<1>8. CASE \E c \in Children : WorkerStep(c) \/ WorkerFault(c)
  BY <1>1, <1>3, <1>4, <1>7, <1>8 DEF WorkerStep, DlqReceive, Deliver
<1>9. CASE (\E i \in Jobs : ProcessStep(i)) \/ PlatformFault
  BY <1>1, <1>3, <1>5, <1>6, <1>9 DEF ProcessStep, RevokeArrives, DiscardRevoked, PlatformFault, CacheEvict
<1>10. QED
  BY <1>8, <1>9 DEF Worker, WorkerNext

\* The worker takes up no job that was over: no crash, timeout or restart brings back a
\* message whose job is neither queued nor in a child's hands.
LEMMA NobodyReturns ==
  ASSUME TypeInv, Worker
  PROVE  Open' \subseteq Open
<1> SUFFICES ASSUME NEW j \in Jobs, InFlight(j)' PROVE InFlight(j)
  BY DEF Open
<1>1. CASE Queued(j)'
  <2>1. PICK n \in Attempts : queue'[j][n] > 0
    BY <1>1 DEF Queued
  <2>2. QED
    BY <2>1, MessagesAreOld
<1>2. ASSUME NEW c \in Children, Busy(c)', JobOf(c)' = j
      PROVE  InFlight(j)
  BY <1>2, HandsAreOld DEF InFlight
<1>3. QED
  BY <1>1, <1>2 DEF InFlight

\* A step that only moves a child on.
LEMMA OpenInHand ==
  ASSUME UNCHANGED queue,
         \A c \in Children : (Busy(c)' <=> Busy(c)) /\ (Busy(c) => JobOf(c)' = JobOf(c))
  PROVE  Open' = Open
  BY DEF Open, InFlight, Queued

\* What the worker lets go of without a word is settled.
LEMMA LetGo ==
  ASSUME TypeInv, AtLeastOnce', Worker, UNCHANGED <<effects, fates>>
  PROVE  [Promise!Next]_Promise!vars
<1> DEFINE js == Open \ Open'
<1>1. UNCHANGED <<kwargs, req>>
  BY WorkerKeepsRows
<1>2. ASSUME NEW j \in js
      PROVE  effects[kwargs[j]] > 0 \/ fates[j] # {}
  <2>1. j \in Jobs /\ InFlight(j) /\ ~InFlight(j)'
    BY DEF Open
  <2>2. Published(j)'
    BY <1>1, <2>1 DEF InFlight, Queued, TypeInv, ChildShape, QueueShape, Published
  <2>3. ~Queued(j)' /\ ~\E c \in Children : HeldBy(c, j)'
    BY <2>1 DEF InFlight, HeldBy
  <2>4. Settled(j)'
    BY <2>1, <2>2, <2>3 DEF AtLeastOnce
  <2>5. QED
    BY <1>1, <2>4 DEF Settled
<1>3. Open' = Open \ js /\ js \subseteq Open
  BY NobodyReturns
<1>4. Promise!Close(js)
  BY <1>1, <1>2, <1>3 DEF Promise!Close, Open, Answered
<1>5. QED
  BY <1>3, <1>4 DEF Promise!Next, Open

LEMMA TaskSucceeds ==
  ASSUME TypeInv, Worker, NEW c \in Children, Execute(c), ~UNCHANGED effects
  PROVE  Promise!Next
<1>1. JobOf(c) \in Open
  BY DEF Execute, Open, InFlight, Busy, TypeInv, ChildShape
<1>2. Open' = Open
  <2>1. \A d \in Children : (Busy(d)' <=> Busy(d)) /\ (Busy(d) => JobOf(d)' = JobOf(d))
    BY DEF Execute, Goto, RetryOrFail, Busy, JobOf, TypeInv, TypeOK, TaskTypeOK, Child
  <2>2. QED
    BY <2>1, OpenInHand DEF Execute, brokerVars
<1>3. effects' = [effects EXCEPT ![kwargs[JobOf(c)]] = @ + 1]
  BY DEF Execute, KeyOf, JobOf
<1>4. UNCHANGED <<kwargs, fates, req>>
  BY WorkerKeepsRows DEF Execute
<1>5. Promise!Succeed(JobOf(c))
  BY <1>1, <1>2, <1>3, <1>4 DEF Promise!Succeed, Open, Answered
<1>6. QED
  BY <1>1, <1>5 DEF Promise!Next, Open

LEMMA TaskFails ==
  ASSUME TypeInv, Worker, NEW c \in Children, MarkDlq(c) \/ RetryLost(c)
  PROVE  Promise!Next
<1>1. JobOf(c) \in Open
  BY DEF MarkDlq, RetryLost, Open, InFlight, Busy, TypeInv, ChildShape
<1>2. Open' = Open
  <2>1. \A d \in Children : (Busy(d)' <=> Busy(d)) /\ (Busy(d) => JobOf(d)' = JobOf(d))
    BY DEF MarkDlq, RetryLost, Goto, Busy, JobOf, TypeInv, TypeOK, TaskTypeOK, Child
  <2>2. QED
    BY <2>1, OpenInHand DEF MarkDlq, RetryLost, brokerVars
<1>3. \E fate \in Fates : Ended(JobOf(c), fate)
  BY DEF MarkDlq, RetryLost, Fates
<1>4. UNCHANGED <<kwargs, effects, req>>
  BY WorkerKeepsRows DEF MarkDlq, RetryLost
<1>5. \E fate \in Fates : Promise!End(JobOf(c), fate)
  BY <1>1, <1>2, <1>3, <1>4 DEF Promise!End, Ended, Open, Answered
<1>6. QED
  BY <1>1, <1>5 DEF Promise!Next, Open

LEMMA TaskIsRevoked ==
  ASSUME TypeInv, Worker, NEW j \in Jobs, NEW n \in Attempts, DiscardRevoked(j, n)
  PROVE  Promise!Next
<1>1. j \in Open
  BY DEF DiscardRevoked, Dequeue, Open, InFlight, Queued
<1>2. Open' \in {Open, Open \ {j}}
  <2>1. \A i \in Jobs \ {j} : queue'[i] = queue[i]
    BY DEF DiscardRevoked, Dequeue, TypeInv, TypeOK, BrokerTypeOK
  <2>2. UNCHANGED run
    BY DEF DiscardRevoked
  <2>3. \A i \in Jobs \ {j} : InFlight(i)' <=> InFlight(i)
    BY <2>1, <2>2 DEF InFlight, Queued, Busy, JobOf
  <2>4. QED
    BY <1>1, <2>3 DEF Open
<1>3. UNCHANGED <<kwargs, effects, req>>
  BY WorkerKeepsRows DEF DiscardRevoked
<1>4. Promise!End(j, "revoked") /\ "revoked" \in Fates
  BY <1>1, <1>2, <1>3 DEF Promise!End, DiscardRevoked, Ended, Open, Answered, Fates
<1>5. QED
  BY <1>4 DEF Promise!Next

LEMMA WorkerDelivers ==
  ASSUME TypeInv, AtLeastOnce', Worker
  PROVE  [Promise!Next]_Promise!vars
<1>1. ASSUME NEW c \in Children, HookStep(c) \/ WorkerFault(c)
      PROVE  [Promise!Next]_Promise!vars
  <2>1. CASE UNCHANGED <<effects, fates>>
    BY <2>1, LetGo
  <2>2. CASE Execute(c) /\ ~UNCHANGED effects
    BY <2>2, TaskSucceeds
  <2>3. CASE MarkDlq(c) \/ RetryLost(c)
    BY <2>3, TaskFails
  <2>4. QED
    BY <1>1, <2>1, <2>2, <2>3
       DEF HookStep, BeforeStart, CheckIdempotency, Execute, Retry, OnSuccess,
           StoreIdempotencyResult, SendToDlq, MarkFailed, Ack, WorkerFault, Redeliver, ChildLost
<1>2. ASSUME NEW j \in Jobs, ProcessStep(j)
      PROVE  [Promise!Next]_Promise!vars
  BY <1>2, LetGo, TaskIsRevoked DEF ProcessStep, RevokeArrives
<1>3. ASSUME NEW c \in Children, NEW j \in Jobs, DlqReceive(c, j) \/ \E n \in Attempts : Deliver(c, j, n)
      PROVE  [Promise!Next]_Promise!vars
  BY <1>3, LetGo DEF DlqReceive, Deliver
<1>4. CASE PlatformFault
  BY <1>4, LetGo DEF PlatformFault, WorkerRestart, QueueEvict, CacheEvict
<1>5. QED
  BY <1>1, <1>2, <1>3, <1>4 DEF Worker, WorkerNext, WorkerStep

-----------------------------------------------------------------------------
(* The refinement.                                                         *)

LEMMA PromiseInit == Init => Promise!Init
<1> SUFFICES ASSUME Init PROVE Promise!Init
  OBVIOUS
<1>1. Open = {}
  BY DEF Init, Open, InFlight, Queued, Busy, BrokerInit, TaskInit, IdleChild
<1>2. Answered = {}
  BY ServiceAssumption DEF Init, Answered, ServiceInit, NoRequest, Codes
<1>3. QED
  BY <1>1, <1>2 DEF Promise!Init, Init, Open, BrokerInit, TaskInit

\* A job is never out of the system's hands between its submission and its end, is not
\* taken up again once it is over, and no client is told of a job that was not submitted:
\* for any number of crashes, restarts, redeliveries and lost replies, unless Redis
\* evicts the queue.
THEOREM SystemDelivers ==
  ASSUME "queue_evict" \notin Faults
  PROVE  Spec => JobsAreDelivered
<1>1. /\ AtLeastOnce /\ TypeInv /\ SendInv /\ SuccessInv /\ SubmitInv /\ AnswersEnd
      /\ [Next]_vars
      => [Promise!Next]_Promise!vars
  <2> SUFFICES ASSUME AtLeastOnce, TypeInv, SendInv, SuccessInv, SubmitInv, AnswersEnd,
                      [Next]_vars
               PROVE  [Promise!Next]_Promise!vars
    OBVIOUS
  <2>1. CASE UNCHANGED vars
    BY <2>1 DEF vars, Promise!vars, Answered, InFlight, Queued, Busy, JobOf
  <2>2. AtLeastOnce'
    BY AtLeastOnceStep
  <2>3. QED
    BY <2>1, <2>2, ApiDelivers, WorkerDelivers DEF Next
<1>2. Spec => []AnswersEnd
  BY AnswersEndInit, AnswersEndStep, TypeInvAlways, PTL DEF Spec
<1>3. Spec => []AtLeastOnce
  BY DeliveredAtLeastOnce
<1>4. QED
  BY PromiseInit, SuccessInvAlways, SubmitInvAlways, <1>1, <1>2, <1>3, PTL
     DEF Spec, JobsAreDelivered, Promise!Spec
=============================================================================
