--------------------------- MODULE OutcomeProofs ---------------------------
(***************************************************************************)
(* Theorems about the end of a job, for all sets of jobs, keys, requests   *)
(* and children and any max_retries.  Without the faults that repeat a     *)
(* message or lose a transaction whose message was sent, a job has at any  *)
(* time at most one message, in the queue or in a child that has not       *)
(* finished it, and that message tells what became of the job so far.      *)
(* With no fault and no cancellation at all, so does the status of its row.*)
(***************************************************************************)
EXTENDS DeliveryProofs

\* No fault repeats a message, sends a job whose row is rolled back, or makes a
\* success a failure.
Repeating == { "redeliver", "child_lost", "restart", "cache_error",
               "api_crash", "send_error", "commit_error" }

NoRepeats == Faults \cap Repeating = {}

\* A step that is none of these faults.
RepeatsNothing == NoRepeats \/ UNCHANGED faults

Works(c, j) == Busy(c) /\ JobOf(c) = j /\ run[c].pc # "ack"

Untouched(j) == effects[kwargs[j]] = 0 /\ fates[j] = {}

\* There is one message of j, or none.
OneToken(j) ==
  /\ \A n \in Attempts : queue[j][n] <= 1
  /\ \A m, n \in Attempts : queue[j][m] > 0 /\ queue[j][n] > 0 => m = n
  /\ \A c, d \in Children : Works(c, j) /\ Works(d, j) => c = d
  /\ Queued(j) => \A c \in Children : ~Works(c, j)

\* What is known of j when a child that has its message is at pc.
Tells(pc, j) ==
  /\ pc \in {"before_start", "check", "execute", "retry"} => Untouched(j)
  /\ pc \in {"on_success", "store"} => fates[j] = {}
  /\ pc \in {"send_to_dlq", "failed", "dlq"} => effects[kwargs[j]] = 0 /\ fates[j] \subseteq {"dlq"}

OneEnd(j) ==
  /\ effects[kwargs[j]] > 0 => fates[j] = {}
  /\ \E fate \in Fates : fates[j] \subseteq {fate}

Sound(j) == /\ OneToken(j)
            /\ Queued(j) => Untouched(j)
            /\ \A c \in Children : Works(c, j) => Tells(run[c].pc, j)
            /\ OneEnd(j)

\* A message belongs to a committed row, or to one about to be.
PublishedIsHeld ==
  \A j \in Jobs : Published(j) =>
    Committed(j) \/ \E r \in Requests : req[r].pc = "commit" /\ req[r].job = j

\* No two jobs are sent with one key.
KeysAreSentOnce ==
  \A i, j \in Jobs : Published(i) /\ kwargs[i] = kwargs[j] => i = j

OutcomeInv ==
  /\ \A j \in Jobs : Published(j) => Sound(j)
  /\ \A j \in Jobs : ~Published(j) => fates[j] = {}
  /\ \A key \in AllKeys : effects[key] > 0 => \E j \in Jobs : kwargs[j] = key

LEMMA NotRepeated ==
  ASSUME TypeInv, RepeatsNothing, NEW kind \in Repeating
  PROVE  ~Fault(kind)
<1>1. faults \in Nat
  BY FaultsAssumption DEF TypeInv, TypeOK, FaultsTypeOK
<1>2. QED
  BY <1>1 DEF RepeatsNothing, NoRepeats, Fault

-----------------------------------------------------------------------------
(* Keys.                                                                   *)

LEMMA PublishedIsHeldApi ==
  ASSUME TypeInv, PublishedIsHeld, RepeatsNothing, NEW r \in Requests, Api(r)
  PROVE  PublishedIsHeld'
<1>1. ~SendError(r) /\ ~CommitError(r) /\ ~CancelUpdateError(r) /\ ~ApiCrash(r)
  BY NotRepeated DEF Repeating, SendError, CommitError, CancelUpdateError, ApiCrash
<1>2. ASSUME UNCHANGED kwargs, req[r].pc # "commit", \A q \in Requests \ {r} : req'[q] = req[q],
             \A i \in Jobs : Committed(i) => Committed(i)'
      PROVE  PublishedIsHeld'
  BY <1>2 DEF PublishedIsHeld, Published
<1>3. UNCHANGED rows => \A i \in Jobs : Committed(i) => Committed(i)'
  BY DEF Committed
<1>4. ServiceTypeOK /\ JobTableTypeOK
  BY DEF TypeInv, TypeOK
<1>5. CASE ServiceCall(r)
  <2>1. UNCHANGED <<rows, kwargs>> /\ req[r].pc = "idle"
    BY <1>5 DEF ServiceCall, TaskNotAllowed, CreateJob, CancelJob, RetryDlqJob
  <2>2. \A q \in Requests \ {r} : req'[q] = req[q]
    BY <1>4, <1>5
       DEF ServiceCall, TaskNotAllowed, CreateJob, CancelJob, RetryDlqJob, Start, Respond, ServiceTypeOK
  <2>3. QED
    BY <1>2, <1>3, <2>1, <2>2
<1>6. CASE Flush(r) \/ Revoke(r) \/ RevokeError(r)
  BY <1>2, <1>3, <1>4, <1>6, StepEffect, RespondEffect DEF Flush, Revoke, RevokeError
<1>7. CASE CancelUpdate(r)
  <2>1. req[r].job \in Jobs
    BY <1>7 DEF CancelUpdate, TypeInv, RequestShape
  <2>2. \A i \in Jobs : Committed(i) => Committed(i)'
    BY <1>4, <1>7, <2>1, UpdateJobKeeps DEF CancelUpdate, JobStatus
  <2>3. QED
    BY <1>2, <1>4, <1>7, <2>2, RespondEffect DEF CancelUpdate
<1>8. CASE Send(r)
  <2>1. /\ \A q \in Requests \ {r} : req'[q] = req[q]
        /\ req'[r].pc = "commit" /\ req'[r].job = req[r].job
        /\ req[r].pc = "send" /\ UNCHANGED rows
    BY <1>4, <1>8, StepEffect DEF Send
  <2>2. \A i \in Jobs \ {req[r].job} : kwargs'[i] = kwargs[i]
    BY <1>8 DEF Send, SendTask, TypeInv, TypeOK, BrokerTypeOK
  <2>3. QED
    BY <2>1, <2>2 DEF PublishedIsHeld, Published, Committed
<1>9. CASE Commit(r)
  <2>1. PICK j \in Jobs : j = req[r].job /\ req[r].row # None
    BY <1>9, JobTableAssumption DEF Commit, TypeInv, RequestShape
  <2>2. Committed(j)' /\ \A i \in Jobs : Committed(i) => Committed(i)'
    BY <1>4, <1>9, <2>1 DEF Commit, Insert, Committed, JobTableTypeOK
  <2>3. UNCHANGED kwargs /\ \A q \in Requests \ {r} : req'[q] = req[q]
    BY <1>4, <1>9, RespondEffect DEF Commit
  <2>4. QED
    BY <2>1, <2>2, <2>3 DEF PublishedIsHeld, Published
<1>10. QED
  BY <1>1, <1>5, <1>6, <1>7, <1>8, <1>9 DEF Api, ServiceNext, ServiceStep, ServiceFault

LEMMA PublishedIsHeldStep ==
  ASSUME PublishedIsHeld, TypeInv, RepeatsNothing, [Next]_vars
  PROVE  PublishedIsHeld'
<1>1. CASE UNCHANGED vars
  BY <1>1 DEF vars, PublishedIsHeld, Published, Committed
<1>2. CASE Worker
  BY <1>2, WorkerKeepsRows DEF PublishedIsHeld, Published, SameRow
<1>3. QED
  BY <1>1, <1>2, PublishedIsHeldApi DEF Next

LEMMA PublishedIsHeldAlways ==
  ASSUME NoRepeats
  PROVE  Spec => []PublishedIsHeld
<1>1. Init => PublishedIsHeld
  BY DEF Init, PublishedIsHeld, Published, BrokerInit
<1>2. PublishedIsHeld /\ TypeInv /\ [Next]_vars => PublishedIsHeld'
  BY PublishedIsHeldStep DEF RepeatsNothing
<1>3. QED
  BY TypeInvAlways, <1>1, <1>2, PTL DEF Spec

\* The unique index, on the rows that messages belong to.
LEMMA KeysAreUniqueSent ==
  SendInv /\ SubmitInv /\ PublishedIsHeld => KeysAreSentOnce
<1> SUFFICES ASSUME SendInv, SubmitInv, PublishedIsHeld,
                    NEW i \in Jobs, NEW j \in Jobs, Published(i), kwargs[i] = kwargs[j]
             PROVE  i = j
  BY DEF KeysAreSentOnce
<1>1. \A k \in Jobs : Committed(k) => rows[k].key = kwargs[k]
  BY DEF SendInv, CommittedWasPublished
<1>2. \A r \in Requests : req[r].pc = "commit" => req[r].row.key = kwargs[req[r].job]
  BY DEF SendInv
<1>3. Published(j)
  BY DEF Published
<1>4. QED
  BY <1>1, <1>2, <1>3 DEF PublishedIsHeld, SubmitInv, KeysAreUnique, Inserted

-----------------------------------------------------------------------------
(* Tokens.                                                                 *)

\* Nothing happens to j.
LEMMA Elsewhere ==
  ASSUME NEW j \in Jobs, Sound(j), queue'[j] = queue[j], kwargs'[j] = kwargs[j],
         effects'[kwargs[j]] = effects[kwargs[j]], fates'[j] = fates[j],
         \A c \in Children : Works(c, j)' => Works(c, j) /\ run'[c].pc = run[c].pc
  PROVE  Sound(j)'
<1>1. OneToken(j)' /\ (Queued(j)' => Untouched(j)') /\ OneEnd(j)'
  BY DEF Sound, OneToken, Queued, Untouched, OneEnd
<1>2. ASSUME NEW c \in Children, Works(c, j)'
      PROVE  Tells(run[c].pc, j)'
  BY <1>2 DEF Sound, Tells, Untouched
<1>3. QED
  BY <1>1, <1>2 DEF Sound

\* A child that has the message of j goes on, or is done with it.
LEMMA MovesOn ==
  ASSUME NEW j \in Jobs, Sound(j), NEW c \in Children, Works(c, j),
         queue'[j] = queue[j], \A d \in Children \ {c} : run'[d] = run[d],
         NEW pc, run'[c].pc = pc, Tells(pc, j)', OneEnd(j)'
  PROVE  Sound(j)'
<1>1. ~Queued(j)' /\ \A d \in Children \ {c} : ~Works(d, j)'
  BY DEF Sound, OneToken, Works, Busy, JobOf, Queued
<1>2. OneToken(j)'
  BY <1>1 DEF Sound, OneToken, Queued
<1>3. QED
  BY <1>1, <1>2 DEF Sound

LEMMA OutcomeInvInit == Init => OutcomeInv
  BY DEF Init, OutcomeInv, BrokerInit, TaskInit, Published

\* What a step of the API does to a job that it sends: its first message.
LEMMA OutcomeInvApi ==
  ASSUME TypeInv, TypeInv', SendInv, OutcomeInv, KeysAreSentOnce', RepeatsNothing,
         NEW r \in Requests, Api(r)
  PROVE  OutcomeInv'
<1>1. UNCHANGED <<run, effects, fates>>
  BY DEF Api
<1>2. CASE UNCHANGED <<kwargs, queue>>
  BY <1>1, <1>2 DEF OutcomeInv, Published, Sound, OneToken, Queued, Works, Busy, JobOf, Tells,
     Untouched, OneEnd
<1>3. CASE Send(r)
  <2>1. PICK j \in Jobs, key \in AllKeys : j = req[r].job /\ key = req[r].row.key /\ ~Published(j)
    BY <1>3 DEF Send, TypeInv, RequestShape, SendInv, Unsent, Job
  <2>2. /\ kwargs' = [kwargs EXCEPT ![j] = key]
        /\ queue' = [queue EXCEPT ![j][0] = @ + 1]
    BY <1>3, <2>1 DEF Send, SendTask, Enqueue
  <2>3. /\ kwargs'[j] = key /\ \A i \in Jobs \ {j} : kwargs'[i] = kwargs[i]
        /\ \A i \in Jobs \ {j} : queue'[i] = queue[i]
    BY <2>1, <2>2 DEF TypeInv, TypeOK, BrokerTypeOK
  <2>4. key # None
    BY JobTableAssumption DEF AllKeys
  <2>5. effects[key] = 0 /\ fates[j] = {}
    <3>1. fates[j] = {}
      BY <2>1 DEF OutcomeInv
    <3>2. \A i \in Jobs : kwargs[i] # key
      BY <2>1, <2>3, <2>4 DEF KeysAreSentOnce, Published
    <3>3. ~(effects[key] > 0) /\ effects[key] \in Nat
      BY <2>1, <3>2 DEF OutcomeInv, TypeInv, TypeOK, TaskTypeOK
    <3>4. QED
      BY <3>1, <3>3
  <2>6. Sound(j)'
    <3>1. \A n \in Attempts : queue[j][n] = 0
      BY <2>1 DEF TypeInv, TypeOK, BrokerTypeOK, QueueShape
    <3>2. \A n \in Attempts : queue'[j][n] = IF n = 0 THEN 1 ELSE 0
      BY <2>1, <2>2, <3>1 DEF TypeInv, TypeOK, BrokerTypeOK
    <3>3. \A c \in Children : ~Works(c, j)'
      BY <1>1, <2>1 DEF Works, Busy, JobOf, TypeInv, ChildShape
    <3>4. OneToken(j)'
      BY <3>2, <3>3 DEF OneToken
    <3>5. Untouched(j)' /\ OneEnd(j)'
      BY <1>1, <2>3, <2>5 DEF Untouched, OneEnd, Fates
    <3>6. QED
      BY <3>3, <3>4, <3>5 DEF Sound
  <2>7. ASSUME NEW i \in Jobs \ {j}, Published(i)'
        PROVE  Sound(i)'
    <3>1. Published(i) /\ Sound(i)
      BY <2>3, <2>7 DEF OutcomeInv, Published
    <3>2. \A c \in Children : Works(c, i)' => Works(c, i) /\ run'[c].pc = run[c].pc
      BY <1>1 DEF Works, Busy, JobOf
    <3>3. QED
      BY <1>1, <2>3, <3>1, <3>2, Elsewhere
  <2>8. \A i \in Jobs : ~Published(i)' => fates'[i] = {}
    BY <1>1, <2>3, <2>4 DEF OutcomeInv, Published
  <2>9. \A k \in AllKeys : effects'[k] > 0 => \E i \in Jobs : kwargs'[i] = k
    <3> SUFFICES ASSUME NEW k \in AllKeys, effects[k] > 0 PROVE \E i \in Jobs : kwargs'[i] = k
      BY <1>1
    <3>1. PICK i \in Jobs : kwargs[i] = k
      BY DEF OutcomeInv
    <3>2. i # j
      BY <2>1, <3>1, JobTableAssumption DEF Published, AllKeys
    <3>3. QED
      BY <2>3, <3>1, <3>2
  <2>10. QED
    BY <2>6, <2>7, <2>8, <2>9 DEF OutcomeInv
<1>4. ~SendError(r)
  BY NotRepeated DEF Repeating, SendError
<1>5. QED
  BY <1>2, <1>3, <1>4
     DEF Api, ServiceNext, ServiceCall, TaskNotAllowed, CreateJob, CancelJob, RetryDlqJob,
         ServiceStep, Flush, Commit, Revoke, CancelUpdate,
         ServiceFault, CommitError, RevokeError, CancelUpdateError, ApiCrash

\* A child that takes a message out of the queue is the only one that has it.
LEMMA DeliverIsSound ==
  ASSUME TypeInv, NEW c \in Children, NEW j \in Jobs, NEW n \in Attempts, Sound(j),
         Deliver(c, j, n)
  PROVE  Sound(j)'
<1>1. Queued(j) /\ Untouched(j) /\ \A d \in Children : ~Works(d, j)
  BY DEF Deliver, Dequeue, Queued, Sound, OneToken
<1>2. ~Queued(j)' /\ \A m \in Attempts : queue'[j][m] <= 1
  <2>1. \A m \in Attempts : queue'[j][m] = IF m = n THEN queue[j][n] - 1 ELSE queue[j][m]
    BY DEF Deliver, Dequeue, TypeInv, TypeOK, BrokerTypeOK
  <2>2. /\ queue[j] \in [Attempts -> Nat]
        /\ \A m \in Attempts : queue[j][m] <= 1 /\ (m # n => ~(queue[j][m] > 0))
    BY DEF Sound, OneToken, Deliver, Dequeue, TypeInv, TypeOK, BrokerTypeOK
  <2>3. \A m \in Attempts : queue'[j][m] <= 0
    BY <2>1, <2>2
  <2>4. QED
    BY <2>1, <2>2, <2>3 DEF Queued
<1>3. /\ run'[c].pc = "before_start"
      /\ \A d \in Children \ {c} : run'[d] = run[d]
  BY DEF Deliver, TypeInv, TypeOK, TaskTypeOK, IdleChild
<1>4. \A d \in Children \ {c} : ~Works(d, j)'
  BY <1>1, <1>3 DEF Works, Busy, JobOf
<1>5. Untouched(j)' /\ OneEnd(j)'
  BY <1>1 DEF Deliver, Untouched, Sound, OneEnd
<1>6. OneToken(j)'
  BY <1>2, <1>4 DEF OneToken, Queued
<1>7. QED
  BY <1>2, <1>3, <1>4, <1>5, <1>6 DEF Sound, Tells

\* The message of a job that is discarded was the only one.
LEMMA DiscardIsSound ==
  ASSUME TypeInv, NEW j \in Jobs, NEW n \in Attempts, Sound(j), DiscardRevoked(j, n)
  PROVE  Sound(j)'
<1>1. Queued(j) /\ Untouched(j) /\ \A d \in Children : ~Works(d, j)
  BY DEF DiscardRevoked, Dequeue, Queued, Sound, OneToken
<1>2. ~Queued(j)' /\ \A m \in Attempts : queue'[j][m] <= 1
  <2>1. \A m \in Attempts : queue'[j][m] = IF m = n THEN queue[j][n] - 1 ELSE queue[j][m]
    BY DEF DiscardRevoked, Dequeue, TypeInv, TypeOK, BrokerTypeOK
  <2>2. /\ queue[j] \in [Attempts -> Nat]
        /\ \A m \in Attempts : queue[j][m] <= 1 /\ (m # n => ~(queue[j][m] > 0))
    BY DEF Sound, OneToken, DiscardRevoked, Dequeue, TypeInv, TypeOK, BrokerTypeOK
  <2>3. \A m \in Attempts : queue'[j][m] <= 0
    BY <2>1, <2>2
  <2>4. QED
    BY <2>1, <2>2, <2>3 DEF Queued
<1>3. \A d \in Children : ~Works(d, j)'
  BY <1>1 DEF DiscardRevoked, Works, Busy, JobOf
<1>4. fates'[j] = {"revoked"} /\ effects'[kwargs'[j]] = 0
  BY <1>1 DEF DiscardRevoked, Ended, Untouched, TypeInv, TypeOK, TaskTypeOK
<1>5. OneEnd(j)'
  BY <1>4 DEF OneEnd, Fates
<1>6. QED
  BY <1>2, <1>3, <1>5 DEF Sound, OneToken, Queued

\* The next attempt takes the place of the one that failed.
LEMMA RetryIsSound ==
  ASSUME TypeInv, NEW c \in Children, NEW j \in Jobs, Works(c, j), Sound(j), Retry(c)
  PROVE  Sound(j)'
<1>1. ~Queued(j) /\ Untouched(j)
  BY DEF Retry, Sound, OneToken, Tells
<1>2. PICK n \in Attempts : n = run[c].retries + 1
  BY BrokerAssumption DEF Retry, TypeInv, TypeOK, ChildShape, TaskTypeOK, Child, Attempts
<1>3. \A m \in Attempts : queue'[j][m] = IF m = n THEN 1 ELSE 0
  <2>1. \A m \in Attempts : queue[j][m] = 0
    BY <1>1 DEF Queued, TypeInv, TypeOK, BrokerTypeOK
  <2>2. QED
    BY <1>2, <2>1 DEF Retry, Enqueue, Works, TypeInv, TypeOK, BrokerTypeOK
<1>4. \A d \in Children : ~Works(d, j)'
  <2>1. run'[c].pc = "ack" /\ \A d \in Children \ {c} : run'[d] = run[d]
    BY DEF Retry, Goto, TypeInv, TypeOK, TaskTypeOK, Child
  <2>2. \A d \in Children \ {c} : ~Works(d, j)
    BY DEF Sound, OneToken
  <2>3. QED
    BY <2>1, <2>2 DEF Works, Busy, JobOf
<1>5. Untouched(j)' /\ OneEnd(j)'
  BY <1>1 DEF Retry, Untouched, Sound, OneEnd
<1>6. OneToken(j)'
  BY <1>3, <1>4 DEF OneToken
<1>7. QED
  BY <1>4, <1>5, <1>6 DEF Sound

\* The other steps of the child that has the message of j.
LEMMA HookIsSound ==
  ASSUME TypeInv, SuccessInv, RepeatsNothing, NEW c \in Children, NEW j \in Jobs, Works(c, j), Sound(j),
         HookStep(c) \/ RetryLost(c), ~Retry(c)
  PROVE  Sound(j)'
<1> USE DEF TypeInv, TypeOK
<1>1. /\ JobOf(c) = j /\ KeyOf(c) = kwargs[j] /\ Published(j) /\ kwargs[j] \in AllKeys
      /\ effects[kwargs[j]] \in Nat
      /\ Tells(run[c].pc, j) /\ OneEnd(j)
  BY DEF Works, KeyOf, JobOf, ChildShape, Sound, Published, BrokerTypeOK, TaskTypeOK
<1>2. /\ \A d \in Children \ {c} : run'[d] = run[d]
      /\ UNCHANGED <<queue, kwargs>>
  BY DEF HookStep, BeforeStart, CheckIdempotency, Execute, OnSuccess, RetryOrFail,
     StoreIdempotencyResult, SendToDlq, MarkFailed, MarkDlq, Ack, Goto, Release,
     RetryLost, TaskTypeOK, brokerVars, Works
<1>3. ASSUME NEW pc, run'[c].pc = pc, Tells(pc, j)', OneEnd(j)'
      PROVE  Sound(j)'
  BY <1>2, <1>3, MovesOn
<1>4. ASSUME NEW pc, Goto(c, pc)
      PROVE  run'[c].pc = pc
  BY <1>4 DEF Goto, TaskTypeOK, Child
<1>5. ASSUME NEW pc, run'[c].pc = pc, UNCHANGED <<effects, fates>>, Tells(pc, j)
      PROVE  Sound(j)'
  BY <1>1, <1>2, <1>3, <1>5 DEF Tells, Untouched, OneEnd
<1>6. CASE BeforeStart(c) \/ OnSuccess(c) \/ SendToDlq(c) \/ MarkFailed(c)
  BY <1>1, <1>4, <1>5, <1>6 DEF BeforeStart, OnSuccess, SendToDlq, MarkFailed, Tells
<1>7. CASE CheckIdempotency(c)
  <2>1. Untouched(j)
    BY <1>1, <1>7 DEF CheckIdempotency, Tells
  <2>2. KeyOf(c) \notin cache
    BY <1>1, <2>1 DEF SuccessInv, SuccessIsReal, Untouched
  <2>3. Goto(c, "execute") /\ UNCHANGED <<effects, fates>>
    BY <1>7, <2>2, NotRepeated DEF CheckIdempotency, Repeating
  <2>4. QED
    BY <1>4, <1>5, <2>1, <2>3 DEF Tells
<1>8. CASE Execute(c)
  <2>1. Untouched(j) /\ UNCHANGED fates
    BY <1>1, <1>8 DEF Execute, Tells
  <2>2. CASE UNCHANGED effects
    <3>1. PICK pc \in {"retry", "send_to_dlq", "on_success"} : run'[c].pc = pc
      BY <1>4, <1>8 DEF Execute, RetryOrFail, TaskTypeOK, Child
    <3>2. Tells(pc, j)
      BY <2>1, <3>1 DEF Tells, Untouched
    <3>3. QED
      BY <1>5, <2>1, <2>2, <3>1, <3>2
  <2>3. CASE ~UNCHANGED effects
    <3>1. run'[c].pc = "on_success"
      BY <1>4, <1>8, <2>3 DEF Execute
    <3>2. fates'[j] = {}
      BY <2>1 DEF Untouched
    <3>3. Tells("on_success", j)' /\ OneEnd(j)'
      BY <3>2 DEF Tells, OneEnd, Fates
    <3>4. QED
      BY <1>3, <3>1, <3>3
  <2>4. QED
    BY <2>2, <2>3
<1>9. CASE StoreIdempotencyResult(c)
  <2>1. Goto(c, "ack") /\ UNCHANGED <<effects, fates>>
    BY <1>9, NotRepeated DEF StoreIdempotencyResult, Repeating
  <2>2. QED
    BY <1>4, <1>5, <2>1 DEF Tells
<1>10. CASE MarkDlq(c)
  <2>1. effects[kwargs[j]] = 0 /\ fates[j] \subseteq {"dlq"}
    BY <1>1, <1>10 DEF MarkDlq, Tells
  <2>2. effects'[kwargs'[j]] = 0 /\ fates'[j] \subseteq {"dlq"}
    BY <1>1, <1>2, <1>10, <2>1 DEF MarkDlq, Ended, TaskTypeOK
  <2>3. PICK pc \in {"send_to_dlq", "ack"} : run'[c].pc = pc
    BY <1>4, <1>10 DEF MarkDlq, TaskTypeOK, Child
  <2>4. Tells(pc, j)' /\ OneEnd(j)'
    BY <2>2, <2>3 DEF Tells, OneEnd, Fates
  <2>5. QED
    BY <1>3, <2>3, <2>4
<1>11. CASE RetryLost(c)
  <2>1. Untouched(j)
    BY <1>1, <1>11 DEF RetryLost, Tells
  <2>2. effects'[kwargs'[j]] = 0 /\ fates'[j] = {"dropped"}
    BY <1>1, <1>2, <1>11, <2>1 DEF RetryLost, Ended, Untouched, TaskTypeOK
  <2>3. run'[c].pc = "ack"
    BY <1>4, <1>11 DEF RetryLost
  <2>4. Tells("ack", j)' /\ OneEnd(j)'
    BY <2>2 DEF Tells, OneEnd, Fates
  <2>5. QED
    BY <1>3, <2>3, <2>4
<1>12. ~Ack(c)
  BY DEF Ack, Works
<1>13. QED
  BY <1>6, <1>7, <1>8, <1>9, <1>10, <1>11, <1>12 DEF HookStep

\* A child leaves the jobs of the others alone.
LEMMA OthersAreSound ==
  ASSUME TypeInv, OutcomeInv, KeysAreSentOnce, NEW c \in Children, NEW j \in Jobs,
         Published(j), ~Works(c, j), UNCHANGED kwargs, HookStep(c) \/ RetryLost(c)
  PROVE  Sound(j)'
<1> USE DEF TypeInv, TypeOK
<1>1. Busy(c) /\ JobOf(c) \in Jobs /\ Published(JobOf(c)) /\ run[c].retries \in Attempts
  BY DEF HookStep, BeforeStart, CheckIdempotency, Execute, Retry, OnSuccess,
     StoreIdempotencyResult, SendToDlq, MarkFailed, MarkDlq, Ack, RetryLost, Busy, ChildShape,
     TaskTypeOK, Child
<1>2. CASE JobOf(c) = j
  <2>1. Ack(c)
    BY <1>1, <1>2 DEF Works, HookStep, BeforeStart, CheckIdempotency, Execute, Retry, OnSuccess,
       StoreIdempotencyResult, SendToDlq, MarkFailed, MarkDlq, RetryLost
  <2>2. \A d \in Children : Works(d, j)' => Works(d, j) /\ run'[d].pc = run[d].pc
    BY <2>1 DEF Ack, Release, Works, Busy, JobOf, IdleChild, TaskTypeOK
  <2>3. QED
    BY <2>1, <2>2, Elsewhere DEF Ack, brokerVars, OutcomeInv
<1>3. CASE JobOf(c) # j
  <2>1. queue'[j] = queue[j]
    BY <1>1, <1>3 DEF HookStep, BeforeStart, CheckIdempotency, Execute, Retry, Enqueue, OnSuccess,
       StoreIdempotencyResult, SendToDlq, MarkFailed, MarkDlq, Ack, RetryLost, brokerVars,
       BrokerTypeOK
  <2>2. fates'[j] = fates[j]
    BY <1>1, <1>3 DEF HookStep, BeforeStart, CheckIdempotency, Execute, Retry, OnSuccess,
       StoreIdempotencyResult, SendToDlq, MarkFailed, MarkDlq, Ack, RetryLost, Ended, TaskTypeOK
  <2>3. effects'[kwargs[j]] = effects[kwargs[j]]
    <3>1. kwargs[JobOf(c)] # kwargs[j] /\ KeyOf(c) = kwargs[JobOf(c)] /\ kwargs[j] \in AllKeys
      BY <1>1, <1>3 DEF KeysAreSentOnce, KeyOf, JobOf, Published, BrokerTypeOK
    <3>2. QED
      BY <3>1 DEF HookStep, BeforeStart, CheckIdempotency, Execute, Retry, OnSuccess,
         StoreIdempotencyResult, SendToDlq, MarkFailed, MarkDlq, Ack, RetryLost, TaskTypeOK
  <2>4. \A d \in Children \ {c} : run'[d] = run[d]
    BY DEF HookStep, BeforeStart, CheckIdempotency, Execute, OnSuccess, RetryOrFail, Retry,
       StoreIdempotencyResult, SendToDlq, MarkFailed, MarkDlq, Ack, Goto, Release, RetryLost,
       TaskTypeOK
  <2>5. ~Works(c, j)'
    BY <1>3, ChildKeepsJob DEF WorkerFault, Works
  <2>6. \A d \in Children : Works(d, j)' => Works(d, j) /\ run'[d].pc = run[d].pc
    BY <2>4, <2>5 DEF Works, Busy, JobOf
  <2>7. QED
    BY <2>1, <2>2, <2>3, <2>6, Elsewhere DEF OutcomeInv
<1>4. QED
  BY <1>2, <1>3

LEMMA WorkerIsSound ==
  ASSUME TypeInv, SuccessInv, OutcomeInv, KeysAreSentOnce, RepeatsNothing, Worker,
         NEW j \in Jobs, Published(j)
  PROVE  Sound(j)'
<1>1. UNCHANGED kwargs /\ Sound(j)
  BY WorkerKeepsRows DEF OutcomeInv
<1>2. CASE UNCHANGED <<queue, effects, fates, run>>
  BY <1>1, <1>2, Elsewhere DEF Works, Busy, JobOf
<1>3. ASSUME NEW c \in Children, HookStep(c) \/ RetryLost(c)
      PROVE  Sound(j)'
  BY <1>1, <1>3, OthersAreSound, HookIsSound, RetryIsSound
<1>4. ASSUME NEW c \in Children, NEW i \in Jobs, NEW n \in Attempts, Deliver(c, i, n), i # j
      PROVE  Sound(j)'
  <2>1. queue'[j] = queue[j]
    BY <1>4 DEF Deliver, Dequeue, TypeInv, TypeOK, BrokerTypeOK
  <2>2. \A d \in Children : Works(d, j)' => Works(d, j) /\ run'[d].pc = run[d].pc
    BY <1>4 DEF Deliver, Works, Busy, JobOf, IdleChild, TypeInv, TypeOK, TaskTypeOK
  <2>3. QED
    BY <1>1, <1>4, <2>1, <2>2, Elsewhere DEF Deliver
<1>5. ASSUME NEW i \in Jobs, NEW n \in Attempts, DiscardRevoked(i, n), i # j
      PROVE  Sound(j)'
  <2>1. queue'[j] = queue[j] /\ fates'[j] = fates[j]
    BY <1>5 DEF DiscardRevoked, Dequeue, Ended, TypeInv, TypeOK, BrokerTypeOK, TaskTypeOK
  <2>2. \A d \in Children : Works(d, j)' => Works(d, j) /\ run'[d].pc = run[d].pc
    BY <1>5 DEF DiscardRevoked, Works, Busy, JobOf
  <2>3. QED
    BY <1>1, <1>5, <2>1, <2>2, Elsewhere DEF DiscardRevoked
<1>6. CASE QueueEvict
  <2>1. UNCHANGED <<run, effects, fates>> /\ \A n \in Attempts : queue'[j][n] = 0
    BY <1>6 DEF QueueEvict
  <2>2. ~Queued(j)' /\ OneToken(j)'
    BY <1>1, <2>1 DEF Queued, OneToken, Sound, Works, Busy, JobOf
  <2>3. QED
    BY <1>1, <2>1, <2>2 DEF Sound, Works, Busy, JobOf, Tells, Untouched, OneEnd
<1>7. /\ \A c \in Children : ~Redeliver(c) /\ ~ChildLost(c)
      /\ ~WorkerRestart
  BY NotRepeated DEF Repeating, Redeliver, ChildLost, WorkerRestart
<1>8. CASE \E c \in Children : WorkerStep(c) \/ WorkerFault(c)
  BY <1>1, <1>2, <1>3, <1>4, <1>7, <1>8, DeliverIsSound DEF WorkerStep, WorkerFault, DlqReceive
<1>9. CASE (\E i \in Jobs : ProcessStep(i)) \/ PlatformFault
  BY <1>1, <1>2, <1>5, <1>6, <1>7, <1>9, DiscardIsSound
     DEF ProcessStep, RevokeArrives, PlatformFault, CacheEvict
<1>10. QED
  BY <1>8, <1>9 DEF Worker, WorkerNext

\* Only what was published has an effect or an end.
LEMMA WorkerTouchesPublished ==
  ASSUME TypeInv, OutcomeInv, Worker
  PROVE  /\ \A j \in Jobs : ~Published(j) => fates'[j] = {}
         /\ \A key \in AllKeys : effects'[key] > 0 => \E j \in Jobs : kwargs[j] = key
<1> USE DEF TypeInv, TypeOK, TaskTypeOK
<1>1. CASE UNCHANGED <<effects, fates>>
  BY <1>1 DEF OutcomeInv
<1>2. ASSUME NEW c \in Children, Execute(c)
      PROVE  UNCHANGED fates /\ \A key \in AllKeys : effects'[key] > 0 => \E j \in Jobs : kwargs[j] = key
  <2>1. JobOf(c) \in Jobs /\ KeyOf(c) = kwargs[JobOf(c)]
    BY <1>2 DEF Execute, Busy, ChildShape, KeyOf, JobOf
  <2>2. \A key \in AllKeys \ {KeyOf(c)} : effects'[key] = effects[key]
    BY <1>2 DEF Execute
  <2>3. QED
    BY <1>2, <2>1, <2>2 DEF Execute, OutcomeInv
<1>3. ASSUME NEW c \in Children, MarkDlq(c) \/ RetryLost(c)
      PROVE  UNCHANGED effects /\ \A j \in Jobs : ~Published(j) => fates'[j] = {}
  <2>1. JobOf(c) \in Jobs /\ Published(JobOf(c))
    BY <1>3 DEF MarkDlq, RetryLost, Busy, ChildShape
  <2>2. \A j \in Jobs \ {JobOf(c)} : fates'[j] = fates[j]
    BY <1>3 DEF MarkDlq, RetryLost, Ended
  <2>3. QED
    BY <1>3, <2>1, <2>2 DEF MarkDlq, RetryLost, OutcomeInv
<1>4. ASSUME NEW i \in Jobs, NEW n \in Attempts, DiscardRevoked(i, n)
      PROVE  UNCHANGED effects /\ \A j \in Jobs : ~Published(j) => fates'[j] = {}
  BY <1>4 DEF DiscardRevoked, Dequeue, Ended, QueueShape, OutcomeInv
<1>5. ASSUME NEW c \in Children, HookStep(c) \/ WorkerFault(c)
      PROVE  Execute(c) \/ MarkDlq(c) \/ RetryLost(c) \/ UNCHANGED <<effects, fates>>
  BY <1>5 DEF HookStep, BeforeStart, CheckIdempotency, Retry, OnSuccess, StoreIdempotencyResult,
     SendToDlq, MarkFailed, Ack, WorkerFault, Redeliver, ChildLost
<1>6. CASE \E c \in Children : WorkerStep(c) \/ WorkerFault(c)
  BY <1>1, <1>2, <1>3, <1>5, <1>6 DEF WorkerStep, DlqReceive, Deliver, OutcomeInv
<1>7. CASE (\E i \in Jobs : ProcessStep(i)) \/ PlatformFault
  BY <1>1, <1>4, <1>7 DEF ProcessStep, RevokeArrives, PlatformFault, WorkerRestart, QueueEvict,
     CacheEvict, OutcomeInv
<1>8. QED
  BY <1>6, <1>7 DEF Worker, WorkerNext

-----------------------------------------------------------------------------
(* The theorem.                                                            *)

LEMMA OutcomeInvStep ==
  ASSUME OutcomeInv, TypeInv, TypeInv', SendInv, SuccessInv,
         KeysAreSentOnce, KeysAreSentOnce', RepeatsNothing, [Next]_vars
  PROVE  OutcomeInv'
<1>1. CASE UNCHANGED vars
  BY <1>1 DEF vars, OutcomeInv, Published, Sound, OneToken, Queued, Works, Busy, JobOf, Tells,
     Untouched, OneEnd
<1>2. CASE Worker
  <2>1. UNCHANGED kwargs
    BY <1>2, WorkerKeepsRows
  <2>2. \A j \in Jobs : Published(j)' => Sound(j)'
    BY <1>2, <2>1, WorkerIsSound DEF Published
  <2>3. QED
    BY <1>2, <2>1, <2>2, WorkerTouchesPublished DEF OutcomeInv, Published
<1>3. QED
  BY <1>1, <1>2, OutcomeInvApi DEF Next

LEMMA OutcomeInvAlways ==
  ASSUME NoRepeats
  PROVE  Spec => [](OutcomeInv /\ TypeInv)
<1>1. /\ OutcomeInv /\ TypeInv /\ TypeInv' /\ SendInv /\ SuccessInv
      /\ KeysAreSentOnce /\ KeysAreSentOnce' /\ [Next]_vars
      => OutcomeInv'
  BY OutcomeInvStep DEF RepeatsNothing
<1>2. SendInv /\ SubmitInv /\ PublishedIsHeld => KeysAreSentOnce
  BY KeysAreUniqueSent
<1>3. Spec => []PublishedIsHeld
  BY PublishedIsHeldAlways
<1>4. Spec => [](SendInv /\ SuccessInv /\ TypeInv /\ KeysAreSentOnce)
  BY SuccessInvAlways, SubmitInvAlways, <1>2, <1>3, PTL
<1>5. QED
  BY OutcomeInvInit, <1>1, <1>4, PTL DEF Spec

\* A job comes to one end: one that can be retried, was dropped or was discarded as
\* revoked has had no effect, and one that had its effect comes to no other end.  It takes
\* no more than a message that stays unique from retry to retry, and a key that is sent
\* with one job only; the faults that break either are excluded.
THEOREM JobsEndOnce ==
  ASSUME NoRepeats
  PROVE  Spec => []OneOutcome
<1>1. OutcomeInv => OneOutcome
  <2> SUFFICES ASSUME OutcomeInv, NEW j \in Jobs, Published(j)
               PROVE  /\ Cardinality(fates[j]) <= 1
                      /\ effects[kwargs[j]] > 0 => fates[j] = {}
    BY DEF OneOutcome
  <2>1. OneEnd(j)
    BY DEF OutcomeInv, Sound
  <2>2. PICK fate \in Fates : fates[j] = {} \/ fates[j] = {fate}
    BY <2>1 DEF OneEnd
  <2>3. QED
    BY <2>1, <2>2, FS_EmptySet, FS_Singleton DEF OneEnd
<1>2. QED
  BY <1>1, OutcomeInvAlways, PTL

-----------------------------------------------------------------------------
(* Statuses, as long as nothing is cancelled and no fault occurs.          *)

\* What the row of j may say when a child that has its message is at pc.  It says
\* PENDING as long as nothing was written since the commit, which may come late.
Shows(pc, j) ==
  {"PENDING"} \cup
  CASE pc \in {"before_start", "check", "execute", "retry", "on_success"} -> {"RUNNING"}
    [] pc = "store" -> {"COMPLETED"}
    [] pc \in {"send_to_dlq", "failed"} -> {IF fates[j] = {} THEN "RUNNING" ELSE "DLQ"}
    [] pc = "dlq" -> {"FAILED"}
    [] OTHER -> {}

\* What the row of j may say when all is over.
ShowsAtRest(j) == {"PENDING", IF effects[kwargs[j]] > 0 THEN "COMPLETED" ELSE "DLQ"}

Shown(j) ==
  Committed(j) =>
    /\ Queued(j) => rows[j].status \in {"PENDING", "RUNNING"}
    /\ \A c \in Children : Works(c, j) => rows[j].status \in Shows(run[c].pc, j)
    /\ ~Queued(j) /\ (\A c \in Children : ~Works(c, j)) => rows[j].status \in ShowsAtRest(j)

\* A request that has not begun is no cancellation.
NotBegun == \A r \in Requests : req[r].pc = "idle" => req[r].op = None

NobodyRevoked == revoking = {} /\ revoked = {}

CalmInv == Undisturbed => /\ OutcomeInv /\ NobodyRevoked
                          /\ \A j \in Jobs : Shown(j)

\* What was disturbed stays disturbed, and an undisturbed step is no fault.
LEMMA StaysDisturbed ==
  ASSUME TypeInv, TypeInv', NotBegun, [Next]_vars, Undisturbed'
  PROVE  Undisturbed /\ UNCHANGED faults
<1>1. faults \in Nat /\ faults' = 0
  BY FaultsAssumption DEF TypeInv, TypeOK, FaultsTypeOK, Undisturbed
<1>2. faults' \in {faults, faults + 1}
  <2>1. CASE UNCHANGED vars
    BY <2>1 DEF vars
  <2>2. ASSUME NEW c \in Children, HookStep(c) \/ RetryLost(c)
        PROVE  faults' \in {faults, faults + 1}
    BY <2>2 DEF HookStep, BeforeStart, CheckIdempotency, Execute, Retry, OnSuccess, UpdateJobStatus,
       StoreIdempotencyResult, SendToDlq, MarkFailed, MarkDlq, Ack, RetryLost, Fault, NoFault
  <2>3. CASE Worker
    BY <2>2, <2>3 DEF Worker, WorkerNext, WorkerStep, WorkerFault, ProcessStep, PlatformFault,
       DlqReceive, Deliver, Redeliver, ChildLost, RevokeArrives, DiscardRevoked, WorkerRestart,
       QueueEvict, CacheEvict, Fault
  <2>4. ASSUME NEW r \in Requests, Api(r)
        PROVE  faults' \in {faults, faults + 1}
    BY <2>4 DEF Api, ServiceNext, ServiceCall, ServiceStep, ServiceFault, TaskNotAllowed, CreateJob,
       CancelJob, RetryDlqJob, Flush, Send, SendError, Commit, CommitError, Revoke, RevokeError,
       CancelUpdate, CancelUpdateError, ApiCrash, Fault
  <2>5. QED
    BY <2>1, <2>3, <2>4 DEF Next
<1>3. faults = 0 /\ faults' = faults
  BY <1>1, <1>2
<1>4. ASSUME NEW q \in Requests, req[q].op = "cancel"
      PROVE  req'[q].op = "cancel"
  <2>1. req[q].pc # "idle"
    BY <1>4, ServiceAssumption DEF NotBegun
  <2>2. CASE UNCHANGED req
    BY <1>4, <2>2
  <2>3. ASSUME NEW r \in Requests, Api(r), q # r
        PROVE  req'[q] = req[q]
    BY <2>3, OthersWait
  <2>4. ASSUME NEW r \in Requests, Api(r), q = r
        PROVE  req'[q].op = req[q].op
    BY <2>1, <2>4, StepEffect, RespondEffect
       DEF Api, ServiceNext, ServiceCall, ServiceStep, ServiceFault, TaskNotAllowed, CreateJob,
       CancelJob, RetryDlqJob, Flush, Send, SendError, Commit, CommitError, Revoke, RevokeError,
       CancelUpdate, CancelUpdateError, ApiCrash, TypeInv, TypeOK
  <2>5. QED
    BY <1>4, <2>2, <2>3, <2>4 DEF Next, Worker, vars
<1>5. QED
  BY <1>3, <1>4 DEF Undisturbed

LEMMA NotBegunStep ==
  ASSUME TypeInv, NotBegun, [Next]_vars
  PROVE  NotBegun'
<1>1. req \in [Requests -> Request]
  BY DEF TypeInv, TypeOK, ServiceTypeOK
<1>2. CASE UNCHANGED req
  BY <1>2 DEF NotBegun
<1>3. ASSUME NEW r \in Requests, Api(r)
      PROVE  req'[r].pc # "idle"
  <2>1. CASE TaskNotAllowed(r)
    BY <1>1, <2>1 DEF TaskNotAllowed, Respond, Request
  <2>2. CASE \E key \in Keys : CreateJob(r, key)
    BY <1>1, <2>2 DEF CreateJob, Start
  <2>3. CASE \E j \in Jobs : CancelJob(r, j) \/ RetryDlqJob(r, j)
    BY <1>1, <2>3 DEF CancelJob, RetryDlqJob, Start
  <2>4. CASE ServiceStep(r) \/ ServiceFault(r)
    BY <2>4, StepEffect, RespondEffect
       DEF ServiceStep, ServiceFault, Flush, Send, SendError, Commit, CommitError, Revoke, RevokeError,
           CancelUpdate, CancelUpdateError, ApiCrash, TypeInv, TypeOK
  <2>5. QED
    BY <1>3, <2>1, <2>2, <2>3, <2>4 DEF Api, ServiceNext, ServiceCall
<1>4. QED
  BY <1>2, <1>3, OthersWait DEF NotBegun, Next, Worker, vars

\* Nothing happens to the row or to the message of j.
LEMMA ShownElsewhere ==
  ASSUME NEW j \in Jobs, Shown(j), rows'[j] = rows[j], queue'[j] = queue[j],
         kwargs'[j] = kwargs[j], effects'[kwargs[j]] = effects[kwargs[j]], fates'[j] = fates[j],
         \A c \in Children : (Works(c, j)' <=> Works(c, j))
                             /\ (Works(c, j) => run'[c].pc = run[c].pc)
  PROVE  Shown(j)'
<1>1. (Queued(j)' <=> Queued(j)) /\ (Committed(j)' <=> Committed(j)) /\ ShowsAtRest(j)' = ShowsAtRest(j)
  BY DEF Queued, Committed, ShowsAtRest
<1>2. \A c \in Children : Works(c, j)' => Shows(run[c].pc, j)' = Shows(run[c].pc, j)
  BY DEF Shows
<1>3. QED
  BY <1>1, <1>2 DEF Shown

\* A row that was committed now, or whose job was sent now, says PENDING.
LEMMA PendingIsShown ==
  ASSUME NEW j \in Jobs, Committed(j)' => rows'[j].status = "PENDING"
  PROVE  Shown(j)'
  BY DEF Shown, Shows, ShowsAtRest

LEMMA ApiShows ==
  ASSUME TypeInv, SendInv, SubmitInv, CalmInv, Undisturbed, Undisturbed', UNCHANGED faults,
         NEW r \in Requests, Api(r)
  PROVE  NobodyRevoked' /\ \A j \in Jobs : Shown(j)'
<1>1. faults \in Nat
  BY FaultsAssumption DEF TypeInv, TypeOK, FaultsTypeOK
<1>2. req[r].op # "cancel" /\ req[r].pc \notin {"revoke", "update"}
  BY DEF Undisturbed, SubmitInv, Cancels
<1>3. ~ServiceFault(r)
  BY <1>1 DEF ServiceFault, SendError, CommitError, RevokeError, CancelUpdateError, ApiCrash, Fault
<1>4. UNCHANGED <<run, effects, fates, revoked>>
  BY DEF Api
<1>5. UNCHANGED revoking
  BY <1>2, <1>3 DEF Api, ServiceNext, ServiceCall, ServiceStep, TaskNotAllowed, CreateJob, CancelJob,
     RetryDlqJob, Flush, Send, Commit, Revoke, CancelUpdate
<1>6. ASSUME NEW j \in Jobs
      PROVE  Shown(j)'
  <2>1. Shown(j)
    BY DEF CalmInv
  <2>2. \A c \in Children : (Works(c, j)' <=> Works(c, j))
                            /\ (Works(c, j) => run'[c].pc = run[c].pc)
    BY <1>4 DEF Works, Busy, JobOf
  <2>3. ASSUME rows'[j] = rows[j], queue'[j] = queue[j], kwargs'[j] = kwargs[j]
        PROVE  Shown(j)'
    BY <1>4, <2>1, <2>2, <2>3, ShownElsewhere
  <2>4. CASE Send(r)
    <3>1. req[r].job \in Jobs /\ ~Published(req[r].job) /\ UNCHANGED rows
      BY <2>4 DEF Send, TypeInv, RequestShape, SendInv, Unsent
    <3>2. CASE j = req[r].job
      <4>1. ~Committed(j)
        BY <3>1, <3>2, JobTableAssumption
           DEF SendInv, CommittedWasPublished, Published, Committed, TypeInv, TypeOK,
               JobTableTypeOK, Job, AllKeys
      <4>2. QED
        BY <3>1, <4>1, PendingIsShown DEF Committed
    <3>3. CASE j # req[r].job
      <4>1. queue'[j] = queue[j] /\ kwargs'[j] = kwargs[j]
        BY <2>4, <3>1, <3>3 DEF Send, SendTask, Enqueue, TypeInv, TypeOK, BrokerTypeOK
      <4>2. QED
        BY <2>3, <3>1, <4>1
    <3>4. QED
      BY <3>2, <3>3
  <2>5. CASE Commit(r)
    <3>1. req[r].job \in Jobs /\ req[r].row.status = "PENDING"
      BY <2>5 DEF Commit, TypeInv, RequestShape
    <3>2. rows'[j] = IF j = req[r].job THEN req[r].row ELSE rows[j]
      BY <2>5, <3>1 DEF Commit, Insert, TypeInv, TypeOK, JobTableTypeOK
    <3>3. QED
      BY <2>3, <2>5, <3>1, <3>2, PendingIsShown DEF Commit
  <2>6. CASE UNCHANGED <<rows, queue, kwargs>>
    BY <2>3, <2>6
  <2>7. QED
    BY <1>2, <1>3, <2>4, <2>5, <2>6 DEF Api, ServiceNext, ServiceCall, ServiceStep, TaskNotAllowed,
       CreateJob, CancelJob, RetryDlqJob, Flush, Revoke, CancelUpdate
<1>7. QED
  BY <1>4, <1>5, <1>6 DEF CalmInv, NobodyRevoked

\* Without a fault the UPDATE of a hook is done.
LEMMA RowIsUpdated ==
  ASSUME TypeInv, UNCHANGED faults, NEW c \in Children, JobOf(c) \in Jobs, NEW s \in JobStatus,
         NEW n \in Nat, UpdateJobStatus(c, s, n), NEW j \in Jobs, JobOf(c) = j
  PROVE  /\ Committed(j)' <=> Committed(j)
         /\ Committed(j) => rows'[j].status = s
<1>1. ~Fault("db_write")
  BY FaultsAssumption DEF TypeInv, TypeOK, FaultsTypeOK, Fault
<1>2. QED
  BY <1>1, UpdateJobKeeps DEF UpdateJobStatus, TypeInv, TypeOK

\* The child that has the only message of j goes on.
LEMMA ShownNext ==
  ASSUME NEW c \in Children, NEW j \in Jobs, ~Queued(j)', Works(c, j)',
         \A d \in Children \ {c} : ~Works(d, j)', NEW pc, run'[c].pc = pc,
         Committed(j)' => rows'[j].status \in Shows(pc, j)'
  PROVE  Shown(j)'
  BY DEF Shown

\* A child that has the message of j leaves what its next pc, or the end, may show.
LEMMA HookShows ==
  ASSUME TypeInv, SuccessInv, NEW c \in Children, NEW j \in Jobs, Works(c, j), Sound(j), Shown(j),
         UNCHANGED faults, HookStep(c)
  PROVE  Shown(j)'
<1> USE DEF TypeInv, TypeOK
<1>1. /\ JobOf(c) = j /\ JobOf(c) \in Jobs /\ KeyOf(c) = kwargs[j] /\ kwargs[j] \in AllKeys
      /\ run \in [Children -> Child] /\ run[c].pc # "idle"
      /\ ~Queued(j) /\ \A d \in Children \ {c} : ~Works(d, j)
      /\ Tells(run[c].pc, j)
      /\ Committed(j) => rows[j].status \in Shows(run[c].pc, j)
  BY DEF Works, Busy, KeyOf, JobOf, ChildShape, Sound, OneToken, Published, BrokerTypeOK, TaskTypeOK,
     Shown
<1>2. /\ \A d \in Children \ {c} : run'[d] = run[d]
      /\ UNCHANGED kwargs
  BY <1>1 DEF HookStep, BeforeStart, CheckIdempotency, Execute, OnSuccess, RetryOrFail, Retry,
     StoreIdempotencyResult, SendToDlq, MarkFailed, MarkDlq, Ack, Goto, Release, brokerVars
<1>3. \A d \in Children \ {c} : ~Works(d, j)'
  BY <1>1, <1>2 DEF Works, Busy, JobOf
<1>4. ASSUME NEW kind, Fault(kind)
      PROVE  FALSE
  BY <1>4, FaultsAssumption DEF FaultsTypeOK, Fault
<1>5. ASSUME NEW pc, run'[c].pc = pc, run'[c].job = run[c].job, pc \notin {"idle", "ack"},
             UNCHANGED queue, Committed(j)' => rows'[j].status \in Shows(pc, j)'
      PROVE  Shown(j)'
  <2>1. Works(c, j)'
    BY <1>1, <1>5 DEF Works, Busy, JobOf
  <2>2. ~Queued(j)'
    BY <1>1, <1>5 DEF Queued
  <2>3. QED
    BY <1>3, <1>5, <2>1, <2>2, ShownNext
<1>6. ASSUME NEW pc, Goto(c, pc)
      PROVE  run'[c].pc = pc /\ run'[c].job = run[c].job
  BY <1>1, <1>6 DEF Child, Goto
<1>7. UNCHANGED rows => (Committed(j)' <=> Committed(j))
  BY DEF Committed
<1>8. CASE BeforeStart(c)
  <2>1. Goto(c, "check") /\ UNCHANGED queue
        /\ (Committed(j)' => rows'[j].status = "RUNNING")
    BY <1>1, <1>8, RowIsUpdated DEF BeforeStart, JobStatus, brokerVars
  <2>2. QED
    BY <1>5, <1>6, <2>1 DEF Shows
<1>9. CASE CheckIdempotency(c)
  <2>1. PICK pc \in {"execute", "on_success"} : Goto(c, pc)
    BY <1>4, <1>9 DEF CheckIdempotency
  <2>2. UNCHANGED <<queue, rows>>
    BY <1>9 DEF CheckIdempotency, brokerVars
  <2>3. Committed(j)' => rows'[j].status \in Shows(pc, j)'
    BY <1>1, <1>7, <1>9, <2>1, <2>2 DEF CheckIdempotency, Shows
  <2>4. QED
    BY <1>5, <1>6, <2>1, <2>2, <2>3
<1>10. CASE Execute(c)
  <2>1. PICK pc \in {"retry", "send_to_dlq", "on_success"} :
          run'[c].pc = pc /\ run'[c].job = run[c].job
    BY <1>1, <1>6, <1>10 DEF Execute, RetryOrFail, Child
  <2>2. UNCHANGED <<queue, rows, fates>>
    BY <1>10 DEF Execute, brokerVars
  <2>3. fates[j] = {}
    BY <1>1, <1>10 DEF Execute, Tells, Untouched
  <2>4. Committed(j)' => rows'[j].status \in Shows(pc, j)'
    BY <1>1, <1>7, <1>10, <2>1, <2>2, <2>3 DEF Execute, Shows
  <2>5. QED
    BY <1>5, <2>1, <2>2, <2>4
<1>11. CASE Retry(c)
  <2>1. Goto(c, "ack") /\ UNCHANGED rows
    BY <1>11 DEF Retry
  <2>2. \A d \in Children : ~Works(d, j)'
    BY <1>3, <1>6, <2>1 DEF Works
  <2>3. Queued(j)'
    <3>1. PICK n \in Attempts : n = run[c].retries + 1
      BY <1>11, BrokerAssumption DEF Retry, ChildShape, TaskTypeOK, Child, Attempts
    <3>2. queue'[j][n] = queue[j][n] + 1 /\ queue[j][n] \in Nat
      BY <1>1, <1>11, <3>1 DEF Retry, Enqueue, BrokerTypeOK
    <3>3. QED
      BY <3>2 DEF Queued
  <2>4. Committed(j)' => rows'[j].status \in {"PENDING", "RUNNING"}
    BY <1>1, <1>7, <1>11, <2>1 DEF Retry, Shows
  <2>5. QED
    BY <2>2, <2>3, <2>4 DEF Shown
<1>12. CASE OnSuccess(c)
  <2>1. Goto(c, "store") /\ UNCHANGED queue
        /\ (Committed(j)' => rows'[j].status = "COMPLETED")
    BY <1>1, <1>12, RowIsUpdated DEF OnSuccess, JobStatus, brokerVars
  <2>2. QED
    BY <1>5, <1>6, <2>1 DEF Shows
<1>13. CASE StoreIdempotencyResult(c)
  <2>1. Goto(c, "ack") /\ UNCHANGED <<queue, rows, effects>>
    BY <1>4, <1>13 DEF StoreIdempotencyResult
  <2>2. effects'[kwargs'[j]] > 0
    BY <1>1, <1>2, <1>13, <2>1 DEF StoreIdempotencyResult, SuccessInv, SuccessHeld
  <2>3. Committed(j)' => rows'[j].status \in {"PENDING", "COMPLETED"}
    BY <1>1, <1>7, <1>13, <2>1 DEF StoreIdempotencyResult, Shows
  <2>4. Committed(j)' => rows'[j].status \in ShowsAtRest(j)'
    BY <2>2, <2>3 DEF ShowsAtRest
  <2>5. \A d \in Children : ~Works(d, j)'
    BY <1>3, <1>6, <2>1 DEF Works
  <2>6. ~Queued(j)'
    BY <1>1, <2>1 DEF Queued
  <2>7. QED
    BY <2>4, <2>5, <2>6 DEF Shown
<1>14. CASE SendToDlq(c)
  <2>1. Goto(c, "failed") /\ UNCHANGED <<queue, rows, fates>>
    BY <1>14 DEF SendToDlq
  <2>2. Committed(j)' => rows'[j].status \in Shows("failed", j)'
    BY <1>1, <1>7, <1>14, <2>1 DEF SendToDlq, Shows
  <2>3. QED
    BY <1>5, <1>6, <2>1, <2>2
<1>15. CASE MarkFailed(c)
  <2>1. Goto(c, "dlq") /\ UNCHANGED queue
        /\ (Committed(j)' => rows'[j].status = "FAILED")
    BY <1>1, <1>15, RowIsUpdated DEF MarkFailed, JobStatus, brokerVars
  <2>2. QED
    BY <1>5, <1>6, <2>1 DEF Shows
<1>16. CASE MarkDlq(c)
  <2>1. UNCHANGED <<queue, effects>> /\ (Committed(j)' => rows'[j].status = "DLQ")
    BY <1>1, <1>16, RowIsUpdated DEF MarkDlq, JobStatus, brokerVars
  <2>2. PICK pc \in {"send_to_dlq", "ack"} : run'[c].pc = pc /\ run'[c].job = run[c].job
    BY <1>1, <1>6, <1>16 DEF MarkDlq, Child
  <2>3. fates'[j] # {}
    BY <1>1, <1>16 DEF MarkDlq, Ended, TaskTypeOK
  <2>4. effects'[kwargs'[j]] = 0
    BY <1>1, <1>2, <1>16, <2>1 DEF MarkDlq, Tells
  <2>5. CASE pc = "send_to_dlq"
    BY <1>5, <2>1, <2>2, <2>3, <2>5 DEF Shows
  <2>6. CASE pc = "ack"
    <3>1. Committed(j)' => rows'[j].status \in ShowsAtRest(j)'
      BY <2>1, <2>4 DEF ShowsAtRest
    <3>2. \A d \in Children : ~Works(d, j)'
      BY <1>3, <2>2, <2>6 DEF Works
    <3>3. ~Queued(j)'
      BY <1>1, <2>1 DEF Queued
    <3>4. QED
      BY <3>1, <3>2, <3>3 DEF Shown
  <2>7. QED
    BY <2>2, <2>5, <2>6
<1>17. ~Ack(c)
  BY DEF Ack, Works
<1>18. QED
  BY <1>8, <1>9, <1>10, <1>11, <1>12, <1>13, <1>14, <1>15, <1>16, <1>17 DEF HookStep

\* A child leaves what the rows of the others show.
LEMMA OthersAreShown ==
  ASSUME TypeInv, OutcomeInv, KeysAreSentOnce, NEW c \in Children, NEW j \in Jobs,
         Published(j), ~Works(c, j), Shown(j), UNCHANGED <<kwargs, faults>>, HookStep(c)
  PROVE  Shown(j)'
<1> USE DEF TypeInv, TypeOK
<1>1. /\ Busy(c) /\ JobOf(c) \in Jobs /\ Published(JobOf(c)) /\ run[c].retries \in Attempts
      /\ run \in [Children -> Child] /\ rows \in [Jobs -> Job \cup {None}]
  BY DEF HookStep, BeforeStart, CheckIdempotency, Execute, Retry, OnSuccess,
     StoreIdempotencyResult, SendToDlq, MarkFailed, MarkDlq, Ack, Busy, ChildShape,
     TaskTypeOK, Child, JobTableTypeOK
<1>2. \A d \in Children \ {c} : run'[d] = run[d]
  BY <1>1 DEF HookStep, BeforeStart, CheckIdempotency, Execute, OnSuccess, RetryOrFail, Retry,
     StoreIdempotencyResult, SendToDlq, MarkFailed, MarkDlq, Ack, Goto, Release
<1>3. CASE JobOf(c) = j
  <2>1. Ack(c)
    BY <1>1, <1>3 DEF Works, HookStep, BeforeStart, CheckIdempotency, Execute, Retry, OnSuccess,
       StoreIdempotencyResult, SendToDlq, MarkFailed, MarkDlq
  <2>2. ~Works(c, j)'
    BY <1>1, <2>1 DEF Ack, Release, Works, Busy, JobOf, IdleChild
  <2>3. \A d \in Children : (Works(d, j)' <=> Works(d, j)) /\ (Works(d, j) => run'[d].pc = run[d].pc)
    BY <1>2, <2>2 DEF Works, Busy, JobOf
  <2>4. QED
    BY <2>1, <2>3, ShownElsewhere DEF Ack, brokerVars
<1>4. CASE JobOf(c) # j
  <2>1. queue'[j] = queue[j]
    BY <1>1, <1>4 DEF HookStep, BeforeStart, CheckIdempotency, Execute, Retry, Enqueue, OnSuccess,
       StoreIdempotencyResult, SendToDlq, MarkFailed, MarkDlq, Ack, brokerVars, BrokerTypeOK
  <2>2. fates'[j] = fates[j]
    BY <1>1, <1>4 DEF HookStep, BeforeStart, CheckIdempotency, Execute, Retry, OnSuccess,
       StoreIdempotencyResult, SendToDlq, MarkFailed, MarkDlq, Ack, Ended, TaskTypeOK
  <2>3. effects'[kwargs[j]] = effects[kwargs[j]]
    <3>1. kwargs[JobOf(c)] # kwargs[j] /\ KeyOf(c) = kwargs[JobOf(c)] /\ kwargs[j] \in AllKeys
      BY <1>1, <1>4 DEF KeysAreSentOnce, KeyOf, JobOf, Published, BrokerTypeOK
    <3>2. QED
      BY <3>1 DEF HookStep, BeforeStart, CheckIdempotency, Execute, Retry, OnSuccess,
         StoreIdempotencyResult, SendToDlq, MarkFailed, MarkDlq, Ack, TaskTypeOK
  <2>4. rows'[j] = rows[j]
    BY <1>1, <1>4 DEF HookStep, BeforeStart, CheckIdempotency, Execute, Retry, OnSuccess,
       StoreIdempotencyResult, SendToDlq, MarkFailed, MarkDlq, Ack, UpdateJobStatus, UpdateJob
  <2>5. ~Works(c, j)'
    BY <1>4, ChildKeepsJob DEF WorkerFault, Works
  <2>6. \A d \in Children : (Works(d, j)' <=> Works(d, j)) /\ (Works(d, j) => run'[d].pc = run[d].pc)
    BY <1>2, <2>5 DEF Works, Busy, JobOf
  <2>7. QED
    BY <2>1, <2>2, <2>3, <2>4, <2>6, ShownElsewhere
<1>5. QED
  BY <1>3, <1>4

\* A child takes the message of j: the row says what it said while the message waited.
LEMMA DeliverShows ==
  ASSUME TypeInv, NEW c \in Children, NEW i \in Jobs, NEW n \in Attempts, Deliver(c, i, n),
         NEW j \in Jobs, Sound(j), Shown(j)
  PROVE  Shown(j)'
<1> USE DEF TypeInv, TypeOK
<1>1. /\ run'[c].pc = "before_start" /\ run'[c].job = i /\ run[c].pc = "idle"
      /\ \A d \in Children \ {c} : run'[d] = run[d]
  BY DEF Deliver, Busy, TaskTypeOK, IdleChild
<1>2. UNCHANGED <<rows, kwargs, effects, fates>>
  BY DEF Deliver
<1>3. CASE i # j
  <2>1. queue'[j] = queue[j]
    BY <1>3 DEF Deliver, Dequeue, BrokerTypeOK
  <2>2. \A d \in Children : (Works(d, j)' <=> Works(d, j)) /\ (Works(d, j) => run'[d].pc = run[d].pc)
    BY <1>1, <1>3 DEF Works, Busy, JobOf
  <2>3. QED
    BY <1>2, <2>1, <2>2, ShownElsewhere
<1>4. CASE i = j
  <2>1. Queued(j) /\ \A d \in Children : ~Works(d, j)
    BY <1>4 DEF Deliver, Dequeue, Queued, Sound, OneToken
  <2>2. ~Queued(j)'
    <3>1. \A m \in Attempts : queue'[j][m] = IF m = n THEN queue[j][n] - 1 ELSE queue[j][m]
      BY <1>4 DEF Deliver, Dequeue, BrokerTypeOK
    <3>2. /\ queue[j] \in [Attempts -> Nat]
          /\ \A m \in Attempts : queue[j][m] <= 1 /\ (m # n => ~(queue[j][m] > 0))
      BY <1>4 DEF Sound, OneToken, Deliver, Dequeue, BrokerTypeOK
    <3>3. \A m \in Attempts : queue'[j][m] <= 0
      BY <3>1, <3>2
    <3>4. QED
      BY <3>1, <3>2, <3>3 DEF Queued
  <2>3. Works(c, j)' /\ \A d \in Children \ {c} : ~Works(d, j)'
    BY <1>1, <1>4, <2>1 DEF Works, Busy, JobOf
  <2>4. Committed(j)' => rows'[j].status \in Shows("before_start", j)'
    BY <1>2, <2>1 DEF Committed, Shown, Shows
  <2>5. QED
    BY <1>1, <2>2, <2>3, <2>4, ShownNext
<1>5. QED
  BY <1>3, <1>4

\* A job that was never sent has no committed row.
LEMMA UnsentIsShown ==
  ASSUME SendInv, TypeInv, NEW j \in Jobs, ~Published(j)
  PROVE  ~Committed(j)
  BY JobTableAssumption DEF SendInv, CommittedWasPublished, Published, Committed, TypeInv, TypeOK,
     JobTableTypeOK, Job, AllKeys

LEMMA WorkerShows ==
  ASSUME TypeInv, TypeInv', SendInv, SendInv', SuccessInv, KeysAreSentOnce, OutcomeInv,
         NobodyRevoked, \A j \in Jobs : Shown(j), UNCHANGED faults, Worker
  PROVE  NobodyRevoked' /\ \A j \in Jobs : Shown(j)'
<1> USE DEF TypeInv, TypeOK
<1>1. UNCHANGED kwargs
  BY WorkerKeepsRows
<1>2. ASSUME NEW kind, Fault(kind)
      PROVE  FALSE
  BY <1>2, FaultsAssumption DEF FaultsTypeOK, Fault
<1>3. CASE \E c \in Children : HookStep(c)
  <2>1. PICK c \in Children : HookStep(c)
    BY <1>3
  <2>2. ASSUME NEW j \in Jobs
        PROVE  Shown(j)'
    <3>1. CASE ~Published(j)
      <4>1. ~Committed(j)'
        BY <3>1, UnsentIsShown, WorkerKeepsRows DEF SameRow
      <4>2. QED
        BY <4>1, PendingIsShown
    <3>2. CASE Published(j) /\ Works(c, j)
      BY <2>1, <3>2, HookShows DEF OutcomeInv
    <3>3. CASE Published(j) /\ ~Works(c, j)
      BY <1>1, <2>1, <3>3, OthersAreShown
    <3>4. QED
      BY <3>1, <3>2, <3>3
  <2>3. UNCHANGED <<revoking, revoked>>
    BY <2>1 DEF HookStep, BeforeStart, CheckIdempotency, Execute, Retry, OnSuccess,
       StoreIdempotencyResult, SendToDlq, MarkFailed, MarkDlq, Ack, brokerVars
  <2>4. QED
    BY <2>2, <2>3 DEF NobodyRevoked
<1>4. CASE \E c \in Children, i \in Jobs : DlqReceive(c, i)
  <2>1. UNCHANGED <<rows, queue, kwargs, revoking, revoked, run, effects, fates>>
    BY <1>4 DEF DlqReceive
  <2>2. QED
    BY <2>1, ShownElsewhere DEF NobodyRevoked, Works, Busy, JobOf
<1>5. CASE \E c \in Children, i \in Jobs : \E n \in Attempts : Deliver(c, i, n)
  <2>1. PICK c \in Children, i \in Jobs : \E n \in Attempts : Deliver(c, i, n)
    BY <1>5
  <2>2. PICK n \in Attempts : Deliver(c, i, n)
    BY <2>1
  <2>3. UNCHANGED <<rows, revoking, revoked>>
    BY <2>2 DEF Deliver
  <2>4. ASSUME NEW j \in Jobs
        PROVE  Shown(j)'
    <3>1. CASE Published(j)
      BY <2>2, <3>1, DeliverShows DEF OutcomeInv
    <3>2. CASE ~Published(j)
      BY <2>3, <3>2, UnsentIsShown, PendingIsShown DEF Committed
    <3>3. QED
      BY <3>1, <3>2
  <2>5. QED
    BY <2>3, <2>4 DEF NobodyRevoked
<1>6. \A c \in Children : ~WorkerFault(c)
  BY <1>2 DEF WorkerFault, RetryLost, Redeliver, ChildLost
<1>7. ~PlatformFault
  BY <1>2 DEF PlatformFault, WorkerRestart, QueueEvict, CacheEvict
<1>8. \A i \in Jobs : ~ProcessStep(i)
  BY DEF ProcessStep, RevokeArrives, DiscardRevoked, NobodyRevoked
<1>9. QED
  BY <1>3, <1>4, <1>5, <1>6, <1>7, <1>8 DEF Worker, WorkerNext, WorkerStep

-----------------------------------------------------------------------------
(* The theorems on statuses.                                               *)

LEMMA CalmInvStep ==
  ASSUME TypeInv, TypeInv', SendInv, SendInv', SubmitInv, SuccessInv, NotBegun,
         Undisturbed => KeysAreSentOnce, (Undisturbed => KeysAreSentOnce)', CalmInv, [Next]_vars
  PROVE  CalmInv'
<1> SUFFICES ASSUME Undisturbed'
             PROVE  OutcomeInv' /\ NobodyRevoked' /\ \A j \in Jobs : Shown(j)'
  BY DEF CalmInv
<1>1. Undisturbed /\ UNCHANGED faults
  BY StaysDisturbed
<1>2. OutcomeInv /\ NobodyRevoked /\ (\A j \in Jobs : Shown(j)) /\ KeysAreSentOnce
  BY <1>1 DEF CalmInv
<1>3. OutcomeInv'
  BY <1>1, <1>2, OutcomeInvStep DEF RepeatsNothing
<1>4. CASE UNCHANGED vars
  <2>1. UNCHANGED <<rows, queue, kwargs, revoking, revoked, run, effects, fates>>
    BY <1>4 DEF vars
  <2>2. \A j \in Jobs : Shown(j)'
    BY <1>2, <2>1, ShownElsewhere DEF Works, Busy, JobOf
  <2>3. QED
    BY <1>2, <1>3, <2>1, <2>2 DEF NobodyRevoked
<1>5. CASE Worker
  BY <1>1, <1>2, <1>3, <1>5, WorkerShows
<1>6. ASSUME NEW r \in Requests, Api(r)
      PROVE  NobodyRevoked' /\ \A j \in Jobs : Shown(j)'
  BY <1>1, <1>6, ApiShows
<1>7. QED
  BY <1>3, <1>4, <1>5, <1>6 DEF Next

LEMMA NotBegunAlways == Spec => []NotBegun
<1>1. Init => NotBegun
  BY DEF Init, ServiceInit, NotBegun, NoRequest
<1>2. NotBegun /\ TypeInv /\ [Next]_vars => NotBegun'
  BY NotBegunStep
<1>3. QED
  BY <1>1, <1>2, TypeInvAlways, PTL DEF Spec

LEMMA CalmInvAlways == Spec => [](CalmInv /\ SendInv /\ TypeInv)
<1>1. Init => PublishedIsHeld
  BY DEF Init, PublishedIsHeld, Published, BrokerInit
<1>2. Init => NobodyRevoked /\ \A j \in Jobs : Shown(j)
  BY DEF Init, BrokerInit, NobodyRevoked, Shown, Committed
<1>3. Init => CalmInv
  BY <1>2, OutcomeInvInit DEF CalmInv
<1>4. Spec => []NotBegun
  BY NotBegunAlways
<1>5. (Undisturbed => PublishedIsHeld) /\ TypeInv /\ TypeInv' /\ NotBegun /\ [Next]_vars
      => (Undisturbed => PublishedIsHeld)'
  BY StaysDisturbed, PublishedIsHeldStep DEF RepeatsNothing
<1>6. Spec => [](Undisturbed => PublishedIsHeld)
  BY <1>1, <1>4, <1>5, TypeInvAlways, PTL DEF Spec
<1>7. SendInv /\ SubmitInv /\ (Undisturbed => PublishedIsHeld) => (Undisturbed => KeysAreSentOnce)
  BY KeysAreUniqueSent
<1>8. Spec => [](SendInv /\ SubmitInv /\ SuccessInv /\ TypeInv /\ NotBegun
                 /\ (Undisturbed => KeysAreSentOnce))
  BY <1>4, <1>6, <1>7, SuccessInvAlways, SubmitInvAlways, PTL
<1>9. /\ TypeInv /\ TypeInv' /\ SendInv /\ SendInv' /\ SubmitInv /\ SuccessInv /\ NotBegun
       /\ (Undisturbed => KeysAreSentOnce) /\ (Undisturbed => KeysAreSentOnce)' /\ CalmInv
       /\ [Next]_vars
       => CalmInv'
  BY CalmInvStep
<1>10. QED
  BY <1>3, <1>8, <1>9, PTL DEF Spec

\* As long as nothing is cancelled and no fault has occurred, a committed job of which no
\* message is left says COMPLETED if it had its effect and DLQ if not, or still says PENDING
\* because the worker was done before the commit: the hooks leave no RUNNING or FAILED.
THEOREM StatusesTellTheEnd == Spec => []StatusAtRest
<1>1. CalmInv => StatusAtRest
  <2> SUFFICES ASSUME CalmInv, Undisturbed, NEW j \in Jobs, Committed(j), ~InFlight(j)
               PROVE  rows[j].status \in ShowsAtRest(j)
    BY DEF StatusAtRest, ShowsAtRest
  <2>1. Shown(j)
    BY DEF CalmInv
  <2>2. ~Queued(j) /\ \A c \in Children : ~Works(c, j)
    BY DEF InFlight, Works
  <2>3. QED
    BY <2>1, <2>2 DEF Shown
<1>2. QED
  BY <1>1, CalmInvAlways, PTL

\* What a request commits was not committed before.
LEMMA CommitsOnce ==
  ASSUME TypeInv, SendInv, SubmitInv, NEW r \in Requests, req[r].pc = "commit"
  PROVE  ~Committed(req[r].job)
<1>1. req[r].job \in Jobs
  BY DEF TypeInv, RequestShape
<1>2. kwargs[req[r].job] = req[r].row.key
  BY DEF SendInv
<1>3. QED
  BY <1>1, <1>2 DEF SendInv, CommittedWasPublished, SubmitInv, KeysAreUnique, Inserted

\* What a step may do to a row that says how the job came to its end.
LEMMA FinalStays ==
  ASSUME TypeInv, SendInv, SubmitInv, CalmInv, Undisturbed, UNCHANGED faults, [Next]_vars,
         NEW j \in Jobs, Committed(j), rows[j].status \in {"COMPLETED", "DLQ"}
  PROVE  \/ rows'[j] = rows[j]
         \/ rows'[j] = [rows[j] EXCEPT !.status = "FAILED"] /\ fates[j] = {"dlq"}
<1> USE DEF TypeInv, TypeOK
<1>1. Published(j) /\ Sound(j) /\ Shown(j)
  BY UnsentIsShown DEF CalmInv, OutcomeInv
<1>2. rows \in [Jobs -> Job \cup {None}] /\ rows[j] \in Job
  BY DEF JobTableTypeOK, Committed
<1>3. ASSUME NEW kind, Fault(kind)
      PROVE  FALSE
  BY <1>3, FaultsAssumption DEF FaultsTypeOK, Fault
<1>4. CASE UNCHANGED rows
  BY <1>4
<1>5. ASSUME NEW r \in Requests, Api(r)
      PROVE  rows'[j] = rows[j]
  <2>1. req[r].op # "cancel" /\ req[r].pc # "update"
    BY DEF Undisturbed, SubmitInv, Cancels
  <2>2. ~CommitError(r) /\ ~CancelUpdateError(r)
    BY <1>3 DEF CommitError, CancelUpdateError
  <2>3. CASE Commit(r)
    <3>1. req[r].job # j
      BY <2>3, CommitsOnce DEF Commit
    <3>2. QED
      BY <1>2, <2>3, <3>1 DEF Commit, Insert
  <2>4. QED
    BY <1>5, <2>1, <2>2, <2>3 DEF Api, ServiceNext, ServiceCall, ServiceStep, ServiceFault,
       TaskNotAllowed, CreateJob, CancelJob, RetryDlqJob, Flush, Send, SendError, Revoke,
       RevokeError, CancelUpdate, ApiCrash
<1>6. ASSUME NEW c \in Children, BeforeStart(c) \/ OnSuccess(c) \/ MarkFailed(c) \/ MarkDlq(c)
      PROVE  \/ rows'[j] = rows[j]
             \/ rows'[j] = [rows[j] EXCEPT !.status = "FAILED"] /\ fates[j] = {"dlq"}
  <2>1. CASE JobOf(c) # j
    BY <1>2, <1>6, <2>1
       DEF BeforeStart, OnSuccess, MarkFailed, MarkDlq, UpdateJobStatus, UpdateJob
  <2>2. CASE JobOf(c) = j
    <3>1. Works(c, j)
      BY <1>6, <2>2 DEF BeforeStart, OnSuccess, MarkFailed, MarkDlq, Works, Busy
    <3>2. rows[j].status \in Shows(run[c].pc, j) /\ Tells(run[c].pc, j)
      BY <1>1, <3>1 DEF Shown, Sound
    <3>3. MarkFailed(c)
      BY <1>6, <3>2 DEF BeforeStart, OnSuccess, MarkDlq, Shows
    <3>4. fates[j] = {"dlq"}
      BY <3>2, <3>3 DEF MarkFailed, Shows, Tells
    <3>5. UpdateJob(j, "FAILED", 0)
      BY <1>3, <2>2, <3>3 DEF MarkFailed, UpdateJobStatus
    <3>6. rows'[j] = [rows[j] EXCEPT !.status = "FAILED", !.execution_count = @ + 0]
      BY <1>2, <3>5 DEF UpdateJob
    <3>7. rows[j].execution_count + 0 = rows[j].execution_count
      BY <1>2 DEF Job
    <3>8. rows'[j] = [rows[j] EXCEPT !.status = "FAILED"]
      BY <1>2, <3>6, <3>7 DEF Job
    <3>9. QED
      BY <3>4, <3>8
  <2>3. QED
    BY <2>1, <2>2
<1>7. ASSUME NEW c \in Children, HookStep(c)
      PROVE  \/ BeforeStart(c) \/ OnSuccess(c) \/ MarkFailed(c) \/ MarkDlq(c)
             \/ UNCHANGED rows
  BY <1>7 DEF HookStep, CheckIdempotency, Execute, Retry, StoreIdempotencyResult, SendToDlq, Ack
<1>8. CASE Worker
  BY <1>4, <1>6, <1>7, <1>8 DEF Worker, WorkerNext, WorkerStep, WorkerFault, ProcessStep,
     PlatformFault, DlqReceive, Deliver, RetryLost, Redeliver, ChildLost, RevokeArrives,
     DiscardRevoked, WorkerRestart, QueueEvict, CacheEvict
<1>9. QED
  BY <1>4, <1>5, <1>8 DEF Next, vars

\* While nothing is cancelled and no fault occurs, no step of a request, of a duplicate or of
\* a late hook overwrites COMPLETED or DLQ, but the second call of on_failure.
THEOREM FinalStatusStays == Spec => FinalStatusIsFinal
<1>1. ASSUME TypeInv, TypeInv', SendInv, SubmitInv, NotBegun, CalmInv, [Next]_vars
      PROVE  [Undisturbed' => \A j \in Jobs :
                Committed(j) /\ rows[j].status \in {"COMPLETED", "DLQ"} =>
                  \/ rows'[j] = rows[j]
                  \/ rows'[j] = [rows[j] EXCEPT !.status = "FAILED"] /\ fates[j] = {"dlq"}]_vars
  BY <1>1, StaysDisturbed, FinalStays
<1>2. Spec => [](TypeInv /\ SendInv /\ SubmitInv /\ NotBegun /\ CalmInv)
  BY CalmInvAlways, SubmitInvAlways, NotBegunAlways, PTL
<1>3. QED
  BY <1>1, <1>2, PTL DEF Spec, FinalStatusIsFinal
=============================================================================
