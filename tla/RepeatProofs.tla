---------------------------- MODULE RepeatProofs ----------------------------
(***************************************************************************)
(* Theorems about repetition: how often the effect of a key takes place    *)
(* and how often a job is attempted, whatever is retried, redelivered,     *)
(* crashed or sent twice, for all sets of jobs, keys, requests and         *)
(* children, any max_retries and any number of faults.                     *)
(***************************************************************************)
EXTENDS DeliveryProofs

\* A restart of the worker repeats the work of every child, and counts as one
\* fault: what is bounded by the faults is bounded with one child only.
RestartRepeatsOne == "restart" \in Faults => \A c, d \in Children : c = d

-----------------------------------------------------------------------------
(* Counting.                                                               *)

LEMMA SetMore ==
  ASSUME NEW S, NEW A, NEW T, IsFiniteSet(S), IsFiniteSet(A), T \subseteq S \cup A
  PROVE  /\ IsFiniteSet(T)
         /\ Cardinality(T) \in Nat /\ Cardinality(S) \in Nat /\ Cardinality(A) \in Nat
         /\ Cardinality(T) <= Cardinality(S) + Cardinality(A)
<1>1. IsFiniteSet(S \cup A) /\ IsFiniteSet(S \cap A)
  BY FS_Union, FS_Intersection
<1>2. Cardinality(S \cup A) = Cardinality(S) + Cardinality(A) - Cardinality(S \cap A)
  BY FS_Union
<1>3. IsFiniteSet(T) /\ Cardinality(T) <= Cardinality(S \cup A)
  BY <1>1, FS_Subset
<1>4. /\ Cardinality(T) \in Nat /\ Cardinality(S) \in Nat /\ Cardinality(A) \in Nat
      /\ Cardinality(S \cap A) \in Nat
  BY <1>1, <1>3, FS_CardinalityType
<1>5. QED
  BY <1>2, <1>3, <1>4

LEMMA SetLess ==
  ASSUME NEW S, NEW A, NEW T, IsFiniteSet(S), A \subseteq S, T \subseteq S \ A
  PROVE  /\ IsFiniteSet(T) /\ IsFiniteSet(A)
         /\ Cardinality(T) \in Nat /\ Cardinality(S) \in Nat /\ Cardinality(A) \in Nat
         /\ Cardinality(T) <= Cardinality(S) - Cardinality(A)
<1>1. IsFiniteSet(T) /\ IsFiniteSet(A)
  BY FS_Subset
<1>2. IsFiniteSet(T \cup A) /\ Cardinality(T \cup A) <= Cardinality(S)
  BY FS_Subset
<1>3. T \cap A = {}
  OBVIOUS
<1>4. Cardinality(T \cup A) = Cardinality(T) + Cardinality(A) - 0
  BY <1>1, <1>3, FS_Union, FS_EmptySet
<1>5. Cardinality(T) \in Nat /\ Cardinality(S) \in Nat /\ Cardinality(A) \in Nat
  BY <1>1, FS_CardinalityType
<1>6. QED
  BY <1>1, <1>2, <1>4, <1>5

LEMMA OneMore ==
  ASSUME NEW S, NEW x, NEW T, IsFiniteSet(S), T \subseteq S \cup {x}
  PROVE  /\ IsFiniteSet(T)
         /\ Cardinality(T) \in Nat /\ Cardinality(S) \in Nat
         /\ Cardinality(T) <= Cardinality(S) + 1
  BY SetMore, FS_Singleton

LEMMA OneLess ==
  ASSUME NEW S, NEW x \in S, NEW T, IsFiniteSet(S), T \subseteq S \ {x}
  PROVE  /\ IsFiniteSet(T)
         /\ Cardinality(T) \in Nat /\ Cardinality(S) \in Nat
         /\ Cardinality(T) <= Cardinality(S) - 1
<1>1. {x} \subseteq S
  OBVIOUS
<1>2. /\ IsFiniteSet(T)
      /\ Cardinality(T) \in Nat /\ Cardinality(S) \in Nat
      /\ Cardinality(T) <= Cardinality(S) - Cardinality({x})
  BY <1>1, SetLess, SMTT(30)
<1>3. Cardinality({x}) = 1
  BY FS_Singleton
<1>4. QED
  BY <1>2, <1>3

LEMMA NoMore ==
  ASSUME NEW S, NEW T, IsFiniteSet(S), T \subseteq S
  PROVE  /\ IsFiniteSet(T)
         /\ Cardinality(T) \in Nat /\ Cardinality(S) \in Nat
         /\ Cardinality(T) <= Cardinality(S)
  BY FS_Subset, FS_CardinalityType

-----------------------------------------------------------------------------
(* A key has one effect, and one more at most for each fault.              *)

\* The messages that wait under the key, each with its place in its queue.
Waiting(key) == {t \in Jobs \X Attempts \X (Nat \ {0}) :
                   kwargs[t[1]] = key /\ t[3] <= queue[t[1]][t[2]]}

\* c works on a message that may still have an effect.
Tries(c) == run[c].pc \in {"before_start", "check", "execute", "retry"}

Trying(key) == {c \in Children : Tries(c) /\ KeyOf(c) = key}

\* The message of the job that has the key is sent, and its INSERT is not rolled back.
Sent(key) == \/ \E j \in Jobs : Committed(j) /\ rows[j].key = key
             \/ \E r \in Requests : req[r].pc = "commit" /\ req[r].row.key = key

MaySend(key) == IF Sent(key) THEN 0 ELSE 1

\* The effects a key has had, and those it can still have without a fault.
EffectsOf(key) ==
  /\ IsFiniteSet(Waiting(key)) /\ IsFiniteSet(Trying(key))
  /\ Cardinality(Waiting(key)) + Cardinality(Trying(key)) + effects[key] + MaySend(key)
       <= 1 + faults

EffectsInv == \A key \in AllKeys : EffectsOf(key)

LEMMA EffectsInvInit == Init => EffectsInv
<1> SUFFICES ASSUME Init, NEW key \in AllKeys PROVE EffectsOf(key)
  BY DEF EffectsInv
<1>1. Waiting(key) = {}
  BY DEF Init, BrokerInit, Waiting
<1>2. Trying(key) = {}
  BY DEF Init, TaskInit, IdleChild, Trying, Tries
<1>3. effects[key] = 0 /\ faults = 0 /\ MaySend(key) \in {0, 1}
  BY DEF Init, TaskInit, MaySend
<1>4. QED
  BY <1>1, <1>2, <1>3, FS_EmptySet DEF EffectsOf

\* The messages that wait, after one more is queued.
LEMMA WaitingMore ==
  ASSUME TypeInv, UNCHANGED kwargs, NEW j \in Jobs, NEW n \in Attempts, Enqueue(j, n), NEW key
  PROVE  /\ Waiting(key)' \subseteq Waiting(key) \cup {<<j, n, queue[j][n] + 1>>}
         /\ kwargs[j] # key => Waiting(key)' \subseteq Waiting(key)
<1>1. ASSUME NEW i \in Jobs, NEW m \in Attempts
      PROVE  /\ queue[i][m] \in Nat
             /\ queue'[i][m] = IF i = j /\ m = n THEN queue[i][m] + 1 ELSE queue[i][m]
  BY DEF Enqueue, TypeInv, TypeOK, BrokerTypeOK
<1>2. ASSUME NEW i \in Jobs, NEW m \in Attempts, NEW k \in Nat \ {0},
             <<i, m, k>> \in Waiting(key)'
      PROVE  \/ <<i, m, k>> \in Waiting(key)
             \/ i = j /\ kwargs[j] = key /\ <<i, m, k>> = <<j, n, queue[j][n] + 1>>
  <2>1. kwargs[i] = key /\ k <= queue'[i][m]
    BY <1>2 DEF Waiting
  <2>2. CASE k <= queue[i][m]
    BY <2>1, <2>2 DEF Waiting
  <2>3. CASE ~(k <= queue[i][m])
    BY <1>1, <2>1, <2>3
  <2>4. QED
    BY <2>2, <2>3
<1>3. \A t \in Waiting(key)' : \E i \in Jobs, m \in Attempts, k \in Nat \ {0} : t = <<i, m, k>>
  BY DEF Waiting
<1>4. QED
  BY <1>2, <1>3

\* The messages that wait, after one is taken.
LEMMA WaitingLess ==
  ASSUME TypeInv, UNCHANGED kwargs, NEW j \in Jobs, NEW n \in Attempts, Dequeue(j, n), NEW key
  PROVE  /\ Waiting(key)' \subseteq Waiting(key)
         /\ kwargs[j] = key => /\ <<j, n, queue[j][n]>> \in Waiting(key)
                               /\ Waiting(key)' \subseteq Waiting(key) \ {<<j, n, queue[j][n]>>}
<1>1. ASSUME NEW i \in Jobs, NEW m \in Attempts
      PROVE  /\ queue[i][m] \in Nat
             /\ queue'[i][m] = IF i = j /\ m = n THEN queue[i][m] - 1 ELSE queue[i][m]
  BY DEF Dequeue, TypeInv, TypeOK, BrokerTypeOK
<1>2. ASSUME NEW i \in Jobs, NEW m \in Attempts, NEW k \in Nat \ {0},
             <<i, m, k>> \in Waiting(key)'
      PROVE  <<i, m, k>> \in Waiting(key) /\ <<i, m, k>> # <<j, n, queue[j][n]>>
  <2>1. kwargs[i] = key /\ k <= queue'[i][m]
    BY <1>2 DEF Waiting
  <2>2. k <= queue[i][m] /\ (i = j /\ m = n => k < queue[j][n])
    BY <1>1, <2>1
  <2>3. k # queue[j][n] \/ i # j \/ m # n
    BY <1>1, <2>2
  <2>4. QED
    BY <2>1, <2>2, <2>3 DEF Waiting
<1>3. \A t \in Waiting(key)' : \E i \in Jobs, m \in Attempts, k \in Nat \ {0} : t = <<i, m, k>>
  BY DEF Waiting
<1>4. queue[j][n] \in Nat \ {0} /\ queue[j][n] <= queue[j][n]
  BY <1>1 DEF Dequeue
<1>5. kwargs[j] = key => <<j, n, queue[j][n]>> \in Waiting(key)
  BY <1>4 DEF Waiting
<1>6. QED
  BY <1>2, <1>3, <1>5

\* The children that try, after a step of one of them.
LEMMA TryingAfter ==
  ASSUME UNCHANGED kwargs, NEW c, \A d \in Children \ {c} : run'[d] = run[d], NEW key
  PROVE  /\ Trying(key)' \subseteq Trying(key) \cup {c}
         /\ ~(Tries(c)' /\ KeyOf(c)' = key) => Trying(key)' \subseteq Trying(key) \ {c}
  BY DEF Trying, Tries, KeyOf

LEMMA SentSame ==
  ASSUME \A i \in Jobs : SameRow(i), UNCHANGED req, NEW key
  PROVE  MaySend(key)' = MaySend(key)
  BY DEF MaySend, Sent, SameRow

\* A step after which no more messages wait, and no more children try, than before.
LEMMA NoMoreToDo ==
  ASSUME TypeInv, TypeInv', NEW key \in AllKeys, EffectsOf(key),
         Waiting(key)' \subseteq Waiting(key), Trying(key)' \subseteq Trying(key),
         effects'[key] = effects[key], MaySend(key)' = MaySend(key), faults' >= faults
  PROVE  EffectsOf(key)'
<1>1. /\ IsFiniteSet(Waiting(key)') /\ Cardinality(Waiting(key)') <= Cardinality(Waiting(key))
      /\ Cardinality(Waiting(key)') \in Nat /\ Cardinality(Waiting(key)) \in Nat
  BY NoMore DEF EffectsOf
<1>2. /\ IsFiniteSet(Trying(key)') /\ Cardinality(Trying(key)') <= Cardinality(Trying(key))
      /\ Cardinality(Trying(key)') \in Nat /\ Cardinality(Trying(key)) \in Nat
  BY NoMore DEF EffectsOf
<1>3. /\ effects[key] \in Nat /\ faults \in Nat /\ faults' \in Nat
      /\ MaySend(key) \in Nat
  BY FaultsAssumption DEF TypeInv, TypeOK, TaskTypeOK, FaultsTypeOK, MaySend
<1>4. QED
  BY <1>1, <1>2, <1>3 DEF EffectsOf

\* What a hook, or a lost retry, does to the child that takes it.
LEMMA HookMoves ==
  ASSUME TypeInv, NEW c \in Children, HookStep(c) \/ RetryLost(c)
  PROVE  /\ JobOf(c) \in Jobs /\ KeyOf(c) \in AllKeys
         /\ \A d \in Children \ {c} : run'[d] = run[d]
         /\ run'[c].pc # "idle" => run'[c].job = run[c].job
         /\ Tries(c)' => Tries(c)
         /\ faults' \in {faults, faults + 1}
<1>1. run[c].pc # "idle" /\ run \in [Children -> Child]
  BY DEF HookStep, RetryLost, BeforeStart, CheckIdempotency, Execute, Retry, OnSuccess,
     StoreIdempotencyResult, SendToDlq, MarkFailed, MarkDlq, Ack, TypeInv, TypeOK, TaskTypeOK
<1>2. JobOf(c) \in Jobs /\ KeyOf(c) \in AllKeys
  BY <1>1 DEF TypeInv, TypeOK, ChildShape, Busy, BrokerTypeOK, Published, KeyOf, JobOf
<1>3. ASSUME NEW pc, Goto(c, pc), pc \in {"check", "execute", "retry"} => Tries(c)
      PROVE  /\ \A d \in Children \ {c} : run'[d] = run[d]
             /\ run'[c].job = run[c].job
             /\ Tries(c)' => Tries(c) \/ pc = "before_start"
  BY <1>1, <1>3 DEF Goto, Child, Tries
<1>4. CASE BeforeStart(c) \/ CheckIdempotency(c) \/ OnSuccess(c) \/ StoreIdempotencyResult(c)
           \/ SendToDlq(c) \/ MarkFailed(c) \/ Retry(c) \/ RetryLost(c)
  BY <1>2, <1>3, <1>4 DEF BeforeStart, CheckIdempotency, RetryOrFail, OnSuccess, Retry, RetryLost,
     StoreIdempotencyResult, SendToDlq, MarkFailed, UpdateJobStatus, Fault, NoFault, Tries
<1>5. ASSUME NEW again, run' = [run EXCEPT ![c].pc = "send_to_dlq", ![c].again = again]
      PROVE  /\ \A d \in Children \ {c} : run'[d] = run[d]
             /\ run'[c].job = run[c].job
             /\ Tries(c)' => Tries(c)
  BY <1>1, <1>5 DEF Child, Tries
<1>6. CASE Execute(c) \/ MarkDlq(c)
  BY <1>2, <1>3, <1>5, <1>6 DEF Execute, RetryOrFail, MarkDlq, UpdateJobStatus, Fault, NoFault, Tries
<1>7. CASE Ack(c)
  BY <1>1, <1>2, <1>7 DEF Ack, Release, IdleChild, Tries
<1>8. QED
  BY <1>4, <1>6, <1>7 DEF HookStep

LEMMA EffectsInvHook ==
  ASSUME TypeInv, TypeInv', NEW key \in AllKeys, EffectsOf(key), MaySend(key)' = MaySend(key),
         NEW c \in Children, HookStep(c) \/ RetryLost(c), UNCHANGED kwargs
  PROVE  EffectsOf(key)'
<1>1. /\ JobOf(c) \in Jobs /\ KeyOf(c) \in AllKeys
      /\ \A d \in Children \ {c} : run'[d] = run[d]
      /\ run'[c].pc # "idle" => run'[c].job = run[c].job
      /\ Tries(c)' => Tries(c)
      /\ faults' \in {faults, faults + 1}
  BY HookMoves
<1>2. /\ effects \in [AllKeys -> Nat] /\ faults \in Nat /\ faults' \in Nat
      /\ MaySend(key) \in Nat
  BY FaultsAssumption DEF TypeInv, TypeOK, TaskTypeOK, FaultsTypeOK, MaySend
<1>3. Trying(key)' \subseteq Trying(key)
  BY <1>1 DEF Trying, Tries, KeyOf
<1>4. CASE UNCHANGED <<queue, effects>>
  BY <1>1, <1>2, <1>3, <1>4, NoMoreToDo DEF Waiting
<1>5. CASE Execute(c) /\ effects' = [effects EXCEPT ![KeyOf(c)] = @ + 1] /\ Goto(c, "on_success")
  <2>1. UNCHANGED <<queue, faults>>
    BY <1>5 DEF Execute, brokerVars
  <2>2. CASE KeyOf(c) # key
    BY <1>1, <1>2, <1>3, <1>5, <2>1, <2>2, NoMoreToDo DEF Waiting
  <2>3. CASE KeyOf(c) = key
    <3>1. c \in Trying(key) /\ ~Tries(c)'
      BY <1>5, <2>3 DEF Execute, Trying, Tries, Goto, TypeInv, TypeOK, TaskTypeOK, Child
    <3>2. Trying(key)' \subseteq Trying(key) \ {c}
      BY <1>1, <3>1, TryingAfter
    <3>3. /\ IsFiniteSet(Trying(key)')
          /\ Cardinality(Trying(key)') \in Nat /\ Cardinality(Trying(key)) \in Nat
          /\ Cardinality(Trying(key)') <= Cardinality(Trying(key)) - 1
      BY <3>1, <3>2, OneLess DEF EffectsOf
    <3>4. Waiting(key)' = Waiting(key) /\ Cardinality(Waiting(key)) \in Nat
      BY <2>1, FS_CardinalityType DEF Waiting, EffectsOf
    <3>5. effects'[key] = effects[key] + 1
      BY <1>2, <1>5, <2>3
    <3>6. QED
      BY <1>2, <2>1, <3>3, <3>4, <3>5 DEF EffectsOf
  <2>4. QED
    BY <2>2, <2>3
<1>6. CASE Retry(c)
  <2>1. run[c].retries + 1 \in Attempts
    BY <1>6, BrokerAssumption
       DEF Retry, TypeInv, TypeOK, ChildShape, TaskTypeOK, Child, Attempts
  <2>2. Enqueue(JobOf(c), run[c].retries + 1) /\ UNCHANGED <<effects, faults>>
    BY <1>6 DEF Retry
  <2>3. CASE KeyOf(c) # key
    <3>1. Waiting(key)' \subseteq Waiting(key)
      BY <1>1, <2>1, <2>2, <2>3, WaitingMore DEF KeyOf, JobOf
    <3>2. QED
      BY <1>1, <1>2, <1>3, <2>2, <3>1, NoMoreToDo
  <2>4. CASE KeyOf(c) = key
    <3>1. c \in Trying(key) /\ ~Tries(c)'
      BY <1>6, <2>4 DEF Retry, Trying, Tries, Goto, TypeInv, TypeOK, TaskTypeOK, Child
    <3>2. Trying(key)' \subseteq Trying(key) \ {c}
      BY <1>1, <3>1, TryingAfter
    <3>3. /\ IsFiniteSet(Trying(key)')
          /\ Cardinality(Trying(key)') \in Nat /\ Cardinality(Trying(key)) \in Nat
          /\ Cardinality(Trying(key)') <= Cardinality(Trying(key)) - 1
      BY <3>1, <3>2, OneLess DEF EffectsOf
    <3>4. PICK x : Waiting(key)' \subseteq Waiting(key) \cup {x}
      BY <1>1, <2>1, <2>2, WaitingMore
    <3>5. /\ IsFiniteSet(Waiting(key)')
          /\ Cardinality(Waiting(key)') \in Nat /\ Cardinality(Waiting(key)) \in Nat
          /\ Cardinality(Waiting(key)') <= Cardinality(Waiting(key)) + 1
      BY <3>4, OneMore DEF EffectsOf
    <3>6. QED
      BY <1>2, <2>2, <3>3, <3>5 DEF EffectsOf
  <2>5. QED
    BY <2>3, <2>4
<1>7. QED
  BY <1>4, <1>5, <1>6 DEF HookStep, RetryLost, BeforeStart, CheckIdempotency, Execute, OnSuccess,
     StoreIdempotencyResult, SendToDlq, MarkFailed, MarkDlq, Ack, brokerVars

\* What a restart puts back into the queue: the message of the one child, if any.
LEMMA RestartQueuesOne ==
  ASSUME RestartRepeatsOne, TypeInv, WorkerRestart
  PROVE  UNCHANGED queue \/ \E j \in Jobs, n \in Attempts : Enqueue(j, n)
<1>1. "restart" \in Faults /\ \A c, d \in Children : c = d
  BY DEF WorkerRestart, Fault, RestartRepeatsOne
<1>2. queue \in [Jobs -> [Attempts -> Nat]]
  BY DEF TypeInv, TypeOK, BrokerTypeOK
<1>3. queue' = [j \in Jobs |-> [n \in Attempts |-> queue[j][n] + Cardinality(Unacked(j, n))]]
  BY DEF WorkerRestart
<1>4. CASE \A j \in Jobs, n \in Attempts : Unacked(j, n) = {}
  <2>1. \A j \in Jobs, n \in Attempts : Cardinality(Unacked(j, n)) = 0
    BY <1>4, FS_EmptySet
  <2>2. queue' = queue
    BY <1>2, <1>3, <2>1
  <2>3. QED
    BY <2>2
<1>5. ASSUME NEW i \in Jobs, NEW m \in Attempts, NEW c \in Unacked(i, m)
      PROVE  Enqueue(i, m)
  <2>1. Unacked(i, m) = {c} /\ c \in Children /\ JobOf(c) = i /\ run[c].retries = m
    BY <1>1, <1>5 DEF Unacked
  <2>2. \A j \in Jobs, n \in Attempts : j # i \/ n # m => Unacked(j, n) = {}
    BY <1>1, <2>1 DEF Unacked
  <2>3. \A j \in Jobs, n \in Attempts :
          queue'[j][n] = IF j = i /\ n = m THEN queue[j][n] + 1 ELSE queue[j][n]
    <3>1. \A j \in Jobs, n \in Attempts : j # i \/ n # m => Cardinality(Unacked(j, n)) = 0
      BY <2>2, FS_EmptySet
    <3>2. Cardinality(Unacked(i, m)) = 1
      BY <2>1, FS_Singleton
    <3>3. QED
      BY <1>2, <1>3, <3>1, <3>2
  <2>4. /\ queue' \in [Jobs -> [Attempts -> Nat]]
        /\ [queue EXCEPT ![i][m] = @ + 1] \in [Jobs -> [Attempts -> Nat]]
    BY <1>2, <1>3, UnackedCount
  <2>5. \A j \in Jobs, n \in Attempts : queue'[j][n] = [queue EXCEPT ![i][m] = @ + 1][j][n]
    BY <1>2, <2>3
  <2>6. \A j \in Jobs : queue'[j] = [queue EXCEPT ![i][m] = @ + 1][j]
    BY <2>4, <2>5
  <2>7. queue' = [queue EXCEPT ![i][m] = @ + 1]
    BY <2>4, <2>6
  <2>8. QED
    BY <2>7 DEF Enqueue
<1>6. QED
  BY <1>4, <1>5

\* The faults that repeat a message: one more message waits.
LEMMA EffectsInvRepeat ==
  ASSUME TypeInv, TypeInv', NEW key \in AllKeys, EffectsOf(key), MaySend(key)' = MaySend(key),
         UNCHANGED <<kwargs, effects>>, faults' = faults + 1, Trying(key)' \subseteq Trying(key),
         UNCHANGED queue \/ \E j \in Jobs, n \in Attempts : Enqueue(j, n)
  PROVE  EffectsOf(key)'
<1>1. PICK x : Waiting(key)' \subseteq Waiting(key) \cup {x}
  <2>1. CASE UNCHANGED queue
    BY <2>1 DEF Waiting
  <2>2. ASSUME NEW j \in Jobs, NEW n \in Attempts, Enqueue(j, n)
        PROVE  \E x : Waiting(key)' \subseteq Waiting(key) \cup {x}
    BY <2>2, WaitingMore
  <2>3. QED
    BY <2>1, <2>2
<1>2. /\ IsFiniteSet(Waiting(key)')
      /\ Cardinality(Waiting(key)') \in Nat /\ Cardinality(Waiting(key)) \in Nat
      /\ Cardinality(Waiting(key)') <= Cardinality(Waiting(key)) + 1
  BY <1>1, OneMore DEF EffectsOf
<1>3. /\ IsFiniteSet(Trying(key)') /\ Cardinality(Trying(key)') <= Cardinality(Trying(key))
      /\ Cardinality(Trying(key)') \in Nat /\ Cardinality(Trying(key)) \in Nat
  BY NoMore DEF EffectsOf
<1>4. effects[key] \in Nat /\ faults \in Nat /\ MaySend(key) \in Nat
  BY FaultsAssumption DEF TypeInv, TypeOK, TaskTypeOK, FaultsTypeOK, MaySend
<1>5. QED
  BY <1>2, <1>3, <1>4 DEF EffectsOf

\* A delivery: the message waits no more, and its child tries.
LEMMA EffectsInvDeliver ==
  ASSUME TypeInv, TypeInv', NEW key \in AllKeys, EffectsOf(key), MaySend(key)' = MaySend(key),
         NEW c \in Children, NEW j \in Jobs, NEW n \in Attempts, Deliver(c, j, n)
  PROVE  EffectsOf(key)'
<1>1. Dequeue(j, n) /\ UNCHANGED <<kwargs, effects, faults>>
  BY DEF Deliver
<1>2. \A d \in Children \ {c} : run'[d] = run[d]
  BY DEF Deliver, TypeInv, TypeOK, TaskTypeOK
<1>3. run'[c].job = j
  BY DEF Deliver, TypeInv, TypeOK, TaskTypeOK, IdleChild
<1>4. /\ effects[key] \in Nat /\ faults \in Nat /\ MaySend(key) \in Nat
  BY FaultsAssumption DEF TypeInv, TypeOK, TaskTypeOK, FaultsTypeOK, MaySend
<1>5. CASE kwargs[j] # key
  <2>1. Trying(key)' \subseteq Trying(key)
    BY <1>1, <1>2, <1>3, <1>5, TryingAfter DEF KeyOf
  <2>2. Waiting(key)' \subseteq Waiting(key)
    BY <1>1, WaitingLess
  <2>3. QED
    BY <1>1, <1>4, <2>1, <2>2, NoMoreToDo
<1>6. CASE kwargs[j] = key
  <2>1. /\ <<j, n, queue[j][n]>> \in Waiting(key)
        /\ Waiting(key)' \subseteq Waiting(key) \ {<<j, n, queue[j][n]>>}
    BY <1>1, <1>6, WaitingLess
  <2>2. /\ IsFiniteSet(Waiting(key)')
        /\ Cardinality(Waiting(key)') \in Nat /\ Cardinality(Waiting(key)) \in Nat
        /\ Cardinality(Waiting(key)') <= Cardinality(Waiting(key)) - 1
    BY <2>1, OneLess DEF EffectsOf
  <2>3. Trying(key)' \subseteq Trying(key) \cup {c}
    BY <1>1, <1>2, TryingAfter
  <2>4. /\ IsFiniteSet(Trying(key)')
        /\ Cardinality(Trying(key)') \in Nat /\ Cardinality(Trying(key)) \in Nat
        /\ Cardinality(Trying(key)') <= Cardinality(Trying(key)) + 1
    BY <2>3, OneMore DEF EffectsOf
  <2>5. QED
    BY <1>1, <1>4, <2>2, <2>4 DEF EffectsOf
<1>7. QED
  BY <1>5, <1>6

LEMMA EffectsInvWorker ==
  ASSUME RestartRepeatsOne, TypeInv, TypeInv', EffectsInv, Worker
  PROVE  EffectsInv'
<1> SUFFICES ASSUME NEW key \in AllKeys PROVE EffectsOf(key)'
  BY DEF EffectsInv
<1>1. (\A i \in Jobs : SameRow(i)) /\ UNCHANGED <<kwargs, req>>
  BY WorkerKeepsRows
<1>2. EffectsOf(key) /\ MaySend(key)' = MaySend(key)
  BY <1>1, SentSame DEF EffectsInv
<1>3. faults \in Nat /\ effects \in [AllKeys -> Nat]
  BY FaultsAssumption DEF TypeInv, TypeOK, TaskTypeOK, FaultsTypeOK
<1>4. CASE UNCHANGED <<queue, run, effects>> /\ faults' \in {faults, faults + 1}
  <2>1. Waiting(key)' = Waiting(key) /\ Trying(key)' = Trying(key)
    BY <1>1, <1>4 DEF Waiting, Trying, Tries, KeyOf
  <2>2. QED
    BY <1>2, <1>3, <1>4, <2>1, NoMoreToDo
<1>5. ASSUME NEW j \in Jobs, NEW n \in Attempts, DiscardRevoked(j, n)
      PROVE  EffectsOf(key)'
  <2>1. Waiting(key)' \subseteq Waiting(key)
    BY <1>5, WaitingLess DEF DiscardRevoked
  <2>2. Trying(key)' = Trying(key)
    BY <1>5 DEF DiscardRevoked, Trying, Tries, KeyOf
  <2>3. QED
    BY <1>2, <1>3, <1>5, <2>1, <2>2, NoMoreToDo DEF DiscardRevoked
<1>6. CASE QueueEvict
  <2>1. Waiting(key)' \subseteq Waiting(key)
    BY <1>6 DEF QueueEvict, Waiting
  <2>2. Trying(key)' = Trying(key)
    BY <1>6 DEF QueueEvict, Trying, Tries, KeyOf
  <2>3. QED
    BY <1>2, <1>3, <1>6, <2>1, <2>2, NoMoreToDo DEF QueueEvict, Fault
<1>7. ASSUME NEW c \in Children, Redeliver(c)
      PROVE  EffectsOf(key)'
  <2>1. JobOf(c) \in Jobs /\ run[c].retries \in Attempts
    BY <1>7 DEF Redeliver, TypeInv, TypeOK, ChildShape, TaskTypeOK, Child
  <2>2. Trying(key)' \subseteq Trying(key)
    BY <1>1, <1>7 DEF Redeliver, Trying, Tries, KeyOf, TypeInv, TypeOK, TaskTypeOK, Child
  <2>3. QED
    BY <1>1, <1>2, <1>7, <2>1, <2>2, EffectsInvRepeat DEF Redeliver, Fault
<1>8. ASSUME NEW c \in Children, ChildLost(c)
      PROVE  EffectsOf(key)'
  <2>1. JobOf(c) \in Jobs /\ run[c].retries \in Attempts
    BY <1>8 DEF ChildLost, TypeInv, TypeOK, ChildShape, TaskTypeOK, Child
  <2>2. Trying(key)' \subseteq Trying(key)
    BY <1>1, <1>8
       DEF ChildLost, Release, IdleChild, Trying, Tries, KeyOf, TypeInv, TypeOK, TaskTypeOK, Child
  <2>3. QED
    BY <1>1, <1>2, <1>8, <2>1, <2>2, EffectsInvRepeat DEF ChildLost, Fault
<1>9. CASE WorkerRestart
  <2>1. Trying(key)' \subseteq Trying(key)
    BY <1>9 DEF WorkerRestart, Trying, Tries, IdleChild
  <2>2. QED
    BY <1>1, <1>2, <1>9, <2>1, RestartQueuesOne, EffectsInvRepeat DEF WorkerRestart, Fault
<1>10. ASSUME NEW c \in Children, HookStep(c) \/ RetryLost(c)
       PROVE  EffectsOf(key)'
  BY <1>1, <1>2, <1>10, EffectsInvHook
<1>11. ASSUME NEW c \in Children, WorkerStep(c) \/ WorkerFault(c)
       PROVE  EffectsOf(key)'
  <2>1. CASE \E j \in Jobs : DlqReceive(c, j)
    BY <1>4, <2>1 DEF DlqReceive
  <2>2. CASE \E j \in Jobs, n \in Attempts : Deliver(c, j, n)
    BY <1>2, <2>2, EffectsInvDeliver
  <2>3. QED
    BY <1>7, <1>8, <1>10, <1>11, <2>1, <2>2 DEF WorkerStep, WorkerFault
<1>12. ASSUME NEW j \in Jobs, ProcessStep(j)
       PROVE  EffectsOf(key)'
  BY <1>4, <1>5, <1>12 DEF ProcessStep, RevokeArrives
<1>13. CASE PlatformFault
  BY <1>4, <1>6, <1>9, <1>13 DEF PlatformFault, CacheEvict, Fault
<1>14. QED
  BY <1>11, <1>12, <1>13 DEF Worker, WorkerNext

\* The message of a job that was never sent before.
LEMMA FirstMessage ==
  ASSUME TypeInv, SendInv, NEW r \in Requests, req[r].pc = "send",
         SendTask(req[r].job, req[r].row.key), NEW key \in AllKeys
  PROVE  /\ Waiting(key)' \subseteq Waiting(key) \cup {<<req[r].job, 0, 1>>}
         /\ req[r].row.key # key => Waiting(key)' \subseteq Waiting(key)
<1>1. PICK j \in Jobs : j = req[r].job
  BY DEF TypeInv, RequestShape
<1>2. ~Published(j) /\ 0 \in Attempts
  BY <1>1, BrokerAssumption DEF SendInv, Unsent, Attempts
<1>3. \A n \in Attempts : queue[j][n] = 0
  BY <1>2 DEF TypeInv, TypeOK, BrokerTypeOK, QueueShape
<1>4. ASSUME NEW i \in Jobs, NEW m \in Attempts
      PROVE  /\ queue[i][m] \in Nat
             /\ queue'[i][m] = IF i = j /\ m = 0 THEN 1 ELSE queue[i][m]
             /\ kwargs'[i] = IF i = j THEN req[r].row.key ELSE kwargs[i]
  BY <1>1, <1>2, <1>3 DEF SendTask, Enqueue, TypeInv, TypeOK, BrokerTypeOK
<1>5. ASSUME NEW i \in Jobs, NEW m \in Attempts, NEW k \in Nat \ {0},
             <<i, m, k>> \in Waiting(key)'
      PROVE  \/ <<i, m, k>> \in Waiting(key)
             \/ req[r].row.key = key /\ <<i, m, k>> = <<j, 0, 1>>
  <2>1. kwargs'[i] = key /\ k <= queue'[i][m]
    BY <1>5 DEF Waiting
  <2>2. CASE i # j
    BY <1>4, <2>1, <2>2 DEF Waiting
  <2>3. CASE i = j
    BY <1>3, <1>4, <2>1, <2>3
  <2>4. QED
    BY <2>2, <2>3
<1>6. \A t \in Waiting(key)' : \E i \in Jobs, m \in Attempts, k \in Nat \ {0} : t = <<i, m, k>>
  BY DEF Waiting
<1>7. QED
  BY <1>1, <1>5, <1>6

\* A message that is sent and whose INSERT is open or rolled back: the key was not sent
\* before, or the failure is a fault.
LEMMA EffectsInvSend ==
  ASSUME TypeInv, TypeInv', SendInv, NEW key \in AllKeys, EffectsOf(key),
         NEW r \in Requests, req[r].pc = "send", SendTask(req[r].job, req[r].row.key),
         UNCHANGED effects, Trying(key)' = Trying(key),
         faults' >= faults,
         MaySend(key)' <= MaySend(key) + (faults' - faults),
         req[r].row.key = key => MaySend(key)' <= MaySend(key) + (faults' - faults) - 1
  PROVE  EffectsOf(key)'
<1>1. /\ Waiting(key)' \subseteq Waiting(key) \cup {<<req[r].job, 0, 1>>}
      /\ req[r].row.key # key => Waiting(key)' \subseteq Waiting(key)
  BY FirstMessage
<1>2. /\ effects[key] \in Nat /\ faults \in Nat /\ faults' \in Nat
      /\ MaySend(key) \in Nat /\ MaySend(key)' \in Nat
  BY FaultsAssumption DEF TypeInv, TypeOK, TaskTypeOK, FaultsTypeOK, MaySend
<1>3. IsFiniteSet(Trying(key)') /\ Cardinality(Trying(key)) \in Nat
  BY FS_CardinalityType DEF EffectsOf
<1>4. CASE req[r].row.key = key
  <2>1. /\ IsFiniteSet(Waiting(key)')
        /\ Cardinality(Waiting(key)') \in Nat /\ Cardinality(Waiting(key)) \in Nat
        /\ Cardinality(Waiting(key)') <= Cardinality(Waiting(key)) + 1
    BY <1>1, OneMore DEF EffectsOf
  <2>2. QED
    BY <1>2, <1>3, <1>4, <2>1 DEF EffectsOf
<1>5. CASE req[r].row.key # key
  <2>1. /\ IsFiniteSet(Waiting(key)')
        /\ Cardinality(Waiting(key)') \in Nat /\ Cardinality(Waiting(key)) \in Nat
        /\ Cardinality(Waiting(key)') <= Cardinality(Waiting(key))
    BY <1>1, <1>5, NoMore DEF EffectsOf
  <2>2. QED
    BY <1>2, <1>3, <2>1 DEF EffectsOf
<1>6. QED
  BY <1>4, <1>5

\* Only an error, or the death of the process, takes back what was sent.
LEMMA SentStays ==
  ASSUME TypeInv, SendInv, SubmitInv, NEW r \in Requests, Api(r), NEW key \in AllKeys,
         Sent(key), ~Sent(key)'
  PROVE  faults' = faults + 1
<1>1. \A i \in Jobs : Committed(i) => SameRow(i)
  BY ApiKeepsRows
<1>2. PICK q \in Requests : req[q].pc = "commit" /\ req[q].row.key = key
  BY <1>1 DEF Sent, SameRow
<1>3. req'[q] # req[q]
  BY <1>2 DEF Sent
<1>4. q = r
  BY <1>3, OthersWait
<1>5. CASE Commit(r)
  <2>1. req[r].job \in Jobs /\ req[r].row \in Job
    BY <1>2, <1>4, CommitIsNew
  <2>2. rows'[req[r].job] = req[r].row
    BY <1>5, <2>1 DEF Commit, Insert, TypeInv, TypeOK, JobTableTypeOK
  <2>3. QED
    BY <1>2, <1>4, <2>1, <2>2, JobTableAssumption DEF Sent, Committed
<1>6. QED
  BY <1>2, <1>4, <1>5
     DEF Api, ServiceNext, ServiceCall, ServiceStep, ServiceFault, TaskNotAllowed, CreateJob,
         CancelJob, RetryDlqJob, Flush, Send, SendError, CommitError, Revoke, RevokeError,
         CancelUpdate, CancelUpdateError, ApiCrash, Fault

LEMMA EffectsInvApi ==
  ASSUME TypeInv, TypeInv', SendInv, SubmitInv, EffectsInv, NEW r \in Requests, Api(r)
  PROVE  EffectsInv'
<1> SUFFICES ASSUME NEW key \in AllKeys PROVE EffectsOf(key)'
  BY DEF EffectsInv
<1>1. EffectsOf(key) /\ UNCHANGED <<run, effects>>
  BY DEF EffectsInv, Api
<1>2. Trying(key)' = Trying(key)
  <2>1. \A c \in Children : Tries(c) => KeyOf(c)' = KeyOf(c)
    BY <1>1, ApiKeeps DEF Tries, KeyOf, JobOf, TypeInv, ChildShape, Busy
  <2>2. QED
    BY <1>1, <2>1 DEF Trying, Tries
<1>3. faults \in Nat /\ effects[key] \in Nat
  BY FaultsAssumption DEF TypeInv, TypeOK, FaultsTypeOK, TaskTypeOK
<1>4. faults' \in {faults, faults + 1}
  BY DEF Api, ServiceNext, ServiceCall, ServiceStep, ServiceFault, TaskNotAllowed, CreateJob,
     CancelJob, RetryDlqJob, Flush, Send, SendError, Commit, CommitError, Revoke, RevokeError,
     CancelUpdate, CancelUpdateError, ApiCrash, Fault
<1>5. MaySend(key)' <= MaySend(key) + (faults' - faults)
  <2>1. Sent(key) /\ ~Sent(key)' => faults' = faults + 1
    BY SentStays
  <2>2. /\ MaySend(key) \in {0, 1} /\ MaySend(key)' \in {0, 1}
        /\ MaySend(key) = 0 <=> Sent(key)
        /\ MaySend(key)' = 0 <=> Sent(key)'
    BY DEF MaySend
  <2>3. QED
    BY <1>3, <1>4, <2>1, <2>2
<1>6. CASE UNCHANGED <<queue, kwargs>>
  <2>1. Waiting(key)' = Waiting(key)
    BY <1>6 DEF Waiting
  <2>2. Cardinality(Waiting(key)) \in Nat /\ Cardinality(Trying(key)) \in Nat
    BY <1>1, FS_CardinalityType DEF EffectsOf
  <2>3. MaySend(key) \in Nat /\ MaySend(key)' \in Nat
    BY DEF MaySend
  <2>4. QED
    BY <1>1, <1>2, <1>3, <1>4, <1>5, <2>1, <2>2, <2>3 DEF EffectsOf
<1>7. ASSUME req[r].pc = "send", req[r].row.key = key
      PROVE  MaySend(key) = 1
  <2>1. \A j \in Jobs : Committed(j) => rows[j].key # key
    BY <1>7 DEF SubmitInv, KeysAreUnique, Inserted
  <2>2. \A q \in Requests : req[q].pc = "commit" => req[q].row.key # key
    BY <1>7 DEF SubmitInv, KeysAreUnique, Inserted
  <2>3. QED
    BY <2>1, <2>2 DEF MaySend, Sent
<1>8. CASE Send(r)
  <2>1. req[r].row.key = key => MaySend(key)' = 0
    BY <1>8, StepEffect DEF Send, MaySend, Sent, TypeInv, TypeOK
  <2>2. faults' = faults
    BY <1>8 DEF Send
  <2>3. QED
    BY <1>1, <1>2, <1>3, <1>5, <1>7, <1>8, <2>1, <2>2, EffectsInvSend DEF Send
<1>9. CASE SendError(r) /\ SendTask(req[r].job, req[r].row.key)
  <2>1. faults' = faults + 1
    BY <1>9 DEF SendError, Fault
  <2>2. MaySend(key)' <= 1
    BY DEF MaySend
  <2>3. MaySend(key) \in Nat /\ MaySend(key)' \in Nat
    BY DEF MaySend
  <2>4. req[r].row.key = key => MaySend(key)' <= MaySend(key) + (faults' - faults) - 1
    BY <1>3, <1>7, <1>9, <2>1, <2>2, <2>3 DEF SendError
  <2>5. QED
    BY <1>1, <1>2, <1>3, <1>5, <1>9, <2>1, <2>4, EffectsInvSend DEF SendError
<1>10. QED
  BY <1>6, <1>8, <1>9
     DEF Api, ServiceNext, ServiceCall, ServiceStep, ServiceFault, TaskNotAllowed, CreateJob,
         CancelJob, RetryDlqJob, Flush, SendError, Commit, CommitError, Revoke, RevokeError,
         CancelUpdate, CancelUpdateError, ApiCrash

LEMMA EffectsInvStep ==
  ASSUME RestartRepeatsOne
  PROVE  EffectsInv /\ TypeInv /\ TypeInv' /\ SendInv /\ SubmitInv /\ [Next]_vars => EffectsInv'
<1> SUFFICES ASSUME EffectsInv, TypeInv, TypeInv', SendInv, SubmitInv, [Next]_vars
             PROVE  EffectsInv'
  OBVIOUS
<1>1. CASE UNCHANGED vars
  BY <1>1 DEF vars, EffectsInv, EffectsOf, Waiting, Trying, Tries, KeyOf, MaySend, Sent, Committed
<1>2. QED
  BY <1>1, EffectsInvApi, EffectsInvWorker DEF Next

\* Exactly once as far as the environment allows: the effect of a key takes place once,
\* and one more time at most for each fault, however many jobs and messages carry the
\* key, and in whatever order they are sent, delivered, retried and answered.
THEOREM RepeatsNeedFaults ==
  ASSUME RestartRepeatsOne
  PROVE  Spec => []DuplicatesNeedFaults
<1>1. EffectsInv /\ TypeInv /\ TypeInv' /\ SendInv /\ SubmitInv /\ [Next]_vars => EffectsInv'
  BY EffectsInvStep
<1>2. EffectsInv /\ TypeInv => DuplicatesNeedFaults
  <2> SUFFICES ASSUME EffectsInv, TypeInv, NEW key \in AllKeys
               PROVE  effects[key] <= 1 + faults
    BY DEF DuplicatesNeedFaults
  <2>1. Cardinality(Waiting(key)) \in Nat /\ Cardinality(Trying(key)) \in Nat
    BY FS_CardinalityType DEF EffectsInv, EffectsOf
  <2>2. effects[key] \in Nat /\ faults \in Nat /\ MaySend(key) \in Nat
    BY FaultsAssumption DEF TypeInv, TypeOK, TaskTypeOK, FaultsTypeOK, MaySend
  <2>3. QED
    BY <2>1, <2>2 DEF EffectsInv, EffectsOf
<1>3. QED
  BY EffectsInvInit, SuccessInvAlways, SubmitInvAlways, <1>1, <1>2, PTL DEF Spec

-----------------------------------------------------------------------------
(* A job is attempted max_retries + 1 times, and as often for each fault.  *)

\* The attempts of one series.
OneSeries == MaxRetries + 1

\* The attempts that are still ahead of a message, or of a child, whose next one is n.
Ahead(x, n) == {x} \X (n..MaxRetries)

\* The attempts that the waiting messages of j may still lead to.
AttemptsQueued(j) == {t \in (Attempts \X (Nat \ {0})) \X Attempts :
                        t[1][2] <= queue[j][t[1][1]] /\ t[1][1] <= t[2]}

\* The next attempt that before_start will count for the message of c.
NextAttempt(c) == CASE run[c].pc = "before_start" -> run[c].retries
                    [] run[c].pc \in {"check", "execute", "retry"} -> run[c].retries + 1
                    [] OTHER -> MaxRetries + 1

\* The attempts that the children at work on j may still lead to.
AttemptsHeld(j) == {t \in Children \X Attempts : JobOf(t[1]) = j /\ NextAttempt(t[1]) <= t[2]}

\* The attempts that the row of j counts.
Counted(j) == IF Committed(j) THEN rows[j].execution_count ELSE 0

\* The attempts of a job that no message was sent for.
Unspent(j) == IF Published(j) THEN 0 ELSE OneSeries

AttemptsOf(j) ==
  /\ IsFiniteSet(AttemptsQueued(j)) /\ IsFiniteSet(AttemptsHeld(j))
  /\ Counted(j) + Cardinality(AttemptsQueued(j)) + Cardinality(AttemptsHeld(j)) + Unspent(j)
       <= OneSeries * (1 + faults)

\* A job starts with no attempt counted.
StartsAtZero == \A r \in Requests : Building(r) => req[r].row.execution_count = 0

AttemptsInv == StartsAtZero /\ \A j \in Jobs : AttemptsOf(j)

LEMMA AttemptsInvInit == Init => AttemptsInv
<1> SUFFICES ASSUME Init PROVE AttemptsInv
  OBVIOUS
<1>1. StartsAtZero
  BY DEF Init, ServiceInit, NoRequest, StartsAtZero, Building
<1>2. ASSUME NEW j \in Jobs
      PROVE  AttemptsOf(j)
  <2>1. AttemptsQueued(j) = {}
    BY DEF Init, BrokerInit, AttemptsQueued
  <2>2. AttemptsHeld(j) = {}
    BY BrokerAssumption DEF Init, TaskInit, IdleChild, AttemptsHeld, NextAttempt, Attempts
  <2>3. Counted(j) = 0 /\ Unspent(j) = OneSeries /\ faults = 0 /\ OneSeries \in Nat
    BY BrokerAssumption DEF Init, BrokerInit, Counted, Committed, Unspent, Published, OneSeries
  <2>4. QED
    BY <2>1, <2>2, <2>3, FS_EmptySet DEF AttemptsOf
<1>3. QED
  BY <1>1, <1>2 DEF AttemptsInv

LEMMA AheadCount ==
  ASSUME NEW x, NEW n \in 0..OneSeries
  PROVE  /\ IsFiniteSet(Ahead(x, n))
         /\ Cardinality(Ahead(x, n)) = OneSeries - n
         /\ OneSeries \in Nat
<1>1. IsFiniteSet({x}) /\ Cardinality({x}) = 1
  BY FS_Singleton
<1>2. n \in Nat /\ MaxRetries \in Nat /\ n <= MaxRetries + 1
  BY BrokerAssumption DEF OneSeries
<1>3. IsFiniteSet(n..MaxRetries) /\ Cardinality(n..MaxRetries) = MaxRetries + 1 - n
  BY <1>2, FS_Interval
<1>4. Cardinality({x} \X (n..MaxRetries)) = Cardinality({x}) * Cardinality(n..MaxRetries)
  BY <1>1, <1>3, FS_Product
<1>5. Ahead(x, n) = {x} \X (n..MaxRetries)
  BY ZenonT(30) DEF Ahead
<1>6. IsFiniteSet({x} \X (n..MaxRetries))
  BY <1>1, <1>3, FS_Product
<1>7. Cardinality(Ahead(x, n)) = 1 * (MaxRetries + 1 - n)
  BY <1>1, <1>3, <1>4, <1>5
<1>8. QED
  BY <1>2, <1>5, <1>6, <1>7 DEF OneSeries

LEMMA OneSeriesMore ==
  ASSUME NEW f \in Nat
  PROVE  /\ OneSeries * (1 + f) \in Nat
         /\ OneSeries * (1 + (f + 1)) = OneSeries * (1 + f) + OneSeries
<1>1. OneSeries \in Nat
  BY BrokerAssumption DEF OneSeries
<1>2. QED
  BY <1>1

\* The attempts of the queue, after a message more.
LEMMA QueuedMore ==
  ASSUME TypeInv, NEW i \in Jobs, NEW n \in Attempts, Enqueue(i, n), NEW j \in Jobs
  PROVE  /\ i = j => AttemptsQueued(j)'
                       \subseteq AttemptsQueued(j) \cup Ahead(<<n, queue[j][n] + 1>>, n)
         /\ i # j => AttemptsQueued(j)' \subseteq AttemptsQueued(j)
<1>1. ASSUME NEW m \in Attempts
      PROVE  /\ queue[j][m] \in Nat
             /\ queue'[j][m] = IF i = j /\ m = n THEN queue[j][m] + 1 ELSE queue[j][m]
  BY DEF Enqueue, TypeInv, TypeOK, BrokerTypeOK
<1>2. ASSUME NEW m \in Attempts, NEW k \in Nat \ {0}, NEW a \in Attempts,
             << <<m, k>>, a >> \in AttemptsQueued(j)'
      PROVE  \/ << <<m, k>>, a >> \in AttemptsQueued(j)
             \/ i = j /\ << <<m, k>>, a >> \in Ahead(<<n, queue[j][n] + 1>>, n)
  <2>1. k <= queue'[j][m] /\ m <= a
    BY <1>2 DEF AttemptsQueued
  <2>2. CASE k <= queue[j][m]
    BY <2>1, <2>2 DEF AttemptsQueued
  <2>3. CASE ~(k <= queue[j][m])
    <3>1. i = j /\ m = n /\ k = queue[j][n] + 1
      BY <1>1, <2>1, <2>3
    <3>2. a \in n..MaxRetries
      BY <2>1, <3>1, BrokerAssumption DEF Attempts
    <3>3. QED
      BY <3>1, <3>2 DEF Ahead
  <2>4. QED
    BY <2>2, <2>3
<1>3. \A t \in AttemptsQueued(j)' :
        \E m \in Attempts, k \in Nat \ {0}, a \in Attempts : t = << <<m, k>>, a >>
  BY DEF AttemptsQueued
<1>4. QED
  BY <1>2, <1>3

\* The attempts of the queue, after a message less.
LEMMA QueuedLess ==
  ASSUME TypeInv, NEW i \in Jobs, NEW n \in Attempts, Dequeue(i, n), NEW j \in Jobs
  PROVE  /\ AttemptsQueued(j)' \subseteq AttemptsQueued(j)
         /\ i = j => /\ Ahead(<<n, queue[j][n]>>, n) \subseteq AttemptsQueued(j)
                     /\ AttemptsQueued(j)'
                          \subseteq AttemptsQueued(j) \ Ahead(<<n, queue[j][n]>>, n)
<1>1. ASSUME NEW m \in Attempts
      PROVE  /\ queue[j][m] \in Nat
             /\ queue'[j][m] = IF i = j /\ m = n THEN queue[j][m] - 1 ELSE queue[j][m]
  BY DEF Dequeue, TypeInv, TypeOK, BrokerTypeOK
<1>2. ASSUME NEW m \in Attempts, NEW k \in Nat \ {0}, NEW a \in Attempts,
             << <<m, k>>, a >> \in AttemptsQueued(j)'
      PROVE  /\ << <<m, k>>, a >> \in AttemptsQueued(j)
             /\ i = j => << <<m, k>>, a >> \notin Ahead(<<n, queue[j][n]>>, n)
  <2>1. k <= queue'[j][m] /\ m <= a
    BY <1>2 DEF AttemptsQueued
  <2>2. k <= queue[j][m] /\ (i = j /\ m = n => k < queue[j][n])
    BY <1>1, <2>1
  <2>3. i = j => <<m, k>> # <<n, queue[j][n]>>
    BY <1>1, <2>2
  <2>4. QED
    BY <2>1, <2>2, <2>3 DEF AttemptsQueued, Ahead
<1>3. \A t \in AttemptsQueued(j)' :
        \E m \in Attempts, k \in Nat \ {0}, a \in Attempts : t = << <<m, k>>, a >>
  BY DEF AttemptsQueued
<1>4. ASSUME i = j
      PROVE  Ahead(<<n, queue[j][n]>>, n) \subseteq AttemptsQueued(j)
  <2>1. queue[j][n] \in Nat \ {0} /\ queue[j][n] <= queue[j][n]
    BY <1>1, <1>4 DEF Dequeue
  <2>2. \A a \in n..MaxRetries : a \in Attempts /\ n <= a
    BY BrokerAssumption DEF Attempts
  <2>3. QED
    BY <2>1, <2>2 DEF Ahead, AttemptsQueued
<1>5. QED
  BY <1>2, <1>3, <1>4

\* The attempts in the hands of the children, after a step of one of them.
LEMMA HeldAfter ==
  ASSUME NEW c \in Children, \A d \in Children \ {c} : run'[d] = run[d], NEW j
  PROVE  \A d \in Children, a \in Attempts :
           <<d, a>> \in AttemptsHeld(j)' <=>
             IF d = c THEN JobOf(c)' = j /\ NextAttempt(c)' <= a
                      ELSE <<d, a>> \in AttemptsHeld(j)
<1>1. \A d \in Children \ {c} : NextAttempt(d)' = NextAttempt(d) /\ JobOf(d)' = JobOf(d)
  BY DEF NextAttempt, JobOf
<1>2. QED
  BY <1>1 DEF AttemptsHeld

LEMMA HeldPairs ==
  ASSUME NEW j
  PROVE  /\ \A t \in AttemptsHeld(j) : \E d \in Children, a \in Attempts : t = <<d, a>>
         /\ \A d \in Children, a \in Attempts :
              <<d, a>> \in AttemptsHeld(j) <=> JobOf(d) = j /\ NextAttempt(d) <= a
         /\ \A t \in AttemptsHeld(j)' : \E d \in Children, a \in Attempts : t = <<d, a>>
  BY DEF AttemptsHeld

\* A child that goes on, to attempts no earlier than before, or to no more.
LEMMA HeldShrinks ==
  ASSUME TypeInv, TypeInv', NEW c \in Children, \A d \in Children \ {c} : run'[d] = run[d],
         run'[c].job = run[c].job \/ NextAttempt(c)' = OneSeries,
         NextAttempt(c)' >= NextAttempt(c), NEW j
  PROVE  AttemptsHeld(j)' \subseteq AttemptsHeld(j)
<1>1. NextAttempt(c) \in Nat /\ NextAttempt(c)' \in Nat
  BY BrokerAssumption DEF NextAttempt, TypeInv, TypeOK, TaskTypeOK, Child, Attempts
<1>2. \A a \in Attempts : a \in Nat /\ a < OneSeries
  BY BrokerAssumption DEF Attempts, OneSeries
<1>3. ASSUME NEW d \in Children, NEW a \in Attempts, <<d, a>> \in AttemptsHeld(j)'
      PROVE  <<d, a>> \in AttemptsHeld(j)
  <2>1. CASE d # c
    BY <1>3, <2>1, HeldAfter
  <2>2. CASE d = c
    <3>1. run'[c].job = j /\ NextAttempt(c)' <= a
      BY <1>3, <2>2, HeldAfter DEF JobOf
    <3>2. run[c].job = j /\ NextAttempt(c) <= a
      BY <1>1, <1>2, <3>1 DEF OneSeries
    <3>3. QED
      BY <2>2, <3>2, HeldPairs DEF JobOf
  <2>3. QED
    BY <2>1, <2>2
<1>4. QED
  BY <1>3, HeldPairs

LEMMA AttemptTypes ==
  ASSUME TypeInv, NEW j \in Jobs
  PROVE  /\ Counted(j) \in Nat /\ Unspent(j) \in Nat
         /\ faults \in Nat /\ OneSeries \in Nat
         /\ AttemptsOf(j) => /\ Cardinality(AttemptsQueued(j)) \in Nat
                             /\ Cardinality(AttemptsHeld(j)) \in Nat
<1>1. Counted(j) \in Nat
  BY DEF Counted, Committed, TypeInv, TypeOK, JobTableTypeOK, Job
<1>2. Unspent(j) \in Nat /\ OneSeries \in Nat
  BY BrokerAssumption DEF Unspent, OneSeries
<1>3. faults \in Nat
  BY FaultsAssumption DEF TypeInv, TypeOK, FaultsTypeOK
<1>4. QED
  BY <1>1, <1>2, <1>3, FS_CardinalityType DEF AttemptsOf

\* A step after which no more attempts are ahead.
LEMMA NoMoreAttempts ==
  ASSUME TypeInv, TypeInv', NEW j \in Jobs, AttemptsOf(j),
         AttemptsQueued(j)' \subseteq AttemptsQueued(j),
         AttemptsHeld(j)' \subseteq AttemptsHeld(j),
         Counted(j)' <= Counted(j), Unspent(j)' <= Unspent(j),
         faults' \in {faults, faults + 1}
  PROVE  AttemptsOf(j)'
<1>1. /\ IsFiniteSet(AttemptsQueued(j)') /\ Cardinality(AttemptsQueued(j)') \in Nat
      /\ Cardinality(AttemptsQueued(j)') <= Cardinality(AttemptsQueued(j))
  BY NoMore DEF AttemptsOf
<1>2. /\ IsFiniteSet(AttemptsHeld(j)') /\ Cardinality(AttemptsHeld(j)') \in Nat
      /\ Cardinality(AttemptsHeld(j)') <= Cardinality(AttemptsHeld(j))
  BY NoMore DEF AttemptsOf
<1>3. OneSeries * (1 + faults') >= OneSeries * (1 + faults)
  BY AttemptTypes, OneSeriesMore
<1>4. Counted(j)' \in Nat /\ Unspent(j)' \in Nat
  BY AttemptTypes DEF Counted, Committed, Unspent, TypeInv, TypeOK, JobTableTypeOK, Job
<1>5. OneSeries * (1 + faults) \in Nat /\ OneSeries * (1 + faults') \in Nat
  BY AttemptTypes, OneSeriesMore
<1>6. QED
  BY <1>1, <1>2, <1>3, <1>4, <1>5, AttemptTypes DEF AttemptsOf

\* An UPDATE counts n more attempts of the one job, if it is committed.
LEMMA UpdateJobCounts ==
  ASSUME TypeInv, NEW i \in Jobs, NEW s \in JobStatus, NEW n \in Nat, UpdateJob(i, s, n),
         NEW j \in Jobs
  PROVE  Counted(j)' = Counted(j) \/ (i = j /\ Counted(j)' = Counted(j) + n)
<1>1. Committed(j)' <=> Committed(j)
  BY UpdateJobKeeps DEF TypeInv, TypeOK
<1>2. CASE ~Committed(j)
  BY <1>1, <1>2 DEF Counted
<1>3. CASE Committed(j)
  BY <1>1, <1>3 DEF Counted, UpdateJob, Committed, TypeInv, TypeOK, JobTableTypeOK, Job
<1>4. QED
  BY <1>2, <1>3

LEMMA UpdateJobStatusCounts ==
  ASSUME TypeInv, NEW c \in Children, JobOf(c) \in Jobs, NEW s \in JobStatus, NEW n \in Nat,
         UpdateJobStatus(c, s, n), NEW j \in Jobs
  PROVE  Counted(j)' = Counted(j) \/ (JobOf(c) = j /\ Counted(j)' = Counted(j) + n)
<1>1. CASE UNCHANGED rows
  BY <1>1 DEF Counted, Committed
<1>2. QED
  BY <1>1, UpdateJobCounts DEF UpdateJobStatus

\* The hooks other than before_start and the retry count nothing and add no attempt.
LEMMA HookAttempts ==
  ASSUME TypeInv, TypeInv', NEW c \in Children, NEW j \in Jobs,
         \/ CheckIdempotency(c) \/ Execute(c) \/ OnSuccess(c) \/ StoreIdempotencyResult(c)
         \/ SendToDlq(c) \/ MarkFailed(c) \/ MarkDlq(c) \/ Ack(c) \/ RetryLost(c)
  PROVE  /\ AttemptsHeld(j)' \subseteq AttemptsHeld(j)
         /\ Counted(j)' = Counted(j)
         /\ UNCHANGED <<queue, kwargs>>
         /\ faults' \in {faults, faults + 1}
<1>1. run \in [Children -> Child] /\ run' \in [Children -> Child]
  BY DEF TypeInv, TypeOK, TaskTypeOK
<1>2. HookStep(c) \/ RetryLost(c)
  BY DEF HookStep
<1>3. /\ \A d \in Children \ {c} : run'[d] = run[d]
      /\ run'[c].pc # "idle" => run'[c].job = run[c].job
      /\ JobOf(c) \in Jobs
      /\ faults' \in {faults, faults + 1}
  BY <1>2, HookMoves
<1>4. run[c].retries \in Nat /\ run[c].retries + 1 <= OneSeries /\ OneSeries \in Nat
  BY <1>1, BrokerAssumption DEF Child, Attempts, OneSeries
<1>5. /\ NextAttempt(c)' >= NextAttempt(c)
      /\ run'[c].job = run[c].job \/ NextAttempt(c)' = OneSeries
  <2>1. ASSUME run'[c].pc \notin {"before_start", "check", "execute", "retry"}
        PROVE  NextAttempt(c)' = OneSeries
    BY <2>1 DEF NextAttempt, OneSeries
  <2>2. NextAttempt(c) <= OneSeries
    BY <1>4 DEF NextAttempt, OneSeries
  <2>3. CASE run'[c].pc \notin {"before_start", "check", "execute", "retry"}
    BY <1>4, <2>1, <2>2, <2>3
  <2>4. CASE run'[c].pc \in {"before_start", "check", "execute", "retry"}
    <3>1. CheckIdempotency(c) \/ Execute(c)
      BY <1>1, <2>4 DEF OnSuccess, StoreIdempotencyResult, SendToDlq, MarkFailed, MarkDlq, Ack,
         RetryLost, Goto, Release, IdleChild, Child
    <3>2. /\ run[c].pc \in {"check", "execute"}
          /\ run'[c].pc \in {"execute", "retry"}
          /\ run'[c].retries = run[c].retries
      BY <1>1, <2>4, <3>1 DEF CheckIdempotency, Execute, RetryOrFail, Goto, Child
    <3>3. NextAttempt(c)' = NextAttempt(c) /\ NextAttempt(c) \in Nat
      BY <1>4, <3>2 DEF NextAttempt
    <3>4. QED
      BY <1>3, <2>4, <3>3
  <2>5. QED
    BY <2>3, <2>4
<1>6. AttemptsHeld(j)' \subseteq AttemptsHeld(j)
  BY <1>3, <1>5, HeldShrinks
<1>7. Counted(j)' = Counted(j)
  <2>1. CASE UNCHANGED rows
    BY <2>1 DEF Counted, Committed
  <2>2. CASE OnSuccess(c) \/ MarkFailed(c) \/ MarkDlq(c)
    BY <1>3, <2>2, UpdateJobStatusCounts, AttemptTypes
       DEF OnSuccess, MarkFailed, MarkDlq, JobStatus
  <2>3. QED
    BY <2>1, <2>2
       DEF CheckIdempotency, Execute, StoreIdempotencyResult, SendToDlq, Ack, RetryLost
<1>8. UNCHANGED <<queue, kwargs>>
  BY DEF CheckIdempotency, Execute, StoreIdempotencyResult, SendToDlq, Ack, RetryLost, OnSuccess,
     MarkFailed, MarkDlq, brokerVars
<1>9. QED
  BY <1>3, <1>6, <1>7, <1>8

\* before_start: an attempt that was ahead is counted, if the row is committed.
LEMMA AttemptCounted ==
  ASSUME TypeInv, TypeInv', NEW j \in Jobs, AttemptsOf(j), NEW c \in Children, BeforeStart(c)
  PROVE  AttemptsOf(j)'
<1>1. /\ \A d \in Children \ {c} : run'[d] = run[d]
      /\ run'[c].job = run[c].job /\ JobOf(c) \in Jobs
      /\ faults' \in {faults, faults + 1}
  <2>1. /\ \A d \in Children \ {c} : run'[d] = run[d]
        /\ JobOf(c) \in Jobs /\ faults' \in {faults, faults + 1}
    BY HookMoves DEF HookStep
  <2>2. run'[c].job = run[c].job
    BY DEF BeforeStart, Goto, TypeInv, TypeOK, TaskTypeOK, Child
  <2>3. QED
    BY <2>1, <2>2
<1>2. /\ run[c].retries \in Attempts /\ run[c].retries \in Nat
      /\ NextAttempt(c) = run[c].retries /\ NextAttempt(c)' = run[c].retries + 1
  BY DEF BeforeStart, Goto, NextAttempt, TypeInv, TypeOK, TaskTypeOK, Child, Attempts
<1>3. AttemptsHeld(j)' \subseteq AttemptsHeld(j)
  BY <1>1, <1>2, HeldShrinks
<1>4. UNCHANGED <<queue, kwargs>>
  BY DEF BeforeStart, brokerVars
<1>5. AttemptsQueued(j)' = AttemptsQueued(j) /\ Unspent(j)' = Unspent(j)
  BY <1>4 DEF AttemptsQueued, Unspent, Published
<1>6. Counted(j)' = Counted(j) \/ (JobOf(c) = j /\ Counted(j)' = Counted(j) + 1)
  BY <1>1, UpdateJobStatusCounts DEF BeforeStart, JobStatus
<1>7. CASE Counted(j)' = Counted(j)
  BY <1>1, <1>3, <1>5, <1>7, NoMoreAttempts, AttemptTypes
<1>8. CASE JobOf(c) = j /\ Counted(j)' = Counted(j) + 1
  <2>1. <<c, run[c].retries>> \in AttemptsHeld(j)
    BY <1>2, <1>8, HeldPairs
  <2>2. <<c, run[c].retries>> \notin AttemptsHeld(j)'
    BY <1>1, <1>2, HeldAfter
  <2>3. AttemptsHeld(j)' \subseteq AttemptsHeld(j) \ {<<c, run[c].retries>>}
    BY <1>3, <2>2
  <2>4. /\ IsFiniteSet(AttemptsHeld(j)') /\ Cardinality(AttemptsHeld(j)') \in Nat
        /\ Cardinality(AttemptsHeld(j)') <= Cardinality(AttemptsHeld(j)) - 1
    BY <2>1, <2>3, OneLess DEF AttemptsOf
  <2>5. /\ OneSeries * (1 + faults) \in Nat /\ OneSeries * (1 + faults') \in Nat
        /\ OneSeries * (1 + faults') >= OneSeries * (1 + faults)
    BY <1>1, AttemptTypes, OneSeriesMore
  <2>6. QED
    BY <1>5, <1>8, <2>4, <2>5, AttemptTypes DEF AttemptsOf
<1>9. QED
  BY <1>6, <1>7, <1>8

\* A retry: the attempts that were ahead of the child are ahead of the new message.
LEMMA AttemptsRequeued ==
  ASSUME TypeInv, TypeInv', NEW j \in Jobs, AttemptsOf(j), NEW c \in Children, Retry(c)
  PROVE  AttemptsOf(j)'
<1>1. /\ \A d \in Children \ {c} : run'[d] = run[d]
      /\ run'[c].job = run[c].job /\ JobOf(c) \in Jobs
  <2>1. (\A d \in Children \ {c} : run'[d] = run[d]) /\ JobOf(c) \in Jobs
    BY HookMoves DEF HookStep
  <2>2. run'[c].job = run[c].job
    BY DEF Retry, Goto, TypeInv, TypeOK, TaskTypeOK, Child
  <2>3. QED
    BY <2>1, <2>2
<1>2. PICK n \in Attempts : n = run[c].retries + 1
  BY BrokerAssumption DEF Retry, TypeInv, TypeOK, ChildShape, TaskTypeOK, Child, Attempts
<1>3. /\ n \in 0..OneSeries /\ OneSeries \in Nat /\ n <= OneSeries
      /\ NextAttempt(c) = n /\ NextAttempt(c)' = OneSeries
  BY <1>2, BrokerAssumption
     DEF Retry, Goto, NextAttempt, TypeInv, TypeOK, TaskTypeOK, Child, Attempts, OneSeries
<1>4. AttemptsHeld(j)' \subseteq AttemptsHeld(j)
  BY <1>1, <1>3, HeldShrinks
<1>5. /\ Enqueue(JobOf(c), n) /\ UNCHANGED <<rows, kwargs, faults>>
  BY <1>2 DEF Retry
<1>6. Unspent(j)' = Unspent(j) /\ Counted(j)' = Counted(j)
  BY <1>5 DEF Unspent, Published, Counted, Committed
<1>7. CASE JobOf(c) # j
  <2>1. AttemptsQueued(j)' \subseteq AttemptsQueued(j)
    BY <1>1, <1>5, <1>7, QueuedMore
  <2>2. Counted(j)' <= Counted(j) /\ Unspent(j)' <= Unspent(j)
    BY <1>6, AttemptTypes
  <2>3. QED
    BY <1>4, <1>5, <2>1, <2>2, NoMoreAttempts
<1>8. CASE JobOf(c) = j
  <2>1. AttemptsQueued(j)' \subseteq AttemptsQueued(j) \cup Ahead(<<n, queue[j][n] + 1>>, n)
    BY <1>5, <1>8, QueuedMore
  <2>2. /\ IsFiniteSet(AttemptsQueued(j)') /\ Cardinality(AttemptsQueued(j)') \in Nat
        /\ Cardinality(AttemptsQueued(j)') <= Cardinality(AttemptsQueued(j)) + (OneSeries - n)
    BY <1>3, <2>1, AheadCount, SetMore DEF AttemptsOf
  <2>3. Ahead(c, n) \subseteq AttemptsHeld(j)
    <3>1. \A a \in n..MaxRetries : a \in Attempts /\ n <= a
      BY <1>3, BrokerAssumption DEF Attempts
    <3>2. QED
      BY <1>3, <1>8, <3>1, HeldPairs DEF Ahead
  <2>4. \A a \in Attempts : <<c, a>> \notin AttemptsHeld(j)'
    <3>1. \A a \in Attempts : ~(OneSeries <= a)
      BY BrokerAssumption DEF Attempts, OneSeries
    <3>2. QED
      BY <1>1, <1>3, <3>1, HeldAfter
  <2>5. AttemptsHeld(j)' \subseteq AttemptsHeld(j) \ Ahead(c, n)
    BY <1>4, <2>4, HeldPairs DEF Ahead
  <2>6. /\ IsFiniteSet(AttemptsHeld(j)') /\ Cardinality(AttemptsHeld(j)') \in Nat
        /\ Cardinality(AttemptsHeld(j)') <= Cardinality(AttemptsHeld(j)) - (OneSeries - n)
    BY <1>3, <2>3, <2>5, AheadCount, SetLess DEF AttemptsOf
  <2>7. OneSeries * (1 + faults) \in Nat
    BY AttemptTypes, OneSeriesMore
  <2>8. QED
    BY <1>3, <1>5, <1>6, <2>2, <2>6, <2>7, AttemptTypes DEF AttemptsOf
<1>9. QED
  BY <1>7, <1>8

\* A delivery: the attempts that were ahead of the message are ahead of the child.
LEMMA AttemptsDelivered ==
  ASSUME TypeInv, TypeInv', NEW j \in Jobs, AttemptsOf(j),
         NEW c \in Children, NEW i \in Jobs, NEW n \in Attempts, Deliver(c, i, n)
  PROVE  AttemptsOf(j)'
<1>1. /\ \A d \in Children \ {c} : run'[d] = run[d]
      /\ JobOf(c)' = i /\ NextAttempt(c)' = n
      /\ NextAttempt(c) = OneSeries
  BY DEF Deliver, TypeInv, TypeOK, TaskTypeOK, IdleChild, JobOf, NextAttempt, Busy, OneSeries
<1>2. /\ Dequeue(i, n) /\ UNCHANGED <<rows, kwargs, faults>>
  BY DEF Deliver
<1>3. Unspent(j)' = Unspent(j) /\ Counted(j)' = Counted(j)
  BY <1>2 DEF Unspent, Published, Counted, Committed
<1>4. n \in 0..OneSeries /\ n \in Nat /\ OneSeries \in Nat /\ n <= OneSeries
  BY BrokerAssumption DEF Attempts, OneSeries
<1>5. CASE i # j
  <2>1. AttemptsHeld(j)' \subseteq AttemptsHeld(j)
    BY <1>1, <1>5, HeldAfter, HeldPairs
  <2>2. AttemptsQueued(j)' \subseteq AttemptsQueued(j)
    BY <1>2, QueuedLess
  <2>3. Counted(j)' <= Counted(j) /\ Unspent(j)' <= Unspent(j)
    BY <1>3, AttemptTypes
  <2>4. QED
    BY <1>2, <2>1, <2>2, <2>3, NoMoreAttempts
<1>6. CASE i = j
  <2>1. /\ Ahead(<<n, queue[j][n]>>, n) \subseteq AttemptsQueued(j)
        /\ AttemptsQueued(j)' \subseteq AttemptsQueued(j) \ Ahead(<<n, queue[j][n]>>, n)
    BY <1>2, <1>6, QueuedLess
  <2>2. /\ IsFiniteSet(AttemptsQueued(j)') /\ Cardinality(AttemptsQueued(j)') \in Nat
        /\ Cardinality(AttemptsQueued(j)') <= Cardinality(AttemptsQueued(j)) - (OneSeries - n)
    BY <1>4, <2>1, AheadCount, SetLess DEF AttemptsOf
  <2>3. AttemptsHeld(j)' \subseteq AttemptsHeld(j) \cup Ahead(c, n)
    <3>1. ASSUME NEW d \in Children, NEW a \in Attempts, <<d, a>> \in AttemptsHeld(j)'
          PROVE  <<d, a>> \in AttemptsHeld(j) \cup Ahead(c, n)
      <4>1. CASE d # c
        BY <1>1, <3>1, <4>1, HeldAfter
      <4>2. CASE d = c
        <5>1. n <= a
          BY <1>1, <3>1, <4>2, HeldAfter
        <5>2. a \in n..MaxRetries
          BY <1>4, <5>1, BrokerAssumption DEF Attempts
        <5>3. QED
          BY <4>2, <5>2 DEF Ahead
      <4>3. QED
        BY <4>1, <4>2
    <3>2. QED
      BY <3>1, HeldPairs
  <2>4. /\ IsFiniteSet(AttemptsHeld(j)') /\ Cardinality(AttemptsHeld(j)') \in Nat
        /\ Cardinality(AttemptsHeld(j)') <= Cardinality(AttemptsHeld(j)) + (OneSeries - n)
    BY <1>4, <2>3, AheadCount, SetMore DEF AttemptsOf
  <2>5. OneSeries * (1 + faults) \in Nat
    BY AttemptTypes, OneSeriesMore
  <2>6. QED
    BY <1>2, <1>3, <1>4, <2>2, <2>4, <2>5, AttemptTypes DEF AttemptsOf
<1>7. QED
  BY <1>5, <1>6

\* A fault that repeats a message adds one series at most.
LEMMA AttemptsRepeated ==
  ASSUME TypeInv, TypeInv', NEW j \in Jobs, AttemptsOf(j), faults' = faults + 1,
         UNCHANGED queue \/ \E i \in Jobs, n \in Attempts : Enqueue(i, n),
         AttemptsHeld(j)' \subseteq AttemptsHeld(j), Counted(j)' = Counted(j),
         Unspent(j)' = Unspent(j)
  PROVE  AttemptsOf(j)'
<1>1. CASE AttemptsQueued(j)' \subseteq AttemptsQueued(j)
  BY <1>1, NoMoreAttempts, AttemptTypes
<1>2. ASSUME NEW n \in Attempts, NEW x,
             AttemptsQueued(j)' \subseteq AttemptsQueued(j) \cup Ahead(x, n)
      PROVE  AttemptsOf(j)'
  <2>1. n \in 0..OneSeries /\ n \in Nat
    BY BrokerAssumption DEF Attempts, OneSeries
  <2>2. /\ IsFiniteSet(AttemptsQueued(j)') /\ Cardinality(AttemptsQueued(j)') \in Nat
        /\ Cardinality(AttemptsQueued(j)') <= Cardinality(AttemptsQueued(j)) + (OneSeries - n)
    BY <1>2, <2>1, AheadCount, SetMore DEF AttemptsOf
  <2>3. /\ IsFiniteSet(AttemptsHeld(j)') /\ Cardinality(AttemptsHeld(j)') \in Nat
        /\ Cardinality(AttemptsHeld(j)') <= Cardinality(AttemptsHeld(j))
    BY NoMore DEF AttemptsOf
  <2>4. /\ OneSeries * (1 + faults) \in Nat
        /\ OneSeries * (1 + faults') = OneSeries * (1 + faults) + OneSeries
    BY AttemptTypes, OneSeriesMore
  <2>5. QED
    BY <2>1, <2>2, <2>3, <2>4, AttemptTypes DEF AttemptsOf
<1>3. CASE UNCHANGED queue
  BY <1>1, <1>3 DEF AttemptsQueued
<1>4. ASSUME NEW i \in Jobs, NEW n \in Attempts, Enqueue(i, n)
      PROVE  AttemptsOf(j)'
  <2>1. CASE i = j
    BY <1>2, <1>4, <2>1, QueuedMore
  <2>2. CASE i # j
    BY <1>1, <1>4, <2>2, QueuedMore
  <2>3. QED
    BY <2>1, <2>2
<1>5. QED
  BY <1>3, <1>4

LEMMA AttemptsInvWorker ==
  ASSUME RestartRepeatsOne, TypeInv, TypeInv', AttemptsInv, Worker
  PROVE  AttemptsInv'
<1>1. UNCHANGED <<kwargs, req>>
  BY WorkerKeepsRows
<1>2. StartsAtZero'
  BY <1>1 DEF AttemptsInv, StartsAtZero, Building
<1> SUFFICES ASSUME NEW j \in Jobs PROVE AttemptsOf(j)'
  BY <1>2 DEF AttemptsInv
<1>3. AttemptsOf(j) /\ Unspent(j)' = Unspent(j)
  BY <1>1 DEF AttemptsInv, Unspent, Published
<1>4. faults \in Nat /\ Counted(j) \in Nat /\ Unspent(j) \in Nat
  BY AttemptTypes
<1>5. UNCHANGED rows => Counted(j)' = Counted(j)
  BY DEF Counted, Committed
<1>6. UNCHANGED run => AttemptsHeld(j)' = AttemptsHeld(j)
  BY DEF AttemptsHeld, JobOf, NextAttempt
<1>7. ASSUME AttemptsQueued(j)' \subseteq AttemptsQueued(j),
             AttemptsHeld(j)' \subseteq AttemptsHeld(j),
             Counted(j)' = Counted(j), faults' \in {faults, faults + 1}
      PROVE  AttemptsOf(j)'
  BY <1>3, <1>4, <1>7, NoMoreAttempts
<1>8. CASE UNCHANGED <<queue, run, rows>> /\ faults' \in {faults, faults + 1}
  BY <1>5, <1>6, <1>7, <1>8 DEF AttemptsQueued
<1>9. ASSUME NEW i \in Jobs, NEW n \in Attempts, DiscardRevoked(i, n)
      PROVE  AttemptsOf(j)'
  BY <1>4, <1>5, <1>6, <1>7, <1>9, QueuedLess DEF DiscardRevoked
<1>10. CASE QueueEvict
  <2>1. AttemptsQueued(j)' \subseteq AttemptsQueued(j)
    BY <1>10 DEF QueueEvict, AttemptsQueued
  <2>2. QED
    BY <1>5, <1>6, <1>7, <1>10, <2>1 DEF QueueEvict, Fault
<1>11. ASSUME NEW c \in Children, Redeliver(c)
       PROVE  AttemptsOf(j)'
  <2>1. JobOf(c) \in Jobs /\ run[c].retries \in Attempts
    BY <1>11 DEF Redeliver, TypeInv, TypeOK, ChildShape, TaskTypeOK, Child
  <2>2. \A d \in Children : JobOf(d)' = JobOf(d) /\ NextAttempt(d)' = NextAttempt(d)
    BY <1>11 DEF Redeliver, JobOf, NextAttempt, TypeInv, TypeOK, TaskTypeOK, Child
  <2>3. AttemptsHeld(j)' \subseteq AttemptsHeld(j)
    BY <2>2, HeldPairs DEF AttemptsHeld
  <2>4. QED
    BY <1>3, <1>5, <1>11, <2>1, <2>3, AttemptsRepeated DEF Redeliver, Fault
<1>12. ASSUME NEW c \in Children, ChildLost(c)
       PROVE  AttemptsOf(j)'
  <2>1. JobOf(c) \in Jobs /\ run[c].retries \in Attempts
    BY <1>12 DEF ChildLost, TypeInv, TypeOK, ChildShape, TaskTypeOK, Child
  <2>2. /\ \A d \in Children \ {c} : run'[d] = run[d]
        /\ run'[c].pc = "idle"
    BY <1>12 DEF ChildLost, Release, IdleChild, TypeInv, TypeOK, TaskTypeOK
  <2>3. NextAttempt(c)' = OneSeries
    BY <2>2 DEF NextAttempt, OneSeries
  <2>4. NextAttempt(c)' >= NextAttempt(c)
    BY <2>3, BrokerAssumption
       DEF NextAttempt, OneSeries, TypeInv, TypeOK, TaskTypeOK, Child, Attempts
  <2>5. AttemptsHeld(j)' \subseteq AttemptsHeld(j)
    BY <2>2, <2>3, <2>4, HeldShrinks
  <2>6. QED
    BY <1>3, <1>5, <1>12, <2>1, <2>5, AttemptsRepeated DEF ChildLost, Fault
<1>13. CASE WorkerRestart
  <2>1. \A c \in Children : NextAttempt(c)' = OneSeries
    BY <1>13 DEF WorkerRestart, IdleChild, NextAttempt, OneSeries
  <2>2. \A a \in Attempts : ~(OneSeries <= a)
    BY BrokerAssumption DEF Attempts, OneSeries
  <2>3. AttemptsHeld(j)' = {}
    BY <2>1, <2>2 DEF AttemptsHeld
  <2>4. QED
    BY <1>3, <1>5, <1>13, <2>3, RestartQueuesOne, AttemptsRepeated DEF WorkerRestart, Fault
<1>14. ASSUME NEW c \in Children, HookStep(c) \/ RetryLost(c)
       PROVE  AttemptsOf(j)'
  <2>1. CASE BeforeStart(c)
    BY <1>3, <2>1, AttemptCounted
  <2>2. CASE Retry(c)
    BY <1>3, <2>2, AttemptsRequeued
  <2>3. CASE ~BeforeStart(c) /\ ~Retry(c)
    <3>1. /\ AttemptsHeld(j)' \subseteq AttemptsHeld(j)
          /\ Counted(j)' = Counted(j)
          /\ UNCHANGED queue
          /\ faults' \in {faults, faults + 1}
      BY <1>14, <2>3, HookAttempts DEF HookStep
    <3>2. QED
      BY <1>7, <3>1 DEF AttemptsQueued
  <2>4. QED
    BY <2>1, <2>2, <2>3
<1>15. ASSUME NEW c \in Children, WorkerStep(c) \/ WorkerFault(c)
       PROVE  AttemptsOf(j)'
  <2>1. CASE \E i \in Jobs : DlqReceive(c, i)
    BY <1>8, <2>1 DEF DlqReceive
  <2>2. CASE \E i \in Jobs, n \in Attempts : Deliver(c, i, n)
    BY <1>3, <2>2, AttemptsDelivered
  <2>3. QED
    BY <1>11, <1>12, <1>14, <1>15, <2>1, <2>2 DEF WorkerStep, WorkerFault
<1>16. ASSUME NEW i \in Jobs, ProcessStep(i)
       PROVE  AttemptsOf(j)'
  BY <1>8, <1>9, <1>16 DEF ProcessStep, RevokeArrives
<1>17. CASE PlatformFault
  BY <1>8, <1>10, <1>13, <1>17 DEF PlatformFault, CacheEvict, Fault
<1>18. QED
  BY <1>15, <1>16, <1>17 DEF Worker, WorkerNext

\* The first message of a job: its series of attempts is ahead of it.
LEMMA FirstSeries ==
  ASSUME TypeInv, TypeInv', SendInv, NEW r \in Requests, req[r].pc = "send",
         SendTask(req[r].job, req[r].row.key), NEW j \in Jobs, AttemptsOf(j),
         AttemptsHeld(j)' = AttemptsHeld(j), Counted(j)' = Counted(j),
         faults' \in {faults, faults + 1}
  PROVE  AttemptsOf(j)'
<1>1. req[r].job \in Jobs /\ req[r].row.key \in AllKeys
  BY DEF TypeInv, RequestShape, Job
<1>2. 0 \in Attempts /\ 0 \in 0..OneSeries
  BY BrokerAssumption DEF Attempts, OneSeries
<1>3. Enqueue(req[r].job, 0) /\ kwargs' = [kwargs EXCEPT ![req[r].job] = req[r].row.key]
  BY DEF SendTask
<1>4. CASE req[r].job # j
  <2>1. AttemptsQueued(j)' \subseteq AttemptsQueued(j)
    BY <1>1, <1>2, <1>3, <1>4, QueuedMore
  <2>2. Unspent(j)' = Unspent(j)
    BY <1>1, <1>3, <1>4 DEF Unspent, Published, TypeInv, TypeOK, BrokerTypeOK
  <2>3. Counted(j)' <= Counted(j) /\ Unspent(j)' <= Unspent(j)
    BY <2>2, AttemptTypes
  <2>4. QED
    BY <2>1, <2>3, NoMoreAttempts
<1>5. CASE req[r].job = j
  <2>1. Unspent(j) = OneSeries
    BY <1>5 DEF Unspent, SendInv, Unsent
  <2>2. Unspent(j)' = 0
    <3>1. kwargs'[j] = req[r].row.key
      BY <1>1, <1>3, <1>5 DEF TypeInv, TypeOK, BrokerTypeOK
    <3>2. kwargs'[j] # None
      BY <1>1, <3>1, JobTableAssumption DEF AllKeys
    <3>3. QED
      BY <3>2 DEF Unspent, Published
  <2>3. AttemptsQueued(j)' \subseteq AttemptsQueued(j) \cup Ahead(<<0, queue[j][0] + 1>>, 0)
    BY <1>2, <1>3, <1>5, QueuedMore
  <2>4. /\ IsFiniteSet(AttemptsQueued(j)') /\ Cardinality(AttemptsQueued(j)') \in Nat
        /\ Cardinality(AttemptsQueued(j)') <= Cardinality(AttemptsQueued(j)) + (OneSeries - 0)
    BY <1>2, <2>3, AheadCount, SetMore DEF AttemptsOf
  <2>5. /\ OneSeries * (1 + faults) \in Nat /\ OneSeries * (1 + faults') \in Nat
        /\ OneSeries * (1 + faults') >= OneSeries * (1 + faults)
    BY AttemptTypes, OneSeriesMore
  <2>6. QED
    BY <2>1, <2>2, <2>4, <2>5, AttemptTypes DEF AttemptsOf
<1>6. QED
  BY <1>4, <1>5

\* Every new row counts no attempt, and every request keeps its own.
LEMMA StartsAtZeroApi ==
  ASSUME TypeInv, StartsAtZero, NEW r \in Requests, Api(r)
  PROVE  StartsAtZero'
<1>1. \A q \in Requests \ {r} : req'[q] = req[q]
  BY OthersWait
<1>2. req \in [Requests -> Request]
  BY DEF TypeInv, TypeOK, ServiceTypeOK
<1>3. ASSUME NEW code, NEW job, Respond(r, code, job)
      PROVE  ~Building(r)'
  BY <1>3, RespondEffect DEF Building, TypeInv, TypeOK
<1>4. ASSUME NEW pc, Step(r, pc), pc \in {"send", "commit"} => Building(r), pc # "flush"
      PROVE  Building(r)' => req'[r].row.execution_count = 0
  BY <1>4, StepEffect DEF Building, StartsAtZero, TypeInv, TypeOK
<1>5. ASSUME NEW op, NEW pc \in {"flush", "revoke", "done"}, NEW key, NEW job, NEW row, NEW code,
             Start(r, op, pc, key, job, row, code), pc = "flush" => row.execution_count = 0
      PROVE  Building(r)' => req'[r].row.execution_count = 0
  <2>1. req'[r] = [pc |-> pc, op |-> op, key |-> key, job |-> job, row |-> row, code |-> code]
    BY <1>2, <1>5 DEF Start
  <2>2. QED
    BY <1>5, <2>1 DEF Building
<1>6. \A key, parent, n : NewJob(key, parent, n).execution_count = 0
  BY DEF NewJob
<1>7. Building(r)' => req'[r].row.execution_count = 0
  <2>1. CASE TaskNotAllowed(r) \/ ServiceFault(r)
    BY <1>3, <2>1 DEF TaskNotAllowed, ServiceFault, SendError, CommitError, RevokeError,
       CancelUpdateError, ApiCrash
  <2>2. CASE ServiceStep(r)
    BY <1>3, <1>4, <2>2 DEF ServiceStep, Flush, Send, Commit, Revoke, CancelUpdate, Building
  <2>3. CASE \E key \in Keys : CreateJob(r, key)
    BY <1>5, <1>6, <2>3 DEF CreateJob
  <2>4. CASE \E j \in Jobs : CancelJob(r, j)
    BY <1>5, <2>4 DEF CancelJob
  <2>5. CASE \E j \in Jobs : RetryDlqJob(r, j)
    BY <1>5, <1>6, <2>5 DEF RetryDlqJob
  <2>6. QED
    BY <2>1, <2>2, <2>3, <2>4, <2>5 DEF Api, ServiceNext, ServiceCall
<1>8. QED
  BY <1>1, <1>7 DEF StartsAtZero, Building

LEMMA AttemptsInvApi ==
  ASSUME TypeInv, TypeInv', SendInv, SubmitInv, AttemptsInv, NEW r \in Requests, Api(r)
  PROVE  AttemptsInv'
<1>1. StartsAtZero'
  BY StartsAtZeroApi DEF AttemptsInv
<1> SUFFICES ASSUME NEW j \in Jobs PROVE AttemptsOf(j)'
  BY <1>1 DEF AttemptsInv
<1>2. AttemptsOf(j) /\ UNCHANGED run
  BY DEF AttemptsInv, Api
<1>3. AttemptsHeld(j)' = AttemptsHeld(j)
  BY <1>2 DEF AttemptsHeld, JobOf, NextAttempt
<1>4. /\ faults \in Nat /\ Counted(j) \in Nat /\ Unspent(j) \in Nat
  BY AttemptTypes
<1>5. faults' \in {faults, faults + 1}
  BY DEF Api, ServiceNext, ServiceCall, ServiceStep, ServiceFault, TaskNotAllowed, CreateJob,
     CancelJob, RetryDlqJob, Flush, Send, SendError, Commit, CommitError, Revoke, RevokeError,
     CancelUpdate, CancelUpdateError, ApiCrash, Fault
<1>6. Counted(j)' = Counted(j)
  <2>1. CASE UNCHANGED rows
    BY <2>1 DEF Counted, Committed
  <2>2. CASE Insert(r) /\ req[r].pc = "commit"
    <3>1. req[r].job \in Jobs /\ req[r].row \in Job /\ ~Committed(req[r].job)
      BY <2>2, CommitIsNew
    <3>2. req[r].row.execution_count = 0
      BY <2>2 DEF AttemptsInv, StartsAtZero, Building
    <3>3. rows' = [rows EXCEPT ![req[r].job] = req[r].row] /\ rows \in [Jobs -> Job \cup {None}]
      BY <2>2 DEF Insert, TypeInv, TypeOK, JobTableTypeOK
    <3>4. req[r].row # None
      BY <3>1, JobTableAssumption
    <3>5. QED
      BY <3>1, <3>2, <3>3, <3>4 DEF Counted, Committed
  <2>3. CASE UpdateJob(req[r].job, "CANCELLED", 0) /\ req[r].job \in Jobs
    BY <1>4, <2>3, UpdateJobCounts DEF JobStatus
  <2>4. req[r].pc = "update" => req[r].job \in Jobs
    BY DEF TypeInv, RequestShape
  <2>5. QED
    BY <2>1, <2>2, <2>3, <2>4
       DEF Api, ServiceNext, ServiceCall, ServiceStep, ServiceFault, TaskNotAllowed, CreateJob,
           CancelJob, RetryDlqJob, Flush, Send, SendError, Commit, CommitError, Revoke, RevokeError,
           CancelUpdate, CancelUpdateError, ApiCrash
<1>7. CASE UNCHANGED <<queue, kwargs>>
  <2>1. AttemptsQueued(j)' = AttemptsQueued(j) /\ Unspent(j)' = Unspent(j)
    BY <1>7 DEF AttemptsQueued, Unspent, Published
  <2>2. QED
    BY <1>2, <1>3, <1>4, <1>5, <1>6, <2>1, NoMoreAttempts
<1>8. CASE req[r].pc = "send" /\ SendTask(req[r].job, req[r].row.key)
  BY <1>2, <1>3, <1>5, <1>6, <1>8, FirstSeries
<1>9. QED
  BY <1>7, <1>8
     DEF Api, ServiceNext, ServiceCall, ServiceStep, ServiceFault, TaskNotAllowed, CreateJob,
         CancelJob, RetryDlqJob, Flush, Send, SendError, Commit, CommitError, Revoke, RevokeError,
         CancelUpdate, CancelUpdateError, ApiCrash

LEMMA AttemptsInvStep ==
  ASSUME RestartRepeatsOne
  PROVE  AttemptsInv /\ TypeInv /\ TypeInv' /\ SendInv /\ SubmitInv /\ [Next]_vars => AttemptsInv'
<1> SUFFICES ASSUME AttemptsInv, TypeInv, TypeInv', SendInv, SubmitInv, [Next]_vars
             PROVE  AttemptsInv'
  OBVIOUS
<1>1. CASE UNCHANGED vars
  BY <1>1 DEF vars, AttemptsInv, AttemptsOf, StartsAtZero, Building, AttemptsQueued, AttemptsHeld,
     JobOf, NextAttempt, Counted, Committed, Unspent, Published
<1>2. QED
  BY <1>1, AttemptsInvApi, AttemptsInvWorker DEF Next

\* Retries are bounded: a job is attempted max_retries + 1 times, and as many times
\* again at most for each fault; no order of retries, redelivered messages, lost
\* children and early commits makes execution_count exceed that.
THEOREM AttemptsAreBounded ==
  ASSUME RestartRepeatsOne
  PROVE  Spec => []RetriesAreBounded
<1>1. AttemptsInv /\ TypeInv /\ TypeInv' /\ SendInv /\ SubmitInv /\ [Next]_vars => AttemptsInv'
  BY AttemptsInvStep
<1>2. AttemptsInv /\ TypeInv => RetriesAreBounded
  <2> SUFFICES ASSUME AttemptsInv, TypeInv, NEW j \in Jobs, Committed(j)
               PROVE  rows[j].execution_count <= (MaxRetries + 1) * (1 + faults)
    BY DEF RetriesAreBounded
  <2>1. AttemptsOf(j) /\ Counted(j) = rows[j].execution_count
    BY DEF AttemptsInv, Counted
  <2>2. Counted(j) <= OneSeries * (1 + faults)
    BY <2>1, AttemptTypes, OneSeriesMore DEF AttemptsOf
  <2>3. QED
    BY <2>1, <2>2 DEF OneSeries
<1>3. QED
  BY AttemptsInvInit, SuccessInvAlways, SubmitInvAlways, <1>1, <1>2, PTL DEF Spec
=============================================================================
