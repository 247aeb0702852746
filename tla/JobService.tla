----------------------------- MODULE JobService -----------------------------
(***************************************************************************)
(* The API: one transaction of JobService per request.  A request is a     *)
(* process that stops at every await and at every call to Redis, where the *)
(* other requests and the workers go on.                                   *)
(***************************************************************************)
EXTENDS Broker, Faults

CONSTANTS Requests,    \* BOUND: the requests that clients make, at most one each
          Operations   \* the endpoints that clients use

VARIABLE req

serviceVars == <<rows, queue, kwargs, revoking, faults, req>>

NoRequest == [ pc |-> "idle", op |-> None, key |-> None, job |-> None,
               row |-> None, code |-> None ]

Codes == {200, 201, 400, 404, 409, 500}

ASSUME ServiceAssumption == /\ Operations \subseteq {"create", "cancel", "retry"}
                            /\ None \notin Codes
                            /\ None \notin {"create", "cancel", "retry"}

Request == [ pc : {"idle", "flush", "send", "commit", "revoke", "update", "done"},
             op : Operations \cup {None},
             key : Keys \cup {None},       \* the key of a create request
             job : Jobs \cup {None},       \* the job it inserts, cancels or returns
             row : Job \cup {None},        \* the row of its transaction
             code : Codes \cup {None} ]    \* the status of the response, if any

ServiceTypeOK == req \in [Requests -> Request]

ServiceInit == req = [r \in Requests |-> NoRequest]

\* The transactions whose INSERT is done and not committed: the unique index
\* makes any other INSERT with the same key wait for them.
Inserting(key) == {q \in Requests : /\ req[q].pc \in {"send", "commit"}
                                    /\ req[q].row.key = key}

Fresh(j) == /\ ~Committed(j)
            /\ ~Published(j)
            /\ \A q \in Requests : req[q].job # j

Start(r, op, pc, key, job, row, code) ==
  req' = [req EXCEPT ![r] = [pc |-> pc, op |-> op, key |-> key, job |-> job,
                             row |-> row, code |-> code]]

Step(r, pc) == req' = [req EXCEPT ![r].pc = pc]

\* The response; the transaction ends, its INSERT is lost unless it was committed.
Respond(r, code, job) ==
  req' = [req EXCEPT ![r] = [@ EXCEPT !.pc = "done", !.code = code,
                                      !.job = job, !.row = None]]

-----------------------------------------------------------------------------
\* POST /jobs

TaskNotAllowed(r) ==
  /\ "create" \in Operations
  /\ req[r].pc = "idle"
  /\ Respond(r, 400, None)
  /\ UNCHANGED <<rows, queue, kwargs, revoking, faults>>

\* The first SELECT finds a row with the key, or the new Job is built.
CreateJob(r, key) ==
  /\ "create" \in Operations
  /\ req[r].pc = "idle"
  /\ \/ \E j \in WithKey(key) : Start(r, "create", "done", key, j, None, 200)
     \/ /\ WithKey(key) = {}
        /\ \E j \in Jobs :
             /\ Fresh(j)
             /\ Start(r, "create", "flush", key, j, NewJob(key, None, 0), None)
  /\ UNCHANGED <<rows, queue, kwargs, revoking, faults>>

-----------------------------------------------------------------------------
\* POST /jobs/{id}/retry

\* VARIANT, for the mutation runs: a job that is FAILED, and not yet DLQ, is retried too.
RetryFailedJob(r, original) ==
  /\ "retry" \in Operations
  /\ req[r].pc = "idle"
  /\ Committed(original)
  /\ rows[original].status \in {"FAILED", "DLQ"}
  /\ \E j \in Jobs \ {original} :
       /\ Fresh(j)
       /\ Start(r, "retry", "flush", None, j,
                NewJob(j, original, rows[original].retry_count + 1), None)
  /\ UNCHANGED <<rows, queue, kwargs, revoking, faults>>

RetryDlqJob(r, original) ==
  /\ "retry" \in Operations
  /\ req[r].pc = "idle"
  /\ \/ ~Committed(original) /\ Start(r, "retry", "done", None, None, None, 404)
     \/ /\ Committed(original)
        /\ rows[original].status # "DLQ"
        /\ Start(r, "retry", "done", None, None, None, 409)
     \/ /\ Committed(original)
        /\ rows[original].status = "DLQ"
        /\ \E j \in Jobs \ {original} :
             /\ Fresh(j)
             /\ Start(r, "retry", "flush", None, j,
                      NewJob(j, original, rows[original].retry_count + 1), None)
  /\ UNCHANGED <<rows, queue, kwargs, revoking, faults>>

-----------------------------------------------------------------------------
\* The rest of both: flush, send_task, commit.

\* VARIANT, for the mutation runs: no unique index on idempotency_key.
FlushUnchecked(r) ==
  /\ req[r].pc = "flush"
  /\ Step(r, "send")
  /\ UNCHANGED <<rows, queue, kwargs, revoking, faults>>

\* VARIANT, for the mutation runs: the commit comes before send_task, which is forgotten.
FlushThenCommit(r) ==
  /\ req[r].pc = "flush"
  /\ Inserting(req[r].row.key) = {}
  /\ IF WithKey(req[r].row.key) = {} THEN Step(r, "commit") ELSE Respond(r, 500, None)
  /\ UNCHANGED <<rows, queue, kwargs, revoking, faults>>

\* VARIANT, for the mutation runs: the wait for the other INSERT does not end with its commit.
FlushWaitsForEver(r) ==
  /\ req[r].pc = "flush"
  /\ Inserting(req[r].row.key) = {}
  /\ WithKey(req[r].row.key) = {}
  /\ Step(r, "send")
  /\ UNCHANGED <<rows, queue, kwargs, revoking, faults>>

\* INSERT: waits for another open INSERT of the key, and fails when it is committed.
Flush(r) ==
  /\ req[r].pc = "flush"
  /\ Inserting(req[r].row.key) = {}
  /\ IF WithKey(req[r].row.key) = {} THEN Step(r, "send") ELSE Respond(r, 500, None)
  /\ UNCHANGED <<rows, queue, kwargs, revoking, faults>>

Send(r) ==
  /\ req[r].pc = "send"
  /\ SendTask(req[r].job, req[r].row.key)
  /\ Step(r, "commit")
  /\ UNCHANGED <<rows, revoking, faults>>

\* send_task raises, whether Redis took the message or not; the session rolls back.
SendError(r) ==
  /\ req[r].pc = "send"
  /\ Fault("send_error")
  /\ \/ SendTask(req[r].job, req[r].row.key)
     \/ UNCHANGED <<queue, kwargs>>
  /\ Respond(r, 500, None)
  /\ UNCHANGED <<rows, revoking>>

Insert(r) == rows' = [rows EXCEPT ![req[r].job] = req[r].row]

Commit(r) ==
  /\ req[r].pc = "commit"
  /\ Insert(r)
  /\ Respond(r, 201, req[r].job)
  /\ UNCHANGED <<queue, kwargs, revoking, faults>>

\* commit raises and the session rolls back; or it was done, and its reply lost,
\* or the refresh after it raises.
CommitError(r) ==
  /\ req[r].pc = "commit"
  /\ Fault("commit_error")
  /\ (Insert(r) \/ UNCHANGED rows)
  /\ Respond(r, 500, None)
  /\ UNCHANGED <<queue, kwargs, revoking>>

-----------------------------------------------------------------------------
\* POST /jobs/{id}/cancel

\* Only a PENDING job goes on.  Its celery_task_id is set: it was before the commit.
CancelJob(r, j) ==
  /\ "cancel" \in Operations
  /\ req[r].pc = "idle"
  /\ \/ ~Committed(j) /\ Start(r, "cancel", "done", None, None, None, 404)
     \/ /\ Committed(j)
        /\ rows[j].status # "PENDING"
        /\ Start(r, "cancel", "done", None, j, None, 409)
     \/ /\ Committed(j)
        /\ rows[j].status = "PENDING"
        /\ Start(r, "cancel", "revoke", None, j, None, None)
  /\ UNCHANGED <<rows, queue, kwargs, revoking, faults>>

\* control.revoke is a broadcast: it returns before any worker has received it.
Revoke(r) ==
  /\ req[r].pc = "revoke"
  /\ revoking' = revoking \cup {req[r].job}
  /\ Step(r, "update")
  /\ UNCHANGED <<rows, queue, kwargs, faults>>

\* The broadcast raises, whether Redis took it or not; the row stays PENDING.
RevokeError(r) ==
  /\ req[r].pc = "revoke"
  /\ Fault("revoke_error")
  /\ (revoking' = revoking \cup {req[r].job} \/ UNCHANGED revoking)
  /\ Respond(r, 500, req[r].job)
  /\ UNCHANGED <<rows, queue, kwargs>>

\* The UPDATE looks at the id only, not at the status that was read before.
CancelUpdate(r) ==
  /\ req[r].pc = "update"
  /\ UpdateJob(req[r].job, "CANCELLED", 0)
  /\ Respond(r, 200, req[r].job)
  /\ UNCHANGED <<queue, kwargs, revoking, faults>>

CancelUpdateError(r) ==
  /\ req[r].pc = "update"
  /\ Fault("commit_error")
  /\ (UpdateJob(req[r].job, "CANCELLED", 0) \/ UNCHANGED rows)
  /\ Respond(r, 500, req[r].job)
  /\ UNCHANGED <<queue, kwargs, revoking>>

-----------------------------------------------------------------------------
\* The process, or the client, goes away: Postgres rolls the transaction back and
\* nobody gets a response.
ApiCrash(r) ==
  /\ req[r].pc \notin {"idle", "done"}
  /\ Fault("api_crash")
  /\ Respond(r, None, None)
  /\ UNCHANGED <<rows, queue, kwargs, revoking>>

ServiceStep(r) == \/ Flush(r) \/ Send(r) \/ Commit(r)
                  \/ Revoke(r) \/ CancelUpdate(r)

ServiceFault(r) == \/ SendError(r) \/ CommitError(r) \/ RevokeError(r)
                   \/ CancelUpdateError(r) \/ ApiCrash(r)

ServiceCall(r) == \/ TaskNotAllowed(r)
                  \/ \E key \in Keys : CreateJob(r, key)
                  \/ \E j \in Jobs : CancelJob(r, j) \/ RetryDlqJob(r, j)

ServiceNext(r) == ServiceCall(r) \/ ServiceStep(r) \/ ServiceFault(r)
=============================================================================
