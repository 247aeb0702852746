# Verification of aegis-workers

The repository holds two programs.  **aegis-workers** takes jobs over HTTP, keeps them
in Postgres, hands them to Celery workers through Redis, retries them, and sets aside
the ones that keep failing (the DLQ).  **get-shit-done** (`.github/get-shit-done`) is
the set of command line tools with which agents plan and track the work on it: several
of them run at once and share text files, a lock file and directories.  These TLA+
modules model both: the path of a job from the request to the acknowledgement of its
message, and what the planning tools do to the files under `.planning/`, with the
crashes, redeliveries, failed renames and interleavings that the code meets.  Paths
below are relative to the root of the repository; `lib/` is
`.github/get-shit-done/bin/lib/`.

## The system

### aegis-workers

| Component | Where | State | Operations |
|---|---|---|---|
| Job service | `app/services/job_service.py`, behind `app/routes/jobs.py` | one database session per request | create, cancel, retry from the DLQ, get |
| Job table | `app/models/job.py`, `alembic/versions/001_initial.py` | the rows of `jobs` | SELECT, INSERT, UPDATE; a unique index on `idempotency_key` |
| Broker and cache | Redis, as `workers/celery_app.py` and `docker-compose.yml` set it up | queues `default` and `dlq`, unacknowledged messages, revocations, `idempotency:<key>` | publish, deliver, acknowledge, requeue, revoke, expire, evict |
| Base task | `workers/base_task.py` | what each child of the worker is doing | `before_start`, `run`, `on_retry`, `on_success`, `on_failure` |
| Tasks | `workers/tasks/email_task.py` | – | `send_email`, `send_bulk_email`, `dlq.receive`, `update_dlq_metrics` |
| Session | `app/db/session.py` | engine and session factory, one each per process | `get_db_session`, `dispose_engine` |
| Health, metrics, rate limit | `app/routes/jobs.py`, `app/metrics.py`, `app/main.py` | gauges and counters; counts per address | probe, scrape, count |
| Start-up, settings, schemas, logging | `app/main.py`, `app/config.py`, `app/schemas/`, `app/logging_config.py` | – | sequential |

Two uvicorn processes (`docker-compose.yml:61`) and four children of one Celery worker
(`:85`) run at once.  They never call each other.  The API publishes a message; the
worker executes it and writes the row, with an UPDATE of its own for every status.
What makes this hard:

* **send, then commit.**  `create_job` flushes the INSERT, publishes the message and
  commits last.  A child may see the message before the row, and a rollback leaves the
  message without a row.
* **check, then act.**  The SELECT before the INSERT, the status before the
  cancellation, the cache before `execute`, the DLQ status before a retry: other
  processes act between the check and the act.
* **late acknowledgement.**  Anything a child did may be done again after a crash, a
  restart or the visibility timeout, also while the first child still works.
* **errors on the way.**  Failed UPDATEs and failed dlq messages are logged and
  forgotten; a failed `setex` turns a success into a failure; a retry that cannot be
  published drops the message.
* **bounds.**  Attempts are counted in the message, and duplicates count on their own.

What should hold of each part: submission is idempotent and no committed job lacks its
message (service); no published job is lost, success is never made up, retries are
bounded, effects are repeated only because of a fault (task and broker); rows at rest
say what happened and final statuses stay (table); everything comes to an end.

### The planning tools

Every command is a process of its own: it reads files, computes, writes files, prints
and ends.  There is no server and no database, so that what one command read is what
another may just be writing.

| Component | Where | State | Operations |
|---|---|---|---|
| STATE.md | `lib/state.cjs`, and the writes of `phase.cjs`, `milestone.cjs` | `STATE.md`, `STATE.md.lock` | fourteen commands that edit, two readers |
| Phases, roadmap, milestones | `lib/phase.cjs`, `lib/roadmap.cjs`, `lib/milestone.cjs`, `lib/core.cjs`, `lib/commands.cjs` (scaffold) | `ROADMAP.md`, `phases/`, `milestones/` | add, insert, remove, complete a phase; update progress; archive a milestone; look up |
| Reports | `lib/roadmap.cjs`, `lib/commands.cjs`, `lib/init.cjs`, `lib/phase.cjs`, `lib/verify.cjs` | none; they read both of the above | analyze, progress, stats, the dashboard of `init manager`, `validate consistency`, questions about one phase |
| Workstreams | `lib/workstream.cjs`, `lib/core.cjs` | `workstreams/`, `active-workstream`, archives | create with migration, complete, set; list, status, get |
| Settings, health, todos | `lib/config.cjs`, `lib/core.cjs`, `lib/verify.cjs`, `lib/commands.cjs` | `config.json`, backups of `STATE.md`, `todos/` | create and set settings, load (which may write), `validate health --repair`, complete a todo |
| Documents, profiles, prompt checks | `lib/frontmatter.cjs`, `lib/template.cjs`, `lib/uat.cjs`, `lib/profile-*.cjs`, `lib/security.cjs`, `hooks/` | – | one text into another |

What makes this hard:

* **read, edit, write.**  `STATE.md`, `ROADMAP.md` and `config.json` are read whole,
  edited in memory and written whole.  Only `STATE.md` has a lock, and it is taken after
  the file has been read.
* **a lock file with a way around it.**  A lock that is old, that outlasts ten tries, or
  that cannot be opened, does not stop the write.
* **several file operations to one command.**  A phase is added with a directory and
  then a text, removed with deletions, renames and then a text, a workstream is made or
  archived entry by entry.  Each may fail or be the last before the process dies.
* **numbers that are looked up as text.**  `02`, `2`, `02.1`; by prefix, in sorted
  order, in headings, checkboxes and directory names, each by another expression.
* **facts kept twice.**  The current plan is in bold fields, in Current Position and in
  the frontmatter; progress is in summaries, checkboxes and counts.

What should hold: the lock excludes, and the file is a store of whole versions (store);
the parts of the file agree (content); executed work and files are never lost, disk and
text keep the same numbers (phases, workstreams); the commands that report agree, and
there is always something to do next (reports); a reply tells what the disk holds; a
setting that was confirmed stays.

## The modules

| Module | Models | State |
|---|---|---|
| `Faults` | the failures a configuration allows, and how many | `faults` |
| `JobTable` | the committed rows, `Job`, `NewJob`, `WithKey`, `UpdateJob` | `rows` |
| `Broker` | the queues, the revocations and the result cache | `queue`, `kwargs`, `dlq`, `revoking`, `revoked`, `cache` |
| `JobService` | one request, stopped at every await and every call to Redis | `req` |
| `BaseTask` | the children of the worker, stopped at every call to Postgres and Redis | `run`, and the history in `effects`, `fates` |
| `AegisWorkers` | the composition, the properties, the fairness | – |
| `Delivery` | what a client is promised of its jobs, abstractly | `keyOf`, `open`, `effects`, `fates`, `answered` |
| `AegisClaims` | what the documents say and the code does not do | – |
| `StateStore` | what the lock of `STATE.md` promises, abstractly | `file`, `pending`, `trusted` |
| `StateContent` | the text of `STATE.md` and the edits of the commands, as operators | – |
| `StateFile` | the commands as processes that read, lock, write, crash | `file`, `lock`, `proc`, `disk`, `runs`, `faults`, `beside`; history in `acked`, `forced` |
| `Roadmap` | `ROADMAP.md`, directory names, look-ups and edits, as operators | – |
| `Phases` | the commands on phases, the session, the executors | `roadmap`, `dirs`, `archive`, `todo`, `held`, `said`, `shipped`; history in `done`, `marred` |
| `Reports` | the commands that report, as functions of that state | – |
| `PlanningClaims` | a comment on `phase remove` that the code does not keep | – |
| `Workstreams` | create, complete, set, step by step, with the rollbacks | `root`, `ws`, `live`, `wsRoot`, `archive`, `shelves`, `active`, `proc`; history in `made`, `excused` |
| `Settings` | `config.json`, health and todos, beside the workstreams | `config`, `repos`, `pending`, `done`; history in `acked` |
| `Workspace` | the composition of the two, with crashes, and the properties | – |
| `MCAegis`, `MCStateFile`, `MCPlanning`, `MCWorkspace` | the instances for TLC | – |
| `AegisProofs`, `DeliveryProofs`, `OutcomeProofs`, `RepeatProofs`, `StateProofs`, `WorkspaceProofs`, `PhasesProofs`, `ReportsProofs` | the theorems | – |

`JobTable` <- `Broker` <- (`JobService`, `BaseTask`) <- `AegisWorkers` <- (`AegisClaims`
<- `MCAegis`, `AegisProofs` <- `DeliveryProofs` <- (`OutcomeProofs`, `RepeatProofs`)); `AegisWorkers`
instantiates `Delivery`.  `JobService` and `BaseTask` share the
variables of `Broker`, `JobTable` and `Faults` and nothing else, as the processes share
Redis and Postgres and nothing else.  `StateContent` <- `StateFile`, which instantiates
`StateStore`; `StateProofs` is about both.  `Roadmap` <- `Phases` <- (`PhasesProofs`,
`Reports` <- `PlanningClaims`); `ReportsProofs` extends both branches, `Reports` and `PhasesProofs`.  `Workstreams` <-
`Settings` <- `Workspace`.

Definitions marked VARIANT are deliberately wrong forms of the operation that follows
them.  Nothing in `Next` uses them; putting one in the place of its operation must
break a property, which shows that the property depends on that operation.

### aegis-workers

**A request** (`req[r]`) is a program counter, the row of its open transaction, and the
response.  `create`: `CreateJob` (SELECT; a hit answers 200) -> `Flush` (INSERT) ->
`Send` -> `Commit` (201).  `retry`: `RetryDlqJob`, then the same three.  `cancel`:
`CancelJob` (SELECT) -> `Revoke` -> `CancelUpdate`.  A row becomes visible only with
`Commit`.  The unique index makes a second INSERT of the key wait for the first
transaction; it then fails (500) or goes on, as Postgres does.  Every call that can
raise has an error action that ends the request with 500, with or without the effect
when the reply may have been lost, the broadcast of a revocation included; `ApiCrash` ends it without a response.  A job made
by the retry endpoint has the key `dlq-retry-<uuid>` that nobody else has: the model
uses the id of the job for it.

**A child** (`run[c]`) goes through `before_start` -> `check` -> `execute` -> one of
`on_success` -> `store` | `retry` | `send_to_dlq` -> `failed` -> `dlq`, and then `ack`.
One step is one call to Postgres or Redis.  How `execute` ends is a choice among
`Outcomes`: a result, an exception, a ValidationError.  Success adds one to
`effects[key]`, which is history that no step reads; so is `fates[j]`, the ends of j
other than success: `dlq` (`on_failure` has run), `revoked` (discarded by the worker),
`dropped` (a retry could not be published).  A message is a job and its number of
retries, because all attempts of a job have one task id.  A message with a countdown
may be delivered at any later time, so the length of the backoff plays no role.

**Celery and Redis** are modelled from how the code configures them (late
acknowledgement, `task_reject_on_worker_lost`, the hooks) and are marked external:
`Deliver`, `DiscardRevoked`, `RevokeArrives`, `Redeliver`, `RetryLost`, the return of
unacknowledged messages in `WorkerRestart`.

### The planning tools

**STATE.md** is a record of what the commands tell apart: a frontmatter, the bold
fields, the plain fields under Current Position, whether the sections are there, the
entries of the decision, blocker and metric lists, and `junk` for the remains of a longer
text under a shorter one.  A field is a sequence that is empty when the text lacks it.
Each command is an operator from a content to the set of its edits, with what it reports
as added or dropped; `EditsOf` chooses among them.  `state update` and `state patch` write
whatever they are given into whatever fields the text has (`Type`, for any texts in
`Typed`): `hand` remembers that a count of plans was typed, until `begin-phase` with a count
writes them all again.  A process reads the file (`Read`),
derives the frontmatter from the edited body and the disk (`Sync`), takes the lock
(`Acquire`, or `Contend` with its waits, `Reap` of a stale lock, `Steal` after the last
try, `OpenError`), truncates and fills (`Truncate`, `Fill`: two steps, as `writeFileSync`
makes them) and removes the lock, whoever made it (`Release`).  `Crash` ends a process
anywhere; `Age` makes a lock older than ten seconds, for free when its owner is gone,
as a fault when its owner is only slow.

**Phases.**  A section of `ROADMAP.md` is a number, a name, a dependency as it is
written, and a checkbox; a directory is a number, a name, what has prepared it, and how many
plans and summaries it has.  A command of the session is a queue of file operations
(`mkdir`, `rm`, `rename`, `move`, `save`, ...) computed from what it read first, which
`Step` performs one at a time and `Crash` cuts; a `rename` or `move` of several
directories holds the paths that are left and takes one of them at a step.  `milestone
complete` moves directories only with `--archive-phases`, which is a choice of the action.  Executors run beside it: they write a
summary, read `ROADMAP.md`, and write it back later.  `Roadmap` has the expressions the
tools look up with, including what each takes for a match and what it does not.

**Reports** are functions of the state: one operator per command, built from the same
scan as its code (headings or directories, first or last match, prefix or whole number).
`init manager` is modelled up to its recommendations, with the filter on phases touched
in the last five minutes as a parameter `recent` that the property quantifies over.

**Workstreams.**  A directory is a set of entries; an entry is its name and the
command that wrote its content.  A process is a record with its step, what it
has still to move and what it has moved, and `on`, what it works on: two processes
whose `on` overlap put it in `excused`, and the promises do not cover it from then on.
`create` with a migration: `Guard` -> `MkdirTarget` -> `Move`, one entry a step, with
`MoveFails` -> `Undo` and `PassOver` (a second failure, which the code ignores) ->
`Clean`; then `MakeDirs` -> `WriteState` -> `Activate`.  `complete`: `MakeShelf` -> `Out`, with
`OutFails` -> `Back` -> `DropShelf`; then `Rmdir` -> `RmRoot`.  `RemovalFails` is any of the
removals of directories (`workstream.cjs:59-60`, `:316`, `:322-328`) that fails: the code swallows
the error and answers as if it had not.

**Settings.**  `config.json` is missing, torn or a record of what the code looks
at: the deprecated `depth` and `multiRepo`, the generation of the sub-repositories it lists, the
workflow section, and the value of each key, known by the command that chose it.  Every write goes through
`Truncate` and `Fill`.  `LoadConfig` reads, and writes if it migrates; `SyncRepos` is
its second write.  Once there is a sub-repository (`RepoAppears`), a configuration that has
`multiRepo` gets a list of them instead and `planning.commit_docs` false, whatever it
was (`UpToDate`, `core.cjs:238-246`).  `validate health --repair` (`BeginHealth` ... `EndHealth`) backs up and
regenerates `STATE.md`, resets the settings and adds a missing key, each its own step.
`TodoStep` writes the copy and then removes the todo.

## The runs

Every run instantiates its component through an MC module.  All runs say
CHECK_DEADLOCK FALSE: clients, agents and executors do a bounded number of things, and
when all is done the system rests.

| Run | Instance | Properties |
|---|---|---|
| `api` | 3 requests (create, retry), 2 jobs, 1 key, 2 children, no retry, 2 faults of api_crash, send_error, commit_error, queue_evict, redeliver | `TypeOK`, `SubmitIsIdempotent`, `CommittedWasPublished`, `LineageIsSound`, `DuplicatesNeedFaults` |
| `outcome` | 3 requests (create, cancel, retry), 2 jobs, 1 key, 2 children, all outcomes, 1 retry, 1 fault that repeats no message (db_write, retry_publish, dlq_publish, revoke_error) | `OneOutcome`, `StatusAtRest`, `FinalStatusIsFinal` |
| `live` | 2 requests (create, cancel, retry), 2 jobs, 1 key, 1 child, all outcomes, 1 retry, 1 fault of any kind but queue_evict; fair, no symmetry | `AtLeastOnce`, `SuccessIsReal`, `RetriesAreBounded`, `JobsAreDelivered`, `EveryJobSettles`, `EveryRequestEnds` |
| `state_file` | 3 commands: of all kinds one after the other, or advance-plan in 2 processes beside each other; 2 tries of the lock, 2 faults; fair | `TypeOK`, `Exclusion`, `WholeFile`, `PlanWithinTotal`, `PositionAgrees`, `ReadersAgree`, `SequentialIsExact`, `AtomicStore`, `EveryCommandEnds` |
| `planning` | an outline of 2 phases, numbers up to 3.1, 2 commands, 2 executors, 2 pieces of work, 1 crash | `TypeOK`, `NoWorkLost`, `FindIsExact`, `NumbersAgree`, `AddedHasDirectory`, `ArchiveIsWhole`, `ManagerHasNext`, `ReportsAgree`, `RoadmapKeeps`, `LastIsLast` |
| `workspace` | 2 workstreams, 2 processes, 2 keys, one of them `planning.commit_docs`, 3 commands, 1 fault; a new project, or one with `ROADMAP.md`, `STATE.md` and settings with `multiRepo` | `TypeOK`, `NothingLost`, `StaysTogether`, `SettingsKept`, `TodoKept`, `RepliesAreTrue`, `RepairSettles` |

What the properties say, and why a unit test would not see them broken:

*aegis-workers*

* `AtLeastOnce` - a published job is queued, or in the hands of a child that has not
  reached its acknowledgement and whose death would requeue it, or settled.  It takes a
  crash between two calls, or a restart with several children busy, to break it.
* `JobsAreDelivered` - `Delivery!Spec` under the refinement mapping below: a job is open
  from its submission until it has succeeded or ended otherwise, is never reopened by a
  crash, timeout or restart, and no client is told of a job that was not submitted.
* `SuccessIsReal` - COMPLETED, and a cached result, stand for an effect under that key,
  in any order of retries, redeliveries and evictions.
* `SubmitIsIdempotent`, `CommittedWasPublished` - the two promises of `create_job`,
  through all interleavings of SELECT, INSERT, publication and commit.
* `DuplicatesNeedFaults` - a key has one effect, plus at most one for each fault, also
  when a rollback left a message behind and the client submitted again.
* `RetriesAreBounded` - `execution_count <= (MaxRetries + 1) * (1 + faults)`.
* `LineageIsSound` - a job made by a retry descends from a committed job that went
  through `on_failure`, one generation younger.
* `OneOutcome` - when no message is repeated a job comes to one end: what is offered
  for a retry, or was discarded as revoked, has had no effect.
* `StatusAtRest`, `FinalStatusIsFinal` - as long as no fault and no cancellation has
  happened, the row of a job at rest says what became of it, or still PENDING when all was
  over before the commit, and does not change any more.
* `EveryJobSettles`, `EveryRequestEnds` - nothing waits for ever, also not the INSERT
  behind another INSERT.

*STATE.md*

* `Exclusion` - one process at a time is between the creation and the removal of the
  lock, until one forces it.  A lock left by a crash, and its removal, do not break it.
* `WholeFile`, `AtomicStore` - no version mixes two writes; every version was made by one
  command from one version (or from the blank file a reader without the lock may meet).
  `AtomicStore` is `StateStore!Spec` under the refinement mapping below.
* `PlanWithinTotal`, `PositionAgrees` - the counts of plans, kept in several places of the
  text and edited by different commands in any order, agree.  `state update "Current Plan" 9`
  writes one of them and no other, as its code says it does, so the two speak of a text until
  a count of plans is typed by hand, and again once `begin-phase` has written all of them;
  texts typed into other fields, patches and pauses do not touch them.
* `ReadersAgree` - `state json`, which has the frontmatter, and `state-snapshot`, which has
  the text, report one plan and one pause, and the status of the first is what status and pause
  of the second come to (a text with a `Paused At` is paused, whatever its status:
  `lib/state.cjs:711`), also of counts and statuses typed by hand.
* `SequentialIsExact` - commands that run one after the other lose no entry they
  reported and bring none back.
* `EveryCommandEnds` - a lock nobody removes holds up a command for its tries, no longer.

*Phases and reports*

* `NoWorkLost` - every summary an executor wrote is in a directory of the name of its phase,
  through renumbering, archiving and crashes, unless it was removed by force; they are
  counted as files, each with its directory.
* `NumbersAgree`, `AddedHasDirectory` - disk and `ROADMAP.md` name the same phases with
  the same numbers between commands; a crash leaves a directory too many, never a section.
* `RoadmapKeeps` - sections and checked boxes stay, whoever writes the file.
* `FindIsExact`, `LastIsLast` - a phase that has a directory is found, though those of
  its decimal phases start with the same text; only the last phase is called the last.
* `ArchiveIsWhole` - `milestone complete --archive-phases` leaves no directory behind, also
  when it takes over from one that was cut short.
* `ReportsAgree` - when `validate consistency` warns of nothing it could see, the reports that
  add up by section and those that scan the disk count the same plans and summaries and the
  same phases, and the questions about one phase find the directory that was counted for it.
  Of the phases, `stats` is another matter: it keys headings as "2" and directories as "02"
  (`lib/commands.cjs:801-851`), and the property says by exactly how many its `phases_total` exceeds
  that of `roadmap analyze`: the phases of integer number.
* `ManagerHasNext` - the dashboard has something to offer until all is complete, or
  waits for a phase under way or for a dependency that names nothing; a removal that
  renumbers is excepted, and so is a text written over what others had changed.

*Workspace*

* `NothingLost`, `StaysTogether` - through migrations, completions, their rollbacks,
  repairs and crashes, every entry ever written is still somewhere, and those the project started
  with are in one directory.  It takes two commands on one directory, or a second failure
  inside a rollback, to lose one: both are excepted, and both are in the model.
* `RepliesAreTrue` - `migration_failed`, `archive_failed`, `completed` and `created` tell
  what the disk holds; a directory said to be gone is still there only after a removal failed.
* `SettingsKept` - what `config-set` confirmed stays, whatever is loaded, migrated or
  repaired in between, unless two commands rewrote the file at once or one died writing it.
  `planning.commit_docs` stays until `multiRepo` becomes a list, which overwrites it
  with false; the comment "If explicitly set in config, respect the user's choice"
  (`lib/core.cjs:286`) is then about a value the code chose itself.
* `RepairSettles` - one `health --repair` leaves nothing for a second one, of `STATE.md`
  and of `config.json` each if it found them wanting, as long as no two commands worked on
  one file and no removal or rollback failed before.
* `TodoKept` - a todo is pending or its completed copy is whole.

**Bounds.**

* A request slot is used at most once; a client that repeats a request uses
  another.  Two requests with one key are enough for every race on the key, a third
  retries a job from the DLQ.  Two children are enough for one message and its duplicate
  to be at work at once; a third would run the same steps against the same row and cache
  key.  One retry distinguishes the first, the next and the last attempt; the children
  compare only with `MaxRetries`, which is 5 in the code and any natural number in the
  proofs; `api` has none, since its properties do not speak of attempts.  Two faults let one
  fall into the recovery from another.
* The texts typed into `STATE.md` (`Typings`) put each count of plans out of step with the
  others, pause and fill several fields at once.  Two processes and three commands are enough for a reader, a writer in its section and
  a lock left behind; two tries (ten in the code) have one that waits and one that
  forces.  `beside` chooses whether agents run the commands of `ParallelOps` beside each
  other or the session runs all of them in turn: the first is about the lock, the second about the text.
* Two commands of the session, in either order and cut anywhere, with an executor that
  has read `ROADMAP.md` before them and writes it after them.  Two phases and an inserted
  one have the prefix, the gap and the successor that look-ups stumble on.
  `MaxInt` is at most 9 by assumption: above it "Phase 1" is a prefix of "Phase 10" in some
  expressions, and a directory "10" is no longer padded, so that `stats` counts it once.
* Two workstreams and the flat project are all the places a file can move
  between; three commands are one to set up and two to meet.  Of the six combinations of files
  and settings to start from (`Init`) the run has three: without files, no settings or outdated
  ones with a list of sub-repositories; with files, outdated ones with `multiRepo`, which `loadConfig`
  has to write twice.  `phases/` and
  `REQUIREMENTS.md` move as the two entries of the instance do, and every theorem about the
  workspace is for any set of entries, keys, workstreams and commands.

The passing runs have between 310 thousand and 1.9 million distinct states: `live` 0.31,
`state_file` 0.37 (most of its time for liveness and refinement), `outcome` 0.92, `planning`
1.03, `api` 1.82 and `workspace` 1.91 million.  Each takes about a minute.

**Fairness.**  In `live`: weak fairness of each request's next step, of each child, and
of the worker reading a revocation or discarding a revoked message.  The asyncio loop
resumes a coroutine whose await is done, the prefork pool runs its children
independently, and a free child takes a message when there is one.  Requests are not fair
(nobody need call the API), and neither are faults.  Under this fairness a child may
deliver any waiting message, which FIFO queues refine.  In `state_file`: weak fairness
of each process, since the operating system runs them and every wait of the lock ends
with another try.  Nothing makes a process start a command, and none need crash.

**The refinements.**  `AegisWorkers` implements `Delivery`: `keyOf` is `kwargs`, a job is
open while a message of it is queued or a child has it, `answered` are the jobs of the
requests to create or retry that got 200 or 201.  `Send`, and the `SendError` in which Redis took
the message, are `Submit`; `Commit`, and `CreateJob` that finds its key, are `Answer`;
`Execute` that succeeds is `Succeed`; `MarkDlq`, `RetryLost` and `DiscardRevoked` are
`End`; whatever takes the last copy of a message away without a word (`Ack`, a crash of a
child whose message was redelivered) is `Close`, whose guard is the point: the
job has succeeded or ended.  Rows, caches, retries, duplicates and crashes are not seen.

`StateFile` implements `StateStore` with `file` mapped to the
version before the truncation while a process is between `Truncate` and `Fill`,
`pending[p]` to the edit of a process that is not idle, and `trusted` to `~forced`.
`Read` is `Begin`, `Fill` is `Commit`, `Release` is `Finish`, a `Crash` is `Finish` or,
inside the write, `Die`; the steps of the lock stutter.  The abstract store does not promise that the
version a command edits is still the last one when it commits: the code does not either.

### Where the documents and the code disagree

Each of these runs finds its property violated.

| Run | Said | Done |
|---|---|---|
| `claim_stuck_pending` | a job that ran is COMPLETED (`tests/integration/test_job_lifecycle.py:72`) | a child faster than the commit updates no row; the job stays PENDING (`job_service.py:116`) |
| `claim_cancel_run` | PENDING -> CANCELLED (`app/models/job.py:33`) | `before_start` turns CANCELLED into RUNNING (`base_task.py:218`) |
| `claim_cancel_late` | 409 if the job is not PENDING (`app/routes/jobs.py:132`) | the UPDATE has no condition and overwrites COMPLETED (`job_service.py:221`) |
| `claim_dlq_success` | the DLQ holds tasks that failed beyond retries (`README.md:60`) | a success whose result cannot be cached goes there too (`base_task.py:250`) |
| `claim_lost_entry` | the lock prevents "parallel agents from overwriting each other's changes" (`lib/state.cjs:786`) | the file is read before the lock is taken, so the later writer removes what the earlier reported (`lib/state.cjs:790`) |
| `claim_renumber` | "renumber all subsequent integer phases" (`lib/phase.cjs:537`), "phase 6 becomes 5, phase 7 becomes 6" (`:498`) | the loop finds its own output again, so every later phase gets the removed number in `ROADMAP.md` (`lib/phase.cjs:549`) |

Others met while reading, that no run checks.  In aegis-workers: `execution_count` counts
deliveries, so it exceeds 1 after a redelivery (`tests/chaos/test_resilience.py:130`
says it must not); the message precedes the commit (`README.md:244` says it follows); a
concurrent duplicate submission gets 500 and not 200 (`test_job_lifecycle.py:128`); a
ValidationError sends two dlq messages (`base_task.py:394`); the worker drains the dlq
queue that `celery_app.py:42` says is kept for seven days; Redis may evict the queue
(`docker-compose.yml:123`), after which `AtLeastOnce` does not hold.

In the planning tools: a phase without a directory is answered with that of its first
decimal phase (`init plan-phase 2` gets 02.1: `Misled`); `validate consistency` does not
see directories of decimal phases that `ROADMAP.md` lacks, nor two of one number
(`Unseen`); a second failure inside a rollback loses the files it could not move back;
two related phases that were both touched within five minutes silence each other's
recommendation (`lib/init.cjs:1014-1024`); `stats` counts a phase of an integer number twice
(`lib/commands.cjs:801-851`); `phase remove` of a number that no phase has renumbers those
after it (`lib/phase.cjs:564-602`); the status of a text in the plain layout with a frontmatter is
replaced in the frontmatter, which the next step discards (`lib/state.cjs:212`); two todo
commands at once may lose the todo.
Not in the model: `add-blocker` mangles entries that end in "None" (`lib/state.cjs:462`);
`phase complete` repeated on one phase counts beyond 100 %; `WAITING.json` is written in one place and read in
another (`lib/state.cjs:970`); todos are looked up in the workstream although
`lib/workstream.cjs:21` says they stay at the root; `--migrate-name` takes names that
`workstream set` refuses; a padded reference (`phase complete 02`) does not match the heading it means.

## The proofs

All hold for any sets of the constants and any bounds; TLC checks the same properties on
the instances above.

| Module | Theorem | States |
|---|---|---|
| `AegisProofs` | `TypeCorrect` | `Spec => []TypeOK` |
| | `CommittedJobsWerePublished` | `Spec => []CommittedWasPublished` |
| | `NoFalseSuccess` | `Spec => []SuccessIsReal` |
| | `DeliveredAtLeastOnce` | `Spec => []AtLeastOnce`, when `"queue_evict" \notin Faults` |
| `DeliveryProofs` | `SubmissionIsIdempotent` | `Spec => []SubmitIsIdempotent` |
| | `LineagesAreSound` | `Spec => []LineageIsSound` |
| | `SystemDelivers` | `Spec => JobsAreDelivered`, when `"queue_evict" \notin Faults` |
| `OutcomeProofs` | `JobsEndOnce` | `Spec => []OneOutcome`, when no fault repeats a message (`NoRepeats`) |
| | `StatusesTellTheEnd` | `Spec => []StatusAtRest` |
| | `FinalStatusStays` | `Spec => FinalStatusIsFinal` |
| `RepeatProofs` | `RepeatsNeedFaults` | `Spec => []DuplicatesNeedFaults`, when `RestartRepeatsOne` |
| | `AttemptsAreBounded` | `Spec => []RetriesAreBounded`, when `RestartRepeatsOne` |
| `StateProofs` | `StateTypes` | `Spec => []TypeOK` |
| | `LockExcludes` | `Spec => []Exclusion` |
| | `StateFileRefines` | `Spec => AtomicStore` |
| | `VersionsAreWhole` | `Spec => []WholeFile` |
| | `CountsStayWithin`, `PositionFollows` | `Spec => []PlanWithinTotal`, `Spec => []PositionAgrees` |
| | `ReadersMeet` | `Spec => []ReadersAgree` |
| | `TurnsAreExact` | `Spec => []SequentialIsExact` |
| `WorkspaceProofs` | `WorkspaceTypes` | `Spec => []TypeOK` |
| | `FilesAreKept` | `Spec => []NothingLost` |
| | `FilesStayTogether` | `Spec => []StaysTogether` |
| | `CommandsTellTheTruth` | `Spec => RepliesAreTrue` |
| | `ReportedSettingsAreKept` | `Spec => []SettingsKept` |
| | `OneRepairSettles` | `Spec => RepairSettles` |
| | `TodosAreKept` | `Spec => []TodoKept` |
| `PhasesProofs` | `PhaseTypes` | `Spec => []TypeOK` |
| | `WorkStays` | `Spec => []NoWorkLost` |
| | `PhasesAreFound` | `Spec => []FindIsExact` |
| | `DiskAndTextAgree` | `Spec => []NumbersAgree` |
| | `AddedPhasesHaveDirectories` | `Spec => []AddedHasDirectory` |
| | `TheRoadmapKeeps` | `Spec => RoadmapKeeps` |
| | `LastMeansLast` | `Spec => LastIsLast` |
| | `ArchivesAreWhole` | `Spec => []ArchiveIsWhole` |
| `ReportsProofs` | `ReportsDoAgree` | `Spec => []ReportsAgree` |
| | `ManagerAlwaysHasNext` | `Spec => []ManagerHasNext` |

The assumptions are those of the modules: job ids are not keys, the null value is
neither of them nor a row nor a response code nor an operation, the children are finitely many (their
unacknowledged messages are counted), bounds are natural numbers, a phase has at least
one plan, `None` is not the name of a workstream.  Two more are made by the theorem that
needs them.  `NoRepeats` excludes the faults that repeat a message, undo a transaction whose message is
out, or turn a success into a failure.  `RestartRepeatsOne` allows restarts with one child
only: a restart is one fault and puts the messages of all children back, so that with more of them neither
bound need hold; every other fault is allowed with any number of children.

**aegis-workers.**

1. `TypeOK` is not inductive: that a request past its SELECT has a job and a row, that a
   busy child has a published job, that a child about to retry has retries left and
   that a queued message was published are needed to see that the next step is well
   typed.  `TypeInv` adds these (`RequestShape`, `ChildShape`, `QueueShape`), and
   `TypeInvStep` has one lemma per process.
2. `CommittedWasPublished` needs to look into open transactions: `SendInv` says that
   two requests never hold the same new job, that a request past `Send` has published
   its row's key, and that one before it has published nothing.
3. `SuccessIsReal` needs the children between `execute` and the cache: `SuccessInv`
   says that a child at `on_success` or `store` has an effect under its key.  The effect
   counts only grow (`HistoryGrows`), and only these two steps complete a row or store a
   key (`WhoCompletes`, `WhoStores`).
4. `AtLeastOnce` is inductive together with the other three.  Two lemmas carry it:
   `NobodyForgets`, a child that lets go has requeued the message, published the next
   attempt or settled the job; `NothingIsLost`, a message that leaves the queue goes to
   a child or is discarded as revoked.
5. `SubmitIsIdempotent` looks only at the responses.  `SubmitInv` says what the unique
   index keeps unique, committed rows and open INSERTs together (`KeysAreUnique`), and
   that a positive answer names a committed row with the key of the request
   (`AnswerIsRow`).  `CommitIsNew` is where `SendInv` is needed: a commit cannot replace
   a row, since the message of its job was published with its own key.
6. `LineageIsSound` needs the rows of open transactions (`Descends`), and that a row is
   DLQ only after `on_failure` (`WhoIsDead`).  The parent's status may be overwritten
   later, its key, generation and history may not.
7. `JobsAreDelivered` is a step simulation under the invariants above and `AnswersEnd` (a
   request with a response is over).  On the side of the API, `SendInv` gives that a job is submitted
   once and that a committed row, which is all an answer names, was published.  On the
   side of the worker, `NobodyReturns` says that no step takes up a job that is neither
   queued nor in a child's hands, and `LetGo` that one which lets go of a job closes it
   rightly, because `AtLeastOnce` holds after the step.
8. `OneOutcome` is about a token: `OutcomeInv` says that a published job has at most one
   message, queued or in a child that has not finished it (`OneToken`), and that it tells what
   became of the job so far (`Tells`).  Jobs are told apart by their keys, so a key must
   be sent with one job only: `KeysAreSentOnce` follows from the unique index, since
   without crashes and errors of the API every published job is committed or about to be
   (`PublishedIsHeld`).  `NoRepeats` excludes exactly the faults that break one of the
   two, and `cache_error`, by which a success ends in the DLQ (`claim_dlq_success`).
9. `StatusAtRest` and `FinalStatusIsFinal` follow from what a row may say at each step of
   the child that works on its job, and when nobody does (`Shown`).  A row committed late
   says PENDING whatever has happened, so `Shows` allows it everywhere.  `CalmInv` holds that
   and `OutcomeInv` for as long as no fault and no cancellation has happened, without an assumption on `Faults`:
   `StaysDisturbed` says that what was disturbed stays disturbed.
10. `DuplicatesNeedFaults` and `RetriesAreBounded` are counted.  A key's budget is one effect and
    one for each fault so far; against it stand the effects it had, the messages in the queue that can still have
    one, the children about to have one, and one more as long as it was not sent
    (`EffectsOf`).  No step but a fault increases that sum, and a fault increases it by
    one.  The other bound counts the attempts a message still has before it (`AttemptsOf`):
    a retry moves one attempt from the child to the queue, `before_start` moves one to the
    row, a repeated message brings at most a whole series back.

**STATE.md.**

1. `LockInv == Shape /\ Owned`: whoever is in its section made the lock that
   is there.  `Owned` is needed because `Release` removes a lock without looking at it.  The
   refinement is a step simulation under `LockInv`: at most one process is filling, so that `Current` is defined.
2. The text is a matter of lemmas about its edits: a text is `Sane`
   if its fields have the forms the commands write (`LayoutOK`) and its counts agree unless one was typed
   by hand (`CountsOK`), and each of the edits keeps that, whichever fields are there and whatever is typed.  `TextInv` says it of the
   file and of what every process holds, and of what is about to be written that its
   frontmatter tells the status of its text (`FmTells`); a version that mixes two writes
   only differs in `junk`.  So `PlanWithinTotal`, `PositionAgrees` and `ReadersAgree` hold
   also after a lock was forced and after a writer died.
3. `WholeFile` is not inductive alone: `Clean` also covers the texts in memory, since a
   command that reads a mixed text writes it back.
4. `SequentialIsExact` needs what a command that runs alone has already done with the entries
   (`InTurn`): while it runs, its text has the entries of the file with its own
   added or dropped, and after its write the file has them.

**Workspace.**  `Inv` is the conjunction of `Shape` (what the record of a process holds
at each step), `TreeShape` (a directory that does not exist is empty; an archive that is being
filled is filled by one process), `Exclusive` (two processes' `on` overlap only in what is
excused), `PlacedInv` (where entries in motion are: what `Move` has moved is in
the target, what it has not is at the root), `KeptInv` (every entry ever written is
in some directory, or its backup is), `ConfigInv` (what a process holds in memory of
`config.json`, and the file itself while nobody writes it, agree with what was confirmed) and
`TodoInv`.  `NothingLost` is not inductive without `PlacedInv`: the rollback moves back
by name, and the directory is removed with what is still in it.

1. `TypeOK` says of the directories that none holds two entries of one name but backups.
   `TypeInv` adds what the processes carry, whose contents end up in the directories
   (`TypedInv`), and of the file `config.json` (`StoreOK`).
2. `RepliesAreTrue` is about the step that answers; `SettledInv` says what a command has
   achieved when it gets there: what it has moved and what has been rolled back, which directories it made, and
   that nobody else works on them (`Exclusive`).
3. `RepairSettles`: a repair that found `config.json` wanting works on that file until
   it needs none (`FixingInv`), and no other command makes it wanting again (`Fixed`, which also speaks of
   the settings a command is about to write).  The property said first that no
   repair is needed after one.  With two keys that is false: a repair that has only
   `STATE.md` to regenerate does not look at `config.json` again, which another command
   may have written by then; that command is over when the repair answers.  The proof did not go
   through, TLC has a counterexample with a second key, and the property now compares with what the repair found.
4. `StaysTogether`: the old entries are in one directory, or at the two ends of a move
   whose process is still there (`TogetherInv`, `Carries`).  A migration takes
   them all because they are among what it moves (`OldInv`), a completion because it reads the
   whole directory, and `Exclusive` keeps others out of both.

**Phases.**  A command is a queue of operations that a crash may cut after any of them,
beside executors that hold a text of `ROADMAP.md`.  No property is inductive without
saying what the rest of the queue, and each held text, will leave behind.

1. `Shaped` says what an operation may hold (`Typing`) and where in its command it stands
   (`Queued`).  `TypeOK` follows: the numbers that `phase remove` writes stay in
   range because what is renamed comes after what is removed.
2. `FindIsExact` is a fact about `SearchPhase` for any directories: names sort by number,
   so a phase comes before its decimals.  `LastIsLast` is one about `TellNext`.
3. `RoadmapKeeps` needs `Kept`: every text about to be written keeps the sections and
   checkmarks of the text it was made from (`Keeps`), and an executor's also has no more
   (`Headed`).  `AddKeeps`, `InsertKeeps` and `TickIs` are the lemmas on the edits.
4. `ArchiveIsWhole` needs `Gathering`: while `move` is at work, each directory of the
   milestone is still to be moved or stuck before one like it in the archive.  An
   executor's text must not bring back other phases, hence `Headed`.
5. `AddedHasDirectory` needs `Added`: a text about to be saved has no section without a
   directory but the one that the `mkdir` before it makes, and a removal that moves no
   number takes the directory of the very section it takes from the text (`RemovesClean`).
   For that an edit must find the section it means: an integer stands before its
   decimals, and a number that stands twice belongs to an archived phase (`Sound`).
6. `NumbersAgree` needs `Agreeing`: the numbers of sections are distinct and every
   directory has a section, or will once the queue is done.
7. `NoWorkLost` counts files.  `DirsFiled` says that paths are unique and no directory has
   more summaries than plans; a rename or a move takes each file to a new place
   one to one, and what is removed or replaced has none to lose (`JobsFiled`).

**Reports.**  What a command reports is a function of the state, so that its proof is an
argument about any one state in which the invariants hold.

1. `ReportsAgree`: if `validate consistency` has no warning and nothing is unseen, each
   directory has one section and each section one directory (`Paired`): as many numbers as
   sections are distinct numbers, and no decimal directory is unlisted.  Then adding up by
   section counts every file once (`CountBySection`), and the numbers of phases are those of
   a bijection.  A look-up finds the counted directory by `FindIsExact`; a phase is complete
   exactly when no plan is left because no directory has more summaries than plans (`DirsFiled`).
2. `ManagerHasNext` needs that sections wait for earlier ones (`Upward`): in the text, in every
   text a command is about to write, and in what an executor holds (`HeldFrom`: its sections
   are those of the text it read); and that what is about to be removed is the last of its kind, so that
   nothing is renumbered.  A removal that renumbers makes all later integers one number, and a phase then
   waits for itself: hence the exception.  TLC found the other one, on an instance with
   three commands: a text written over a removal brings back what was renumbered.
   In a state with that order, if nothing is to plan or to discuss, the planned phase of the least
   number waits only for complete phases (`SomethingToExecute`).  A phase touched of late
   cannot silence it: all that it reaches is complete, and so is what reaches it, or
   the two are unrelated (`Unrelated`).

**Only model-checked**: liveness under fairness (`EveryJobSettles`, `EveryRequestEnds`,
`EveryCommandEnds`), which the prover does not handle.  Every safety property of the
passing runs is proved.

## What is left out of the models

*aegis-workers*

* The payload, results, error texts and timestamps; `dlq_message_id` and the column
  `max_retries`, which nothing reads.
* `get_job`, which reads only, with its `2 ** retry_count * 10` seconds.
* `send_email` and `send_bulk_email` as shipped: `bind=True` makes the function the
  task's `run`, so `self.run(...)` calls itself and never reaches `BaseTask.run`.  The
  model is of a task that inherits `BaseTask.run` and overrides `execute`, as the unit
  tests define theirs.
* The snapshot of Redis (`--save 60 1`): a Redis that comes back with an older queue is
  covered as far as `queue_evict` loses all of it.
* Redis and Postgres serve one command at a time; a lost connection is the error of the
  command.

*The planning tools*

* `STATE.md`: the wording of entries and fields, line breaks, the session fields, and
  the milliseconds and jitter of the waits: a wait is a try.  What is typed into a field is a
  text that is not empty, or a number; 0 stands for words in a count of plans, and a count of
  phases that is not a number is left out.
* `ROADMAP.md`: goals, plan lists, the counts and the progress table, which repeat the
  disk and which no command reads back.  Numbers are n and n.d, from 1; letters (12A), n.d.e and
  custom names are left out.  `ROADMAP.md` has the phases of one milestone: where it has
  several, most commands read only the part that `extractCurrentMilestone` (`lib/core.cjs:813-880`)
  cuts out for the version `STATE.md` names, others read all of it, and none of this is modelled.
* `REQUIREMENTS.md`, `MILESTONES.md` and the archive copies of the texts.
* Workstreams: what is in a file, and a directory that is removed in part (`rmSync` that
  fails in the middle).  `REQUIREMENTS.md` and `phases/` move like the other
  entries and are not in the instance of the run.
* `config.json`: of its keys those that some command treats specially, and any number
  of others.  A list of sub-repositories is its generation; `multiRepo` and the list are not
  keys that `config-set` takes.
* The three checks of `validate health` that lead to repairs (`lib/verify.cjs:588-653`) read
  one file after the other; the model reads both in one step, and only the repairs, which write,
  are steps of their own.
* Todos: one todo, in one directory.
* The fields of `init` that echo settings and paths.

## Not modelled

* Health check, metrics, rate limiter, `dispose_engine`: they read, or count what nothing
  in the system reads back.
* Start-up, settings, headers, CORS, schemas, logging, tracing, the Grafana and
  Prometheus files: sequential or declarative, no state that a later step changes.
* Documents, templates, UAT, git commits, web search, slugs; the developer profile and
  the prompt checks: each turns one text into another.  What matters there is the text itself.
* `signal-waiting` and `signal-resume`, which write and remove one file in one step.
* `workstream list`, `status`, `get`, `progress`, `list-todos`, `config-get` and the
  checks of `validate health` that only warn: they read.
* The workflows and agents are prompts; which commands they run beside each other is in
  the instances.

## Plan

1. *Done:* the job path, its eleven safety properties and the refinement of `Delivery`
   proved; `STATE.md` and its refinement, all safety properties proved; workstreams, settings, health and
   todos, all properties proved; phases and reports, all properties proved.
2. `REQUIREMENTS.md` with `requirements mark-complete` beside `phase complete`, and the
   progress table.
3. `DlqGauge` (`base_task.py:305`, `email_task.py:77-103`) and `Session` (`db/session.py`:
   the factory that outlives its engine).
