# DecisionFlow in TLA+

A verification development of DecisionFlow: what its services do to the state
they share, model-checked with TLC on small instances and proved with TLAPS for
all instances. The code is `src/apps/api/decisionflow`
(FastAPI, SQLAlchemy on Postgres, ARQ on Redis, DuckDB) with the browser client
in `src/apps/web`; paths below are relative to the former.

## 1. The system

| Component | State it keeps | Operations | Talks to |
|---|---|---|---|
| Ingestion (`services/ingestion.py`, `api/v1/datasets.py`) | `datasets`, `dataset_columns`, `ingestion_runs`, stored files | upload, ingest, re-ingest, delete, recover | queue, warehouse, storage |
| Worker and queue (`worker/`) | ARQ jobs in Redis | job with tries, slots and a timeout; cron: recovery, token purge | ingestion, cleaning, analytics |
| Cleaning (`services/pipeline.py`, `data/cleaning.py`, `profiling.py`, `validation.py`) | `clean.<slug>`, profiles, issues, score, status | `clean_dataset` | warehouse |
| Analytics (`services/analytics.py`, `data/semantics.py`, `metrics.py`) | column roles, KPIs | `analyse_dataset` | warehouse |
| Warehouse (`data/warehouse.py`) | one DuckDB file per workspace, a Postgres advisory lock | open for reading/writing, drop, sandboxed query | Postgres pool |
| Accounts (`services/auth.py`, `api/v1/orgs.py`) | users, memberships, invitations | register, invite, accept, change role, remove | sessions |
| Sessions (`services/auth.py`, `core/security.py`, `web/lib/api.ts`) | refresh tokens; tokens in the browser | issue, rotate, revoke, purge; refresh-and-replay | accounts |
| Dimensional model (`services/modelling.py`, `data/relationships.py`, `star.py`) | relationships, table roles, star views | detect, decide, rebuild | warehouse |
| Assistant and agent (`services/assistant.py`, `llm/agent.py`, `data/sqlguard.py`) | conversations | ask (two SQL attempts), summarise | Gemini, warehouse |
| Fleet (`services/fleet.py`, `llm/fleet.py`) | briefings, findings | plan, dispatch, synthesise | agent, predictions |
| Predictions (`services/predictions.py`, `ml/`) | none | forecast, anomalies, churn | warehouse |
| Rate limits (`core/ratelimit.py`) | Redis counters | enforce, reset | Redis |
| Tenancy (`db/session.py`, `db/rls.py`) | the transaction's settings | re-apply after each begin | Postgres |

How they interact. An upload commits a row and enqueues a job. The job commits
its start, works for minutes without a transaction, commits its result, then
cleans and analyses in the same job. A user may re-ingest, clean or delete the
same dataset meanwhile, from the API process. A cron job looks for what killed
workers left behind. Nothing locks a dataset across these: each handler reads,
works, and commits what it decided from the read. That is where the hard
behaviour is: interleaving, kills and redelivery, timeouts, and recovery from
an age alone.

What would make each part correct:
- *Ingestion*: no dataset is stranded; recovery never fails live work; READY means ingested; run history is final; failures are recorded.
- *Data in the warehouse*: the tables, columns and KPIs of a READY dataset come from the same bytes; a delete removes exactly its own tables.
- *Warehouse*: one writer or many readers of the file, always; no request waits for ever.
- *Accounts*: every workspace keeps an owner; an invitation is accepted once.
- *Sessions*: a refresh token is used once; a revocation leaves no live token; a tab never logs another out.
- *Dimensional model*: views follow the confirmed edges; detection never overturns a decision.
- *Agent, fleet*: bounded attempts, one finding per specialist chosen, the limit reported is the one applied.
- *Algorithms*: unique names that the warehouse accepts; a cleaning that loses no more than it says; metrics that only add what may be added; joins that keep the rows; causes and dates that are what they are called; lockouts that end.

## 2. Modules

| Module | What it is |
|---|---|
| `Ingestion.tla` | The core: requests, worker job, cleaning, ARQ, time and recovery over statuses, columns and runs. Properties, the inductive invariant `IInv`, and the refinement mapping. |
| `DatasetLifecycle.tla` | The abstract specification of it: the status a user is shown and the ledger of runs. |
| `DatasetStore.tla` | The data side: a dataset's row in Postgres against its tables `raw.<slug>` and `clean.<slug>` in DuckDB, with jobs, requests and deletes that work across both. Properties and its own `IInv`. |
| `WarehouseLock.tla` | Access to a workspace's DuckDB file: first open, connection pools, advisory lock, DuckDB's own rules, cancellation, crashes. |
| `ReadersWriters.tla` | The abstract specification of it: one writer or any readers inside. |
| `Membership.tla` | Roles, owners and invitations of a workspace under concurrent requests. |
| `Sessions.tla` | The refresh tokens of a user and the tabs that spend them. |
| `StarModel.tla` | Relationships, decisions, rebuilds, views, and the questions pointed at them. |
| `Agents.tla` | Questions and briefings: model calls, retries, specialists, what is stored. |
| `Cleaning.tla`, `Semantics.tla`, `Relationships.tla`, `Contribution.tla`, `Forecast.tla`, `RateLimit.tla`, `Naming.tla` | Pure algorithms, each with what it promises as an operator on its input. |
| `MC*.tla` | Small instances and their symmetry; `MCAlgorithms` enumerates the inputs of the algorithms. |
| `IngestionProofs`, `DatasetStoreProofs`, `MembershipProofs`, `StarModelProofs`, `WarehouseLockProofs`, `SessionsProofs`, `AgentsProofs`, `AlgorithmsProofs` | The TLAPS proofs, one module for each module with a state and one for the algorithms. |

The modules share no variables; they meet at the abstractions that they give one
another. `DatasetStore` takes each section under the warehouse lock as one step:
that the lock gives this, and where it does not, is `WarehouseLock`. `StarModel`
and `Agents` see of a dataset whether it is busy, ready or gone, which is what
`DatasetLifecycle` shows. `Membership` ends where a role change revokes tokens,
and `Sessions` has that revocation as an action that may come at any time.

### Ingestion: state and actions

| Variable | Code |
|---|---|
| `status`, `message`, `columns` | `datasets.status`, `.status_message`; whether `dataset_columns` has rows. `"none"`/`"deleted"` are a row that is not there yet / any more |
| `run`, `runAge` | `ingestion_runs.status`, and `now() - started_at`; a run is named by its job and the job's try |
| `pc`, `target`, `try`, `age` | where each job or clean request stands, its dataset, ARQ's `job_try`, the time of the attempt |
| `seen` | what the attempt's ORM object was loaded with: a later flush writes only what differs from it |
| `behind` | another job's columns were committed after this job's DELETE of them, so its INSERT collides |
| `scanned`, `todo`, `hits` | a recovery pass under way: selected runs, datasets still to read, datasets staged as FAILED |

| Action | Code |
|---|---|
| `Upload`, `Reingest` | the endpoints; `enqueue_ingestion` may fail and is then only logged |
| `RequestClean`, `Delete` | the endpoints; the delete is one commit with its cascade |
| `JobStarts`, `JobFindsNoDataset` | `ingest_dataset`'s first read (a slot of `max_jobs` is free) |
| `JobBegins` | the commit of RUNNING and ANALYZING |
| `JobLoads` | download, parse, load the raw table, DELETE the columns |
| `JobCommits` | the commit of columns, READY and SUCCEEDED |
| `JobFailsEarly`, `JobFailsLate` | `except Exception`, before and inside the last transaction |
| `CleanReads`, `CleanRefuses`, `CleanCommits`, `CleanFails`, `Analyses` | `clean_dataset` then `analyse_dataset`, in the job or in the request |
| `Kill`, `TimesOut`, `Tick` | a process dies; ARQ's `job_timeout`; time |
| `RecoveryScans`, `RecoveryReads`, `RecoveryCommits`, `RecoveryAborts` | `recover_stalled_runs` |

One action is one Postgres transaction, or the work between two awaits on it.
Postgres runs at READ COMMITTED with no explicit row locks, and that is what the
model has. Row locks between a flush and its commit are left out: they only
order steps that the model allows in either order. Three facts about the
libraries carry weight and are stated at the action concerned: SQLAlchemy
flushes only changed attributes; a rollback expires loaded objects, and an
expired attribute cannot be refreshed outside an await; `CancelledError` is not
an `Exception`.

### DatasetStore: state and actions

`Ingestion` leaves out what is in the tables; `DatasetStore` leaves out attempts,
time and the ledger of runs, and lets a job be delivered at any time and stop
anywhere. Both translate the same handlers, each for the state it has.

| Variable | Code |
|---|---|
| `row[d]` | `datasets`: status, slug, and as `cleaning` the pair `cleaned_at`, `cleaning_actions`; `columns` is how far `dataset_columns` has been filled (detected, profiled by cleaning, classified by analysis); `kpis` the table the `kpis` rows were computed from |
| `raw`, `clean` | the tables of the workspace's DuckDB file by slug: the dataset whose file they were loaded from, and whether duplicates were removed |
| `drops` | how far `delete_dataset` has dropped the tables after its commit |
| `work` | per worker slot or request: where it stands, its dataset, and what it read and still holds |
| `haunted`, `settled` | history, used in properties only: work for a deleted dataset has touched tables under this one's slug; the last cleaning ran from read to KPIs with nothing else at work on the dataset |

| Action | Code |
|---|---|
| `Upload`, `Delete`, `DropTable`, `DropStops` | `register_upload`; `delete_dataset`, its commit and its two drops |
| `JobStarts`, `JobBegins`, `JobLoadsRaw`, `JobFails`, `JobCommits` | `ingest_dataset`; DROP and CREATE of the raw table are two statements |
| `RequestClean`, `RequestAnalyse` | the endpoints |
| `CleanReads`, `CleanBuilds`, `CleanCommits` | `clean_dataset`: read and guards, `_run_pipeline_sql`, commit |
| `AnalyseReads`, `AnalyseComputes`, `AnalyseCommits` | `analyse_dataset`: read and guard, queries, commit |
| `Recover` | `recover_stalled_runs`, as far as it touches a row |
| `WorkStops` | an exception, a refusal, a timeout or a kill |

A job runs ingest, clean and analyse in one session: the objects that
`clean_dataset` loaded are still those that `analyse_dataset` sees, while a
request loads them again (`AnalyseReads`, `stale`).

### WarehouseLock: state and actions

| Variable | Code |
|---|---|
| `at` | where each access stands in `warehouse()`: looking for the file, creating it, waiting for a connection, queued for the lock, locked, open; `zombie` is a thread whose access was cancelled |
| `mode` | `read_only` and `sandboxed` |
| `session` | whether the caller's session holds a pooled connection meanwhile |
| `queue`, `file` | Postgres's queue for the advisory lock; whether the file exists |

| Action | Code |
|---|---|
| `Start`, `Ensure`, `Creates`, `Created` | `warehouse`, `_ensure_exists`: outside the lock |
| `CheckOut`, `PoolTimesOut` | the second connection, from the same pool |
| `Granted`, `Opens`, `OpenRefused`, `Finishes` | the lock, `_connect` under it, the work and the release |
| `Cancelled`, `ThreadEnds`, `Crash` | cancellation of the await, the end of the thread it leaves behind, the end of a process |

### Membership: state and actions

`role` is `memberships.role`, `invite` the rows of `invitations`, `req[r]` what a
request has read so far. `Authorise` is `get_tenant_principal` with
`require_role`, from one SELECT; `ReadTarget` and `CountOwners` are the reads of
`change_member_role` and `remove_member`; `CommitChange`, `CommitRemove`,
`CommitInvite` and `CommitAccept` their commits, `CheckInvite`, `Redeem` and
`ReadInvitee` the reads before the last two. What SQLAlchemy's identity map does
with a row that another transaction deleted is `RowAfter`. `stale` and `raced` are
history: a request has been overtaken by a change it has not seen, and one has
committed all the same. `OwnershipTouchedByOwners` does not excuse a race as such: a
request that has been overtaken is still held to the roles that it read.

### Sessions: state and actions

`token` is each row of `refresh_tokens`, `login` (history) the login it descends
from; `stored` is a browser's localStorage, `access` a tab's access token,
`exchange` its login or refresh under way, `call` its API calls that were
answered 401. `ServerReads` and `ServerRotates` are the two halves of
`rotate_refresh_token`, `SweepTokens` and `RevokeOne` the revocations, `Purge` the
cron job. `Unauthorised`, `AnswerArrives` and `AnswerLost` are `request` and
`refreshSession`; `LogIn`, `Load`, `LogOut` the provider in `auth.tsx`. A password that
is refused is a 401 to `request` too: `WrongPassword` may start a refresh. `history`
remembers a rotation that forked, the theft alarm, and what may excuse it.

### StarModel: state and actions

`ds` and `tables` are the datasets and the tables of their slugs, `role`
`datasets.table_role`, `rel` `dataset_relationships.confirmed`, `view` what each
star view joins. `DetectReads`/`DetectCommits`, `DecideReads`/`DecideCommits` and
`RebuildReads`/`RebuildCommits`/`RebuildApplies` are `detect_relationships`,
`decide` and `rebuild_model`; `Ask` and `AskTargets` the assistant's
`star_table_for` and `star_columns`; `Upload`, `Finish`, `Reingest` and `Delete` what
ingestion does meanwhile, which touches no view. `settled`, `agreed` and `broken`
are history.

### Agents: state and actions

`agent` is the analyst's loop (`WriteSql`, `RunQuery`, `Narrate`: `llm/agent.py`),
alone for a question (`BeginAsk`, `EndAsk`: `services/assistant.py`) or as one
specialist of a briefing (`BeginBrief`, `Plan`, `UseTool`, `AnalystReports`,
`Synthesise`, `SaveBrief`: `services/fleet.py`, `llm/fleet.py`). Every model call may
answer, answer with something that does not parse, be throttled or fail.
`message` and `brief` are the stored rows; `log` and `calls` are history.

### The algorithms

| Module | Input | Promise |
|---|---|---|
| `Cleaning` | the cells of a text column by kind (null, token, number-like, ..., padded or not) and count | `CleansFaithfully` |
| `Semantics` | columns: type, tag of the name, repetition | `SumsMeaningfully` |
| `Relationships` | tables: how often each value occurs, NULLs, name | `ProposesSafely` |
| `Contribution` | the movement of each segment in two dimensions | `CausesEarned` |
| `Forecast` | the months that have a value | `FollowsCalendar` |
| `RateLimit` | a history of logins, ticks and Redis outages | `LimitsFairly` |
| `Naming` | the headers of a file, as words (texts or numbers) | `NamesApart` |

Each translates the function of the code step by step and states the promise
over its result, not over its steps.

## 3. Runs

| Run | Instance | Shows |
|---|---|---|
| `ingestion_safety` | 1 dataset, 2 jobs with 2 tries, 1 clean request, recovery | `AnalysingHasRunningRun`, `RecoverySparesLiveRuns`, `ReadyWasIngested`, `FinishedRunIsFinal`, and that `Ingestion` implements `DatasetLifecycle` (1.5 million states) |
| `ingestion_liveness` | 1 dataset, 3 jobs with 1 try for 2 slots | `AnalysingSettles`, `RunsClose`, `QueuedJobsRun` under `WorkerSpec` |
| `store_safety` | 2 datasets that share 1 slug one after the other, 1 worker slot, 1 request | `CleanedHasTable`, `KpisAreOwn`, `SettledIsConsistent`, `DeleteLeavesNothing` (1.4 million states) |
| `membership_safety` | 3 people, 2 requests at once, 2 invitations, owner and admin | `KeepsAnOwner`, `OnePendingInvitation`, `OwnershipTouchedByOwners`, `JoinsByUnusedInvitation` |
| `sessions_safety` | 2 tabs of a browser, 3 calls, 2 tokens | `TypeOK`, `OneLivePerLogin`, `AlarmHasCause`, `CallsSettle` (0.5 million states) |
| `warehouse_lock` | 2 accesses of the API and 1 of the worker, pools of 2 | `RefusalHasCause`, `AccessesEnd`, and that `WarehouseLock` implements `ReadersWriters` |
| `star_model` | 2 datasets, a relationship each way, 2 requests | `NothingJoinsItself`, `RebuildSettles`, `PromptMatchesTable`, `DecisionsStand` (2.2 million states) |
| `agents_requests` | 2 questions, 1 briefing, 2 attempts, a cap of 3 specialists | `TypeOK`, `WholeExchanges`, `GroundedAnswers`, `UsageRecorded`, `BriefCoversFleet`, `RequestsEnd` (1.5 million states) |
| `algorithms` | 559 007 inputs | `CleaningIsFaithful`, `SumsAreMeaningful`, `ProposalsKeepRows`, `CausesAreEarned`, `ForecastFollowsCalendar`, `LockoutsEnd`, `NamesStayApart` |
| `delete_drops_successor` | as `store_safety` | `DeleteSparesSuccessors` violated: see below |
| `last_owner_lost` | 2 people, 2 requests | `AlwaysAnOwner` violated: see below |
| `star_unconfirmed` | 2 datasets, 1 relationship, 1 request at a time | `OnlyConfirmedShapesQueries` violated: see below |

**Bounds.** *Ingestion.* Datasets interact only through the worker's slots and the
passes of recovery, so one is enough. Two jobs with two tries give up to four runs
of a dataset, two of them at work at once, which is what every property is about:
an old run beside a fresh one, and two attempts that overwrite each other. Times
are in ticks, and the smallest that the code's 900 s and 1800 s allow are the
hardest: `JobTimeout = StaleAfter = 1`, the boundary of `TimingAssumption`, where
one tick less would break `RecoverySparesLiveRuns`. `MaxTries = 2` stands for
ARQ's 5. `runAge` stops at `StaleAfter + 1`, since only "stale" is asked of it.
The liveness run has a job more than slots, so that one must wait.

*DatasetStore.* A dataset meets another only through a slug they have one after
the other, so two datasets and one slug are the hard case. One slot of the worker
and one request overlap with each other, with deletes and with the leftovers of
stopped work; each can work on the old dataset while the other works on the new.
Nothing bounds how often a dataset is ingested, cleaned and analysed. Two jobs of
one dataset at once are beyond this run, not beyond the proofs.

*Membership.* A race is between two requests; three people let a third be the
target, or the owner who stays. Two invitations let one be accepted and another
be created. *Sessions.* A second call in a tab is what the single flight is for, a
second tab what it does not see; two tokens allow one rotation or two logins. By
hand, three tokens, hence rotations that fork a session, with a call in each of two tabs
were checked for the safety properties as well: one browser (4.2 million states) and
two (2.5 million).
*WarehouseLock.* Two accesses exhaust a pool of two when both hold a session's
connection; the third is in the other process, where DuckDB's rules differ.
*StarModel.* One dataset is a fact and the other a dimension, each way at the same
time. Each has a slug of its own, used once: that another dataset takes the slug of a
deleted one is beyond this run, not beyond the proofs, which hold for any `SlugOf`.
*Agents.* Two attempts and a cap of three, as two and four in the code; the shapes
of the data offer three specialists or, with the analyst, four: at and above the
cap.

*Algorithms.* Columns of up to three kinds of cells with 1, 19 or 20 of each, on
both sides of the 95 % and 50 % thresholds; two columns out of all 420 kinds; three
tables over three values, each at most twice; two dimensions of three segments
that move by at most 3, of which two are listed; every set of months out of 13,
with the actual calendar; histories of up to seven events with a limit and a window
of two; up to three headers of up to two words, where names are cut: a plain text, a
reserved word, the word for a blank header, and the number 2.

**Fairness.** `Ingestion`: `FairSpec` assumes what runs by itself: time (`Tick`),
ARQ's timeout of a job that has reached its limit (`TimesOut`, part of every ARQ
worker's loop), and the cron job every ten minutes (`RecoveryStep`). `WorkerSpec`
adds that a worker with a free slot takes a queued job. It assumes nothing of a
job at work: any may hang until it is cancelled, or be killed. `WarehouseLock`: an
access that can go on does, one by one (`Proceeds`): the pool hands out a free
connection or times out, Postgres grants what nothing precedes, work in DuckDB
ends by its own timeout. `Sessions`: the server handles a request, the browser is
answered or told that it is not, a call answered 401 goes on. `Agents`: as long as
a request can take a step, some request takes one: every model call has a timeout.
Requests, failures and kills are never fair.

**Deadlock** is checked in the runs of `Ingestion`, `Sessions`, `WarehouseLock` and
`StarModel`: time passes, tokens expire, an access may always start or a dataset be
ingested. In those of `DatasetStore`, `Membership` and `Agents` it is not, since
there the ids, invitations or requests of the instance are used up.

**Mutants.** Every property of a passing run is also run against a mutated
definition, a plausible bug in the code, and must be violated there. The mutated
forms sit beside the definitions they replace, marked "Mutant".

### Where the code and what is said of it differ

Each of the first three is the counterexample of a run; the others were met while
modelling, and the models behave as described.

- *Delete and its successor* (`delete_drops_successor`). `ingestion.py:433-435`: the
  row goes first, so that a failure leaves "recoverable orphans rather than a dataset
  the user can see but no longer use". The slug is free from that moment: an upload
  of the same name can take it before the drops run. In the counterexample it has been
  ingested and is READY when the old delete drops `raw.<slug>`, which by then holds the
  new data: a dataset the user can see and no longer use. (A drop that comes before the
  new tables are there does no harm, and does not count.)
- *The last owner* (`last_owner_lost`). `auth.py:127-131`: a workspace without an owner
  is not "a state this system should ever be able to reach". The owners are counted in
  one statement and the change is committed in another, at READ COMMITTED and without
  a row lock: two owners who demote or remove each other at once each count two.
- *Only confirmed relationships* (`star_unconfirmed`). `db/models/ingestion.py:471`:
  "Only a confirmed relationship may shape a query". A rebuild writes only the views
  of facts that are ready. One that is being ingested again keeps its role and its
  view, with a relationship that was rejected meanwhile, and is queried through it
  when it is ready again. (The model also lets a later dataset take the slug of a
  deleted dimension, whose table the old view then joins; this run has no such upload.)
- *Recovery and live work.* `README.md:275-277`: a second worker "cannot kill
  jobs a healthy first worker is still processing". The *run* of live work is
  indeed never touched (`RecoverySparesLiveRuns`, proved). Its *dataset* is: an
  old run of the same dataset, left by a killed attempt, makes the pass mark the
  dataset FAILED under the retry that is at work, or between that retry's ingest
  and its cleaning, which then refuses.
- *Failures recorded.* `ingestion.py:231`: "recorded on both the run and the
  dataset". A failure inside the final transaction is recorded on neither: the
  handler reads `run.id` after the rollback expired it. Recovery closes both
  later, with a message about an interruption.
- *Ready and finished.* `assistant.py:96-99` accepts READY datasets with
  `cleaned_at` set, and otherwise says to "wait for ingestion and cleaning to
  finish". A re-ingest keeps `cleaned_at` and sets READY before it cleans: until
  then, and for good when cleaning fails, the columns have no profile and no role.
- *Used once.* Two rotations of one refresh token that overlap both read it as live
  and both succeed, so one token yields two. `OneLivePerLogin` excepts what is left by
  a rotation over a token that was no longer live.
- *The theft alarm.* Presenting a revoked token revokes every session of the user. Two
  tabs that refresh at once, an answer lost on the way, or a token swept by a role
  change are enough; `AlarmHasCause` says that nothing less is. The web client never
  calls `/auth/logout`, and the late answer to a refresh undoes a logout.
- *Column names.* `test_ingestion.py` says of the naming rule and the warehouse's
  validator "The two rules must agree, or ingestion fails on legitimate files". Names
  are cut to 120 characters and made unique afterwards, and the validator refuses
  more than 120: two headers that agree in the first 120 make every ingestion of the
  file fail. `NamesStayApart` excepts exactly this. (A header of more than 300
  characters fails too: the rename looks for the cut name.)
- *DuckDB's refusals.* An access that holds the advisory lock can still be refused:
  by the first open, which takes no lock; by a thread that outlived its cancelled
  access; and, in one process, by a plain reader beside a sandboxed one, which differ
  in configuration. `RefusalHasCause` says that there is no other cause.
- *Conversations.* The two messages of an exchange have the same `created_at`, that of
  the transaction, so their order is not determined by it. Exchanges do not mix
  (`WholeExchanges`). The inserted question also holds the dataset's row against
  deletion until the model has answered.
- *Briefings.* `plan` says that it "Falls back to running everything available", but at
  most four run. A failure to synthesise, or a delete meanwhile, loses all findings.
- *Semantics.* The customer and order keys are found by tag alone, so a column that is
  ignored or a dimension may be counted as customers. "The most recent complete
  period" of a growth metric is the latest one, complete or not.
- *Cleaning.* A column that becomes BOOLEAN can still be reported as "left as text".
- *Contribution.* The riser and the faller are looked for among the listed segments
  only, so an offsetting pair below the cut is not told.
- *Rate limit.* A fixed window lets through up to two limits around its boundary, and
  a login that succeeds clears the counter at once; `LockoutsEnd` bounds what is let
  through since the last success by two limits.
- *Star views.* Joined columns are called `{dimension}_{column}`, which may coincide
  for two dimensions, and then the view cannot be created. A dimension that is busy
  at a rebuild drops out of the view, while its columns are offered again as soon as
  it is ready; `PromptMatchesTable` speaks of settled models.

## 4. Proofs

### Ingestion

`IngestionProofs.tla` proves, for all finite or infinite sets of datasets, jobs
and clean requests, any number of tries and slots, and any times with
`JobTimeout <= StaleAfter`:

| Theorem | Property |
|---|---|
| `TypeCorrect` | `TypeOK` |
| `NothingIsStranded` | `AnalysingHasRunningRun` |
| `LiveRunsAreSpared` | `RecoverySparesLiveRuns` |
| `ReadyFollowsSuccess` | `ReadyWasIngested` |
| `OutcomesAreFinal` | `FinishedRunIsFinal` |
| `IngestionImplementsLifecycle` | `ImplementsLifecycle` |

All rest on `IInv` (`Init => IInv`, `IInv /\ [Next]_vars => IInv'`), whose parts
are:
- `TargetsExist`, `AttemptsInOrder`, `RunsHaveDatasets`: a run row belongs to an
  attempt that was made, of a dataset that exists, and the row of the current
  attempt is written once.
- `LiveRunsAreYoung`: the run of an attempt at work is exactly as old as the
  attempt, because `started_at` is the start of the transaction that began it.
  With `age <= JobTimeout <= StaleAfter`, it is not stale. This is the docstring's
  "anything older than the job timeout is dead by definition", made precise.
- `ColumnsCameFromARun`: columns are left only by a success, and a cleaning under
  way has them.
- `PassIsSound`: what a recovery pass holds. `AnalysingHasRunningRun` alone is not
  inductive: the pass fails runs in one step and datasets by what it read before
  it. The part that saves it: a dataset that the pass has read and that is
  ANALYZING now is either staged or has a running run that is not in the scan.

The refinement maps `status` to `shown`, `run` to `ledger` and the owner of
each run to `owner`; each action maps to one abstract step or to a stutter, by
the same invariant.

### DatasetStore

`DatasetStoreProofs.tla` proves, for all sets of datasets, slugs, worker slots and
requests (`NamesAssumption`: the null values are not among them, jobs and
requests differ):

| Theorem | Property |
|---|---|
| `StoreTypeCorrect` | `TypeOK` |
| `CleanedKeepsItsTable` | `CleanedHasTable` |
| `KpisStayOwn` | `KpisAreOwn` |
| `DeletedDataIsGone` | `DeleteLeavesNothing` |
| `SettledStaysConsistent` | `SettledIsConsistent` |

The properties speak of rows and tables; what carries them is what the work in
between may rely on. `RowsAreBacked` says what a row claims of its tables,
`WorkIsBacked` what a job or request claims at each stage: that it loaded the raw
table or saw columns, that it built the clean one or saw `cleaned_at`. These are
the guards of the code, seen as promises that must survive until the next step.
They do because slugs of existing datasets differ (`NamesAreTaken`) and because
whatever a deleted dataset's work still does is remembered in `haunted`.
`DroppedIsGone` keeps data under the slug it came with. Two frame lemmas,
`WorkMoves` and `RowChanges`, cover the steps that touch no table.

A second part of the module proves `SettledStaysConsistent` (`SettledIsConsistent`): after a
cleaning beside which nothing else worked on the dataset, its record, table, profile
and KPIs describe the same data. The invariant follows the cleaning through its
stages, on top of `IInv`: `AloneIsAlone`, work marked as alone has its dataset to
itself; `AloneIsTold`, what it has read, built and committed so far agrees;
`SettledStays`, a settled dataset agrees and no other work on it holds a record or
numbers that could undo that.

### WarehouseLock

For any accesses, processes and pool sizes, `RefusalsHaveCauses` and
`WarehouseIsReadersWriters`. The invariant is that no two accesses that hold the lock
conflict (`HoldersAgree`); both follow, the refinement because entering the abstract
room is opening the file under the lock. The queue stays out of the induction:
removing an element from it is a recursive definition, so that part of `TypeOK` and
the order of grants rest on TLC's run for `AccessesEnd`.

### Membership

For any users, requests, invitations and set of roles with owner and admin:
`MembershipTypeCorrect`, `OwnerIsKept`, `InvitationsAreUnique`,
`OwnersDecideOnOwnership`, `InvitationsAreUsedOnce`. The strengthening says what a
request may still rely on: `RequestsAreCurrent`, as long as it is not marked stale,
the roles and the number of owners that it read are the present ones (that is why
the two counts suffice without a race); `InvitationsExist`; `NothingBeforeFounding`.
`OwnersDecideOnOwnership` needs to know of stale requests too: `AuthorityIsRead` says
that what `ReadTarget` has checked stays true of the roles it read, whatever commits
in between.

### Sessions

For any tabs, browsers, calls and number of tokens: `SessionsTypeCorrect`,
`RotationReplaces`, `AlarmsHaveCauses`. `LoginsAreIssued` and `HeldAreIssued` keep
tokens that are on their way apart from those still to be issued. `Unexcused`
carries the third: as long as nothing has happened that excuses the alarm, a token
is held by one place only (the browser that stores it, a refresh that sent it, or an
answer that brings it), and a revoked one has been replaced wherever it was held.

### StarModel

For any datasets, slugs and relationships: `StarTypeCorrect`, `OnlyAgreedIsJoined`,
`RebuildLeavesDecisions`, `PromptsAreAccurate`, `DecisionsAreKept`. Added to the
properties are `SlugsAreDistinct`, `AgreementsAreKnown` (what is confirmed has been
agreed to) and `RequestsAreCurrent`: a rebuild that is still alone holds the present
datasets and decisions, and the views it has written are those they define.

### Agents

For any questions, briefings and conversations, any number of SQL attempts, any cap
on specialists and any shapes of the data that the cap suits (`CapAssumption`: every
specialist but the analyst fits, as four do in the code):

| Theorem | Property |
|---|---|
| `AgentsTypeCorrect` | `TypeOK` |
| `ExchangesAreWhole` | `WholeExchanges` |
| `AnswersAreGrounded` | `GroundedAnswers` |
| `UsageIsRecorded` | `UsageRecorded` |
| `BriefsCoverTheFleet` | `BriefCoversFleet` |

The properties speak of what is stored, and a row is a copy of what its request has
become. So the invariant says of a request under way what will be true of its rows:
`RequestsConsistent` ties the analyst's state to its log of attempts (`Grounded`: all
before the last were rejected, the last one's fate is told by the state) and the calls
made so far to the usage recorded and still to be reported (`Briefed`). `AnswersAgree`
and `BriefsAgree` say that the request of a stored row is over and its analyst at
rest, so that nothing can invalidate the row afterwards. `Pairs` and `Stamped` carry
`WholeExchanges`: two rows a question, with one time, that no other question has. That
a briefing stays within the cap is a fact about ranks in a finite roster
(`FirstOfSize`), for the code takes the first so many of a list.

### The algorithms

`AlgorithmsProofs.tla` proves the promises for inputs of any size, where the run
enumerates the small ones:

| Theorem | Property | For every |
|---|---|---|
| `CleaningKeepsItsWord` | `CleaningIsFaithful` | column, whatever its cells and their counts |
| `MetricsAreMeaningful` | `SumsAreMeaningful` | sequence of columns |
| `ProposalsAreSafe` | `ProposalsKeepRows` | sequence of tables over a finite set of values |
| `CausesAreAlwaysEarned` | `CausesAreEarned` | sequence of dimensions, with integer movements |
| `LockoutsAlwaysEnd` | `LockoutsEnd` | history of events |
| `NamesAlwaysApart` | `NamesStayApart` | sequence of headers, of any length |
| `ForecastsKeepToTheCalendar` | `ForecastFollowsCalendar` | set of months, and every horizon |

The algorithms add up over finite sets and repeat themselves along sequences. The
library's induction theorems take an operator as a parameter, which the provers cannot
instantiate; its well-founded sets (`WFMin`) need none. From them the module derives a
least counterexample (`LeastNumber`), and from that induction over numbers and finite
sets stated with sets in place of operators, that a recursion along a sequence has
a function that follows it (`Recursion`), and that `SumFunctionOnSet` may be taken
in any order (`SumWithout`, `SumSplits`, `SumGrows`).

What the proofs turn on. *Cleaning*: where a column is converted, the values that do
not fit are those outside the kind that reached the threshold; `MixedUpper <=
Coercion`, both 95 % in the code, is what keeps a column called "left as text" from
being one of them. *Relationships*: a key occurs once, so every join of what is
proposed copies a row once (`JoinsCopyOnce`), and the ranking is total, so a best
proposal stays. *Contribution*: a segment holding more than half of the gross
movement outweighs the others together, and the ranking by concentration is a total
order. *RateLimit*: every moment of a history has a story (`EveryMomentHasStory`): the
two windows that may overlap the last one, what each has let through, and the ticks
since. *Naming*: one try more than there are names finds a free one (a pigeonhole),
and what is free differs from all before it; a suffix is added only to a candidate
that is taken. *Forecast*: the rank of a month is its place in the history
(`NthIsRanked`), so months that follow one another become gaps next to one another
(`NextRank`, `StepsAreGaps`); a median lies where most of the numbers lie
(`MedianFollowsMost`); and a month has 28 to 31 days, three in a row 88 to 95
(`QuartersAreLong`), all within what the code takes for a month or a quarter and never
for another. Of the calendar nothing else is used, so the rule for centuries, which
`DaysIn` leaves out, makes no difference.

### Not proved

- The liveness properties `AnalysingSettles`, `RunsClose`, `QueuedJobsRun`, `CallsSettle`,
  `AccessesEnd` and `RequestsEnd`: they rest on fairness, hence on `ENABLED`, which
  the prover does not handle. TLC checks them under the fairness section 3 justifies.
- The queue of `WarehouseLock`, that part of its `TypeOK` and the order of grants:
  taking an element out of a sequence is a recursive definition.
- `DeleteSparesSuccessors`, `AlwaysAnOwner` and `OnlyConfirmedShapesQueries`: the
  code violates them, and TLC shows how.

## 5. Not modelled

- Contents of files, tables, prompts and messages; logging; charts; pages of the web
  application: no property here is about them.
- The upload source and stored objects of `register_upload`: a lost race for the
  source rolls the session back before anything else is in it, and an object whose
  upload then fails stays behind; nothing reads it.
- Row-level security: Postgres enforces it; the code applies one setting at every begin.
- The numerics of `ml/` and the quality score: floating point over whole columns.
- `sqlguard`'s parsing of queries: its verdict is a choice in `Agents`.
- ARQ, Redis, Postgres, DuckDB, SQLAlchemy and asyncio, except as the definitions
  marked external in the project's map state them.

What could follow: versions of the data in `Agents`, to say which one a briefing
saw; an abstract specification of `DatasetStore` in which a dataset shows one version
of its data at a time, with the places where it fails.
