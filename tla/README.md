# Verification of newtine-backend

TLA+ models of the backend's stateful core, the TLC runs that check them on
small instances, and TLAPS proofs of what matters most for every instance.
Source paths are relative to the repository (`src/`).

    tlc -config PipelineZombie.cfg MCPipelineRun
    tlc -config Requests.cfg MCRequests
    tlapm PipelineRunProofs.tla

## 1. The system

newtine-backend turns news into issue cards. An operator starts *pipeline
runs*; a batch worker searches articles, lets a model propose issues, and
produces and publishes the content of each. Members browse a feed, act on
issues, and once a week request a *diagnostic report*, which a second worker
writes. PostgreSQL is the only shared state and there is no message broker:
workers poll, and every interaction between components is a row that one of
them writes and another one reads later. The API answers members from the same
rows, in several statements and mostly without a transaction around them.

| Component | Code | State | Operations | What makes it hard | What makes it correct |
|---|---|---|---|---|---|
| Pipeline run and content jobs | `libs/core/src/pipeline`, `apps/batch/src/pipeline/pipeline.worker.ts` | `pipeline_runs`, `issue_content_jobs`, `issues.publication_status`; the worker's memory of its run | enqueue, retry, interrupt; claim, discover, register, claim job, save success or failure, complete, fail | the process acts on what it read; dies anywhere; an operator may be wrong about its death; jobs outlive attempts | one active run; one process per attempt; publication and job success agree; nothing is forgotten; the slot is freed |
| The double of its tests | `libs/core/src/pipeline/repository/inMemoryPipeline.repository.ts` | the same in maps | the same | its guards are written a second time | it is the same gate |
| Embedding tasks and repair | same repository, `pipeline.embeddingRepair.job.ts` | `issue_embeddings`, `issue_embedding_tasks` | save, mark pending, claim, fail, release, requeue | two writers of one vector; a repair process that was declared dead and is not; SIGTERM between tasks | vector and task agree; no claim is left behind; every issue gets its vector |
| Diagnostic report | `libs/core/src/report`, `apps/batch/src/report/report.worker.ts` | `weekly_reports`; executions and their leases | request, retry, claim with sweep and recovery, capture, heartbeat, complete, fail, read | leases, stale clocks, executions that survive their deadline, account deletion, withdrawal | exclusive claims; fixed candidates; one delivery from public sources; bounded attempts; it ends |
| Report usage ledger | `libs/core/src/usage` | `ai_usage_records` | begin, finish | answers that come late, finish that fails | no call without a row; known results are kept; no row stays RUNNING |
| Authentication | `libs/core/src/auth`, `apps/api/src/auth` | `users`, `refresh_sessions` | sign up, log in, rotate, log out, delete account | rotation, reuse and deletion interleave statement by statement | one successor per token; reuse revokes; no session without an account |
| Interest and onboarding | `libs/core/src/interest`, `libs/core/src/onboarding` | events, views, contributions, preferences | act, open a view and report its progress, complete onboarding, list and analyse likes | the choice is not stored but derived from sums that other requests change | the derived choice is the one made; the ledger is what the history says |
| Feed, recommendation, cards | `apps/api/src/issue` | `feed_sessions`, `feed_batches`, `feed_batch_items` | first page, next page, choice of a batch, read of the candidates | a batch is computed before any lock; the candidates come from six queries | one feed without repeats; an honest verdict on what is left |
| Rate limiting | `apps/api/src/common/middleware` | in-memory buckets | allow, reject, clean up, evict | capacity and window boundaries | an eviction renews no allowance |
| Batch file stages | `apps/batch/src/{collection,discovery,generation,validation,preparation}` | a table of runs per stage, `news_issue_search`, terms, tracks | claim, resume, save the snapshot, complete, fail, prepare | owners believed dead; an index rebuilt beside a run; runs of several days | saved work stays; each stage follows its source; the follow-up windows leave no gap |
| Providers | `apps/batch/src/pipeline/*.provider.ts` | none | search, fetch, model calls | redirects, several addresses, time limits, sizes | every request goes to a checked address; no connection is left open |
| Schema migrations | `libs/core/src/pipeline/migrations` | the tables themselves | up | data written by several versions of the program | no meaning and no weight is lost |
| Runner, HTTP surface | the rest | none | | | |

## 2. Modules

| Module | What it is |
|---|---|
| `PipelineRun` | runs, jobs, publication and worker processes, one action per statement that changes them |
| `PublicationGate` | abstract: what readers of issues are promised |
| `InMemoryPipeline` | the double of the repository that the tests use, against the same gate |
| `EmbeddingTask` | embedding tasks, the worker that publishes, and repair processes |
| `ReportLease` | reports, usage rows, executions and report workers |
| `ReportPromise` | abstract: what a member is promised about a report |
| `ReportContent` | candidates, draft, stored content and answer of a report, under withdrawal |
| `AuthSession` | one account, its refresh sessions, and the locks of its transactions |
| `MemberInterest` | events, views, contributions, weights and the choice of onboarding |
| `OnboardingRead` | the GET of that choice, statement by statement |
| `LikedIssues` | the pages and the analysis of liked issues |
| `FeedSession` | one feed session and the requests for its batches |
| `CandidatePool` | the queries for the candidates of a batch |
| `Recommendation` | the choice of a batch by both versions of the algorithm |
| `Ranked` | sequences by rank, and loops: what an ORDER BY with a LIMIT, a filter, a Map and a `for` with a running state give |
| `RateLimit` | token buckets in a store of bounded size, and both middlewares |
| `NewsStages` | discovery, collection, generation, validation and preparation |
| `ArticleFetch` | the search for articles and the fetch of one |
| `CategoryMigration` | the migration from category ids to codes |
| `MCPipelineRun`, `MCReportLease`, `MCOnboardingRead` | symmetry and constants for TLC |
| `MCPublicationGate` | `PipelineRun` and `InMemoryPipeline`, the two implementations of the gate, in one run |
| `Services` | eight parts that read or work for all members (run `services`) in one specification: an execution is that of one part |
| `MCServices` | its constants for TLC |
| `MCRequests` | sessions, interests and feeds in one run in the same way |
| `PipelineRunProofs` | theorems about `PipelineRun` and `InMemoryPipeline` |
| `ReportProofs` | theorems about `ReportLease` |
| `EmbeddingTaskProofs` | theorems about `EmbeddingTask` |
| `MemberProofs` | theorems about `AuthSession`, `FeedSession`, `MemberInterest` and `CategoryMigration` |
| `NewsStagesProofs` | theorems about `NewsStages` and `ArticleFetch` |
| `RequestProofs` | theorems about `RateLimit`, `LikedIssues`, `CandidatePool` and `ReportContent` |
| `ServicesProofs` | theorems about `Recommendation`, and about `Services` |
| `SetLemmas` | what all of these need of least elements, ranks in an order, sums, loops and recursive functions |

The parts that `MCPublicationGate`, `MCRequests` and `Services` put together share no row that
their properties are about, so their state spaces add up and are not multiplied:
the variable `part` says at the start whose execution it is, and all others keep
their initial state.

The definitions called "Faulty variant" are the plausible bugs used to test the
properties. No specification refers to them.

### PipelineRun

| Variable | Code |
|---|---|
| `run` | `pipeline_runs`: status, attempt, execution_id, retry_scope. ABSENT is a run nobody has enqueued |
| `job` | `issue_content_jobs`: run, status, failure_kind, attempt. `registerIssue` is the only insert of an issue and of a job, so an issue, its normalised title and its job are one |
| `pub` | `issues.publication_status` |
| `worker` | the locals of `processRun`, `processQueuedJobs` and `processJob`: which run, attempt and execution, what is still to do |
| `nextExec` | fresh execution ids |

Each action is one transaction of `MikroOrmPipelineRepository` together with
what the worker does until its next statement: `Enqueue`, `Retry`, `Interrupt`
(operator); `ClaimRun`, `Classify`, `SkipCandidate`, `RegisterIssue`,
`EndDiscovery`, `ListJobs`, `ClaimJob`, `JobError`, `SaveJobSuccess`,
`SaveJobFailure`, `RunError`, `FailRun`, `CompleteRun`, `Crash`, `Restart`
(worker). `Withdraw` is external: the code reads WITHDRAWN and never writes it.

`SaveJobSuccess` may be followed by a failure of the same job, because the
embedding runs after it inside the same try block. Withdrawal of a draft is
allowed: `retry` refuses failed jobs of withdrawn issues, and a failed job's
issue was never published. `Crash` also stands for a graceful stop, which leaves
the run RUNNING in the same way.

Abstracted: stages, counters and error texts (never read by a guard);
the order of jobs (any); the candidate's content; the four failure kinds of the
worker, which no guard tells apart. An empty selection of failed jobs stands
for an absent one.

### ReportLease

| Variable | Code |
|---|---|
| `report` | `weekly_reports`: status, attempt_count, lease_token, retryable, candidates, content, and `elapsed` |
| `usage` | `ai_usage_records` of reports, by claim and number of the provider call |
| `public` | whether all input issues of a report are PUBLISHED |
| `exec` | the promise of `processClaim` of each claim, which may outlive the worker's interest in it |
| `worker` | the poll loop: idle, waiting for its execution, recording a failure, down |
| `nextToken` | fresh lease tokens |

Time is the flag `elapsed`: each status compares exactly one timestamp
(QUEUED: next_attempt_at, RUNNING: lease_expires_at, FAILED: the cooldown after
updated_at). `Elapse` may set it at any moment, so every duration is covered.
The worker passes a `now` taken before its statement runs, so a statement that
requires a live lease may be refused *or* pass once the lease has run out;
`beginReport` asks the database and is exact. An execution that was given up at
the deadline (`dropped`) still runs to its next look at the abort signal,
exactly where the code looks: it may capture candidates, begin a call, or
complete the report. A heartbeat sent during a call may arrive after it.
A reply may be lost after commit in `Capture`, `BeginCall` and `Complete`.

Abstracted: what is written, the ranking of candidates, candidates withdrawn
between the two looks, limits on the size of a request, the four-week window of
a retry (they only refuse requests, and requests are never assumed to be made).

### InMemoryPipeline

The tests of the worker and of the repair job run on this double, so that they
show of the program only what both repositories have in common. One call is one
step, because no method awaits anything. A caller is known by the ticket or
token that it got from a claim and may make any call with it at any time: the
order in which the worker makes them is not relied on. Usage rows and articles
are left out.

### EmbeddingTask

| Variable | Code |
|---|---|
| `pub`, `task`, `vec` | `issues.publication_status`, `issue_embedding_tasks`, `issue_embeddings` |
| `queue` | the tasks in the order of `updated_at`, which a claim follows and every update changes |
| `call` | the embedding call of the worker that published the issue |
| `proc` | the loop of `pipeline.embeddingRepair.job.ts`: its batch, the task in hand |

`Publish` creates the task in the transaction that publishes. The worker saves
without a claim, a repair process with its token. A process may die, be told to
stop, or be named as dead by an operator who is wrong (`trouble` counts these).
A vector is either that of the content or none: a vector of another model or
dimension is refused before it is stored. Left out: attempt counts and the stored
count of pending tasks, which are only displayed.

### AuthSession

A token and its session are one value. A rotation is one action per statement,
at READ COMMITTED: the owner is looked up without a lock, the user is locked FOR
KEY SHARE, the session FOR UPDATE, and the UPDATE that revokes all sessions after
a reuse comes to its rows one by one, waits for those that another transaction
holds, and looks at them again. `Abort` stands for a lost connection, a lock
timeout and a deadlock that PostgreSQL ends. The UPDATE does not see a session that
a rotation or a login commits after it began, and such a session stays active:
the model lets this happen, and `ReuseRevokes` says that it is the only way. The
history in `made` names the sessions that were issued before the UPDATE began;
of these none is active when it commits. The documents promise more (section 6).

### MemberInterest, OnboardingRead, LikedIssues

Every write locks the row of the member, so that one transaction is one action.
Scores are halves, times units of the dwell limits. `chosen` is the history
variable: the code stores no choice, only weights, of which the contributions
must be subtractable again. The category of an issue is a constant, since a
published issue is not saved again. `OnboardingRead` adds the two statements of
the GET, which have no transaction; `LikedIssues` the pairs of queries behind a
page and an analysis, each with a state of its own.

### FeedSession, CandidatePool, Recommendation

`FeedSession` is the protocol of `IssueFeedService`: read the session, then the
batches, then the candidates, and save under the lock of the session row. A
request keeps the row as it read it. What is picked is left open within what
`Recommendation` guarantees, and what may be picked within what `CandidatePool`
guarantees; these two are modelled in full. The searches of version 2 may stop
at any time: when their budget is spent depends on lengths out of proportion to
a small instance. An issue that is withdrawn between its selection and the load
of its row shortens a pool within the budget: this is why `FindsAll` speaks of
issues that are candidates throughout. That version 1 says CONSTRAINT_LIMITED is
not exhaustive and nothing is claimed of it.

### RateLimit

Time is in ticks, tokens in fractions of the window, so that refills are exact.
The clock does not go back. `due` counts what each bucket would hold in a store
that drops nothing, but for what is written off: all that a bucket lacks when as many
others as the store holds have been used since, or when a cleanup finds it idle.
Window and idle time are read from variables of their own (by default 60 s and
120 s) and the configuration does not compare them, so that a bucket may be idle
before its window is over. `IdleGivesLittle` bounds what this gives away: the refill
of the time by which the idle time falls short of the window.

### NewsStages, ArticleFetch

Each stage has a table of runs; a process claims a run, works in memory, and saves
the whole snapshot after every external call. A row that has not been written to
for five minutes may be taken from a process that is only slow (`stale`), and the
slow one goes on until a write refuses it. The day of a discovery is taken before the
claim waits for its lock, so that it may be over by then (`ClaimDiscovery` takes any
day that has begun; `late` remembers that one was claimed after its day). Discovery groups are computed again by
a retry and terms are cut at the first visit of an execution. The partial unique
indexes of the running rows stand behind `OneRunPerStage` as well. Left out: the
catalog of known titles, prompts, usage files, and the legacy mode of validation.
`ArticleFetch` leaves every choice to the network; TLS, headers and the parsing
of HTML are reduced to lengths.

### ReportContent

One execution follows the other here, since `ReportLease` covers who may write.
Prose, byte limits and more than one embedding model are left out; summaries are
well formed, which a constraint of their table demands. An answer that asks for
no issue still looks: its query is sent with an empty list.
What the queries and sorts choose is stated by rank (`Ranked`): the first `n` of a
set are those that fewer than `n` come before.

### CategoryMigration

The statements run in one transaction, so that the migration is one step, made of
the statements in their order. Its initial states are every combination of old
rows (codes, ids or both, duplicates, contradictions) that earlier versions could
leave within the bounds. Foreign keys of other tables to the code column are left
out; names and orders are only those of the catalog.

## 3. Runs

| Run | Instance | Distinct states | Shows |
|---|---|---|---|
| `pipeline_zombie` | 1 run, 2 issues, 2 processes, 3 attempts, 1 issue per discovery, careless operator | 283,964 | fencing, consistency of runs, jobs and publication |
| `pipeline_gate` | 2 runs, 1 issue, 2 processes, 2 attempts, careless operator; or 2 runs, 2 titles, 2 claims, 2 attempts of the double | 263,842 | one active run; the pipeline and its double both refine `PublicationGate` |
| `pipeline_operator` | 1 run, 2 issues, 2 processes, 2 attempts, careful operator, fairness | 18,923 | a live execution is left alone; every run ends |
| `worker_closes_its_run` | 1 run, 1 issue, 1 process | violation | section 6 |
| `interrupt_never_succeeds` | 1 run, 1 issue, 1 process | violation | section 6 |
| `report_zombie` | 1 report, 2 workers, limits 1 and 2, both provider calls | 763,401 | fencing under stale clocks and dropped executions |
| `report_attempts` | 1 report, 1 worker, limits 2 and 3, one provider call | 801,466 | limits, table constraints, refinement of `ReportPromise` |
| `report_liveness` | 1 report, 1 worker, limits 2 and 2, one provider call, fairness | 23,128 | reports and usage rows end |
| `embedding_repair` | 2 issues, 1 of them refused for ever, 2 repair processes, batches of 1, 1 disturbance, fairness | 54,224 | vector and task agree; claims end properly; an issue is embedded in the end |
| `requests` | see below | 443,689 | concurrent requests of one account |
| `services` | see below | 1,531,429 | stages, fetch, reads over several queries, rate limiter, migration |
| `torn_onboarding_read` | 1 issue, 2 categories, 1 reader | violation | section 6 |

`requests` holds three parts: `MemberInterest` (2 issues, 2 event ids, 2 views, 2
categories), `AuthSession` (3 tokens, 2 requests, 1 login) and `FeedSession` (4
issues of 2 topics, 2 clients, batches of 2). `services` holds eight: `NewsStages` (2
processes, 2 days, 2 claims), `Recommendation` (pools of up to 6 issues of 5
kinds, from two run states, and one whose fullest batch needs a slot to be taken from
one issue and given to another), `CandidatePool` (6 issues, 2 changes during a read),
`LikedIssues` (3 issues, 3 acts), `ReportContent` (7 issues, 2 executions, 2
withdrawals), `RateLimit` (3 ticks, a window of 2, an idle time of 1,
cleanups every 3, 3 keys), `ArticleFetch` (3 addresses, 2 hops)
and `CategoryMigration` (2 old categories, 2 preferences).

Bounds. `MaxAttempt` and the number of issues bound `PipelineRun`; two
processes are enough for every race between an old and a new execution, three
attempts for a job that is skipped by one retry and met by the next. Two runs
are needed only where the slot is contested. The limits 3 and 5 of the report
are scaled down but keep their roles: an attempt that is repeated by itself, one
that must be asked for, one that is the last. Two requests are enough for the
races of `AuthSession` and `FeedSession`: each statement conflicts with one other
transaction at a time; the third token is the successor of a successor. In
`EmbeddingTask` batches of one make the refused issue stand in the way of the
other one, and one disturbance makes a zombie of either process. Two days are
needed for a run that fails and is resumed after that of the next day; one of the
initial states of `NewsStages` (day 1 failed, day 2 complete) leads there with the
claims that the bound allows. `MaxEvents` lets the index be rebuilt once beside it. The idle
time of `RateLimit` is shorter than its window, so that a cleanup may come too early. In `services` the bounds on changes
(`MaxChanges`, `MaxShifts`, `MaxActs`) allow something to happen between each two
queries, and the limits of the queries (`PoolLimit`, `PerSource`, `PerCategory`,
`PageSize`, `MaxKeys`) are so small that they cut something off. Deadlock checking
is off (but not in `embedding_repair`) because at the bounds everything has ended
and nobody has anything left to send.

Fairness. `PipelineRun`: an awake worker goes on (every await in it is bounded
or throws), polls again, is restarted by its platform, and the operator
eventually clears a run whose execution is gone, which the documents make the
operator's duty (there is no lease). `ReportLease`: time passes, an execution
reaches its next await, workers poll and are restarted, and a poll eventually
sees all that has expired because clocks advance. `EmbeddingTask` (`FairSpec`):
a repair process goes on, the command is run again, an operator names those
that died, and provider and database do not refuse a `Lucky` issue for ever.
Nothing is assumed about operators who retry, members, withdrawals, other issues
or crashes. The other modules state no liveness: what they model ends
with its request, or is asked for again by a client or a schedule that the code
does not contain.

## 4. Properties

`PipelineRun`: `OneActiveRun` (the only lock of the pipeline), `SoleExecution`
and `Ownership` (why it is safe that `registerIssue` checks the attempt and not
the execution), `RunAgreesWithJobs`, `PublishedIffSucceeded`, `NoForgottenJob`,
`WorkerLimits` (one job at a time; at most `maxNewIssues` per attempt, although
each process counts for itself); never: `OnlyOwnerWrites`, `SettledJobFrozen`,
`WithdrawnStays`, `InterruptSparesLive`; eventually: `ActiveRunEnds`; and the
refinement `GateSpec`. `InMemoryPipeline`: `DoubleIsGate`, the same refinement.

`EmbeddingTask`: `VectorIffSucceeded`, `NoClaimLeftBehind`; never:
`ClaimEndedByOwner`; eventually: `EventuallyEmbedded`, which needs the order of
the queue.

`ReportLease`: `ExclusiveClaims`, `ChecksNeverFire` (the CHECK constraints of
the table), `NoStrandedReport`, `ContentFromSnapshot`; never: `SnapshotFixed`,
`KnownUsageKept`, `DeletedStaysGone`; eventually: `ReportEnds`, `UsageEnds`; and
the refinement `PromiseSpec`.

`AuthSession`: `SessionsSound` (one successor per token, no session without an
account); never: `ReuseRevokes` (a reuse leaves no session active that was issued
before its UPDATE began). `MemberInterest`: `LearningSound` (the choice is
derivable, the ledger is what the history says). `FeedSession`: `FeedSound` (no
issue twice, no third of a topic over the seams of batches, one answer per batch).

`ReadsSound` joins what several queries read together: the pool holds all that
was a candidate throughout and something of every slice; the batch fills as many
places as any assignment could and says truly whether more is left (compared with
every assignment and every order); a walk over the pages of likes
misses nothing and repeats nothing; the candidates of a report are the best of
all that is eligible in spite of the row limits, what is accepted is storable, and
an answer shows nothing that was withdrawn before. Each of its parts has a mutant of its
own: `isAfterCursor` for the likes, `RowsOfCategory` for the report, `SliceLimit` for
the pool, `TryAssign` and `ContinuationV2` for the batch.

`NewsStages`: `StagesSound` (one run per stage, each follows its source, the index
is that of the collection's own time, follow-up windows leave no gap, and overlap
only after a late claim, what passed is clean); never: `SavedWorkStays` (no saved
answer is lost or replaced, and the time of a followed issue does not go back). `ArticleFetch`:
`FetchSound`. `RateLimit`: `LimitHolds` (capacity, allowances
kept through evictions, and little given away by cleanups). `CategoryMigration`: `MigrationHolds`.
`Services` looks at each conjunct of `ReadsSound` only in the executions of its
own part, since the variables of the others stand still.

Each has a mutation of the code, in PROJECT.json, under which TLC finds it violated.

## 5. Proofs

Each module has one assumption on its constants, and the theorems hold for
every number of runs, issues, processes, reports, workers, attempts, provider
calls, tokens, requests, batches, addresses, servers, preferences, likes and
issues of a report. What
the assumptions ask: limits are natural numbers in the right order; null
references are not values; issues, views, titles, stories, preferences and the
catalog are finite sets;
`PoolLimit >= 5` in `CandidatePool` (the code bounds the budget by 10 from below,
`issueFeed.service.ts:38`); and in `ReportContent` that the limits on the rows
that are read (10 for a source, 50 in all, 10 for a category:
`mikroOrmReport.repository.ts:540`, `:543`, `:571`) are at least the 5 related,
and the 5 related and 5 major issues, that are chosen from them.

**`PipelineRunProofs`.** `TypeOK` is inductive on its own (`TypeCorrect`).

* *Who may write.* `OwnershipInv` is `TypeOK`, `Ownership`, `SoleExecution` and
  `OneActiveRun`. None of the last three is inductive alone: that two processes
  never have the same attempt follows from what each of them remembers of the
  row, and that in turn from the row being the only active one. Lemma
  `QuietSteps` says that only enqueue, retry and claim hand out identities, so
  that they are the only steps to look at. Lemma `ChecksFence` turns the check
  of the attempt that `registerIssue` and `claimQueuedJob` make into possession
  of the run, although they do not compare the execution; `OnlyOwnerWrites`
  follows. `InterruptSparesLive` holds when the operator only interrupts what is
  dead (`OperatorConfirms`).
* *What is published.* `ContentInv` (`JobRows`, `PublishedIffSucceeded`,
  `NoForgottenJob`, `RunAgreesWithJobs`) is inductive relative to
  `OwnershipInv`: a run that ends counts its jobs in the same transaction, and
  nobody but its owner touches them afterwards. `SettledJobFrozen` and
  `WithdrawnStays` follow.
* *Refinement.* `GateSpecCorrect` proves `GateSpec`. The
  slot of the gate is that of the active run, which is unique by `OneActiveRun`
  (`SlotOfRun`). Each action of `PipelineRun` is an action of the gate or a stutter:
  admission by enqueue and retry, start by a claim, the end by interrupt, failure
  or completion, a draft by a registration, a publication by a success. `OwnerHasSlot`
  is the step from the tests of the code (attempt, job status) to the guard of the
  gate, which asks for the live holder of the slot.
* *Limits.* `JobBudget` bounds a cardinality by counters that each
  process keeps for itself, and is not inductive. `Budget` says that the allowance of
  an attempt is either unused, or used up as far as the counter of the process that
  executes it says; two processes cannot both have one, by `SoleExecution`.
  `OneInProgress` says that a job in progress is in the hands of the executor of its
  run. Together they give `WorkerLimitsCorrect`.
* *The double.* `DoubleIsGateCorrect` proves the same refinement of
  `InMemoryPipeline`. `DoubleInv` says that the tickets agree with the runs they were
  given for (`TicketsAgree`): a queued run is of a later attempt than every ticket,
  so the check of the attempt in `registerTitle` is enough, although it does not look
  at the execution. `TasksOfJobs` and `PendingCounts` say that the count of pending
  embeddings is that of its tasks.

**`ReportProofs`.** `TypeOK` is inductive on its own. Two lemmas carry the
rest: `RowSteps` lists the nine things that one step may do to one row of
`weekly_reports`, and `ExecSteps` says that a step which is not a claim lets an
execution go on or end with its identity. Everything below is proved from these
lists and not from the actions again.

* *Rows.* `RowsInv` adds to the constraints of the table that an execution past
  `Capture` holds the candidates of its report, unless the report is deleted
  (`Candidates`), and that a claim still to be made has no execution (`Tokens`).
  `ChecksNeverFire`, `NoStrandedReport`, `ContentFromSnapshot` and
  `SnapshotFixed` follow. `Candidates` is what makes them safe: an execution
  that lost its lease may still complete only what the current one would.
* *Claims.* `ExclusiveClaims` is not inductive: when an execution ends, it frees
  the worker that hosts it, which must be the one waiting for it. `Hosts` says
  so, and `LeaseInv` is inductive.
* *Calls.* `Calling` says that a call an execution has still to make has no usage
  row; with `UsageSteps` it gives `KnownUsageKept`. `DeletedStaysGone` follows
  from `RowSteps` and `UsageSteps`.
* *Refinement.* `PromiseCorrect` proves `PromiseSpec`: each way of treating a row
  is an action of `ReportPromise` or a stutter. A claim that first sweeps the
  report it then takes is one `Takeover`.

**`EmbeddingTaskProofs`.** `EmbeddingInv` adds to the two invariants of the run
that an issue which was never published has no task, and what a process holds in
each state of its loop (`ProcessesAtWork`). Without the latter a process could
come back to a batch it has let go. `TaskSteps`, `PubSteps` and `ProcEffect` list
what one step may do to a task, to the publication and to a process;
`ClaimEndedByOwner` follows from them and `OneClaimant`.

**`MemberProofs`.** *Refresh sessions.* `SessionsSound` is not inductive: that a
token has one successor rests on its session being no longer active
(`SuccessorOfConsumed`), on locks excluding each other (`LocksExclusive`), on what
was decided under a lock being still so (`RotatesActive`), and on the account
being there while it is shared (`SharedUserPresent`). `ReachedIsSettled` says that
an UPDATE has locked whatever it has come to and is still active, and that of the
sessions issued before it began only those it found can be active, since none becomes
active again. At its end it has come to all it found: `ReuseRevokes`.

*Feed.* `FeedSound`, for batches of every size. The invariant says of each request
what it knows while the batches are as they are (`Knows`): one that computes the
next batch has excluded all that is stored. A request that was overtaken knows
nothing any more, and need not, because its batch number is then stored and its
save is refused. That no third of a topic comes at a seam is a fold over all batches;
`SeamInv` says that the row holds its value after all that was shown, and that
a request which is abreast of the batches has read that value.

*Preferences.* `LearningSound` is inductive: an event changes the last
action of one issue, so one summand of each sum changes (`SumChanges`), and the residual
from which the choice is derived stays what it was. `MigrationHolds` looks at the
outcome of one step: the preferences of one user and category are a class of a
partition, and the sum over the classes is the sum over all (`SumOfClasses`).

**`NewsStagesProofs`.** *Stages.* `StagesInv` says that the rows are right
(`Rows`: every snapshot is made of what the run before handed on), that one run of a
stage is running (`OneRunPerStage`), that the windows of discovery leave no gap (`Tracks`), that
what is defined passed in a completed run (`TermsPassed`), and that whoever holds a
row has in memory what the row will be (`Claimants`, `Memory`). A process that lost its row may have anything in
memory: its writes are refused, which is the reason why `Memory` is claimed of
holders only. Every window of a discovery, complete or not, begins where another has
ended (`Fits`). That it leaves none out, so that windows do not overlap, needs the
running discovery to be that of the last day that has one (`Latest`): then the time
of the followed issue moves with it. A late claim is what breaks this. `QuietStep`
covers the many steps that change no row. `SavedWorkStays` follows from what a save may
do to a snapshot (`Kept`) and from windows that begin before their day. *Fetch.* `FetchInv` says which
requests have their time limit running and which addresses were checked for the hop.

**`RequestProofs`.** *Limiter.* The store is ordered by last use and agrees with the
histories exactly; the buckets used since the last use of a held one are those behind it, so
fewer than `MaxKeys`, and a bucket that is absent has won back its allowance or had the
rest written off: by time, by having been passed by as many, or by a cleanup that found
it idle. `IdleGivesLittle` needs no more than the time since the last use. The agreement must be an equation:
spending less is not better for a bucket that would have been refused. *Likes.* What
has been shown does not lie behind the cursor, even if it is liked again, because
times only grow; what is left alone is shown or still to come. An analysis of a time that
has come is read the same ever after. *Pool.* A slice that has been asked is served, and what is found
stays within the shares, which leave something to the last slice whatever was
found before; a query that comes short of its limit has left nothing out.

*What a report says.* `ReportContentSound`, for every input, similarity, draft and
limit. *Candidates.* Everything is compared by rank: an element is among the first `n`
of a set when fewer than `n` come before it (`First`, `RankIsOrder`, `SameFirst`).
An issue among the first `MaxRelated` of all pairs has fewer than `PerSource` ahead of it
for the source it is nearest to, so that pair is read, and what is not read would come
after it (`BestOf`, `NearPairsSuffice`); the same once more for the rows that are
compared again. Of a category as many more rows are read as can be taken out
(`BucketSuffices`), and a place that is among the first `MaxMajor` turns is not beyond
the `MaxMajor`-th of its category (`EarlyPlace`, `RowsSuffice`). *Content.* `ContentInv`
says that the candidates in hand are some of the stored ones (`Within`), which no
withdrawal changes; that the draft was checked against them; and that a GET holds
content whose evidence is that of its connections, and has looked after it was asked.
What is left out by a filter is left out once (`EntriesKept`).

**`ServicesProofs`.** `RecommendationSoundCorrect`, for every pool, quota, size of a
batch and limit of the searches. The invariant says of a batch what it is
(`GoodBatch`, `FinalBatch`); the work is in what the operators compute.

* *The fullest selection.* A walk along an augmenting path is a recursive function of
  the slot and of what was visited (`TryAssign`). It either finds a slot, and then
  the slots taken are those taken before and one more, or it has visited all that
  could have this slot or one of those, and they all have a slot already
  (`TryAssignDoesWell`, by the number of issues not visited; the four ways of one call
  are `WaysOfStep`). Such a set stays as it is ever after, since no later walk can
  take a slot from it; so for the slots that stay empty there is a `Barrier`: a set of issues
  that all have a slot and that contains every issue which could take an empty one
  (`AssignsOneMore`). Counting both sides of the barrier, no
  choice of types fills more of the wanted places (`NoneFillsMore`,
  `SelectionFillsMost`). An invariant that says only that the assignment is a
  matching is inductive too, but says nothing of its size.
* *Orders.* What both versions answer is built by loops. Each loop keeps
  a set of states (`LoopStays`, `LoopEnds`): items of issues of the pool, each once,
  that the runs allow (`Picks`, `Allowed`). Where the budget may stop a search, every
  state it may stop in is looked at (`AnswersFromAre`).
* *The longest order.* The code searches over the signatures (topic, entity), not over
  the issues. An allowed order may as well begin with the foremost issue of its
  first signature: exchanging the two leaves topics and entities as they are, and the
  rest is an order of what is left (`RestIsOrder`). So the function of the code
  bounds every order (`NoneIsLonger`, at the least set of issues for which it would
  not), one of that length exists, and the order that is put together from the
  lengths is one (`ProvenIs`, `GoesOnTheWay`).
* *The end of a feed.* When all issues have one topic or one entity, at most two more can
  come in a row (`RoomOfTopic`, `RoomOfEntity`, `NoRoomLeft`). With the longest order
  this is what `CONSTRAINT_LIMITED` rests on (`VersionTwoIs`).

`ReadsSoundCorrect` puts the four together for the specification `Services`: a
step is one of the part that runs, so its own lemma keeps its invariant (`ReadsInv`).

Sums, folds, loops and selections are recursive functions here, none is a RECURSIVE
operator, and what they compute is proved by looking at a least counterexample
(`SetLemmas`, and the lemmas on prefixes in `MemberProofs`). Every invariant and every
action property that a passing run checks is proved.

Out of the prover's reach and left to TLC: `ActiveRunEnds`, `ReportEnds`,
`UsageEnds` and `EventuallyEmbedded` (liveness under fairness). The queue of
`EmbeddingTask` is not typed by `TypeOK`: it is a selection by the library's
`SelectSeq`, which is recursive; no safety property depends on it.

## 6. Where code and documents disagree

* **A run that nobody closes** (`WorkerClosesItsRun`). The design says that the
  run is closed when its jobs have been processed
  (`docs/design/issue-content-pipeline-design.html:27`). `completeRun` counts the
  jobs of all attempts. If attempt 1 fails with a QUEUED job, the issue is
  withdrawn and the run is retried with scope DISCOVERY, the retry skips that
  job, attempt 2 cannot claim it (its attempt is 1), and `completeRun` changes
  nothing: the worker is idle, the run RUNNING, and every enqueue refused until
  an operator interrupts an execution that has already ended.
* **An interrupt that succeeds** (`InterruptNeverSucceeds`). The design knows
  FAILED and PARTIALLY_SUCCEEDED as results of an interrupt
  (`docs/design/issue-pipeline.md:77`); a run whose process died after its last
  job and before `completeRun` becomes SUCCEEDED.

* **A choice nobody made** (`ReadShowsChoice`). The review of the feature says that
  the GET uses a single SQL statement
  (`docs/reviews/onboarding-preference-reconfiguration-review.html:149`). It reads
  the weights and the contributions by two statements without a transaction. A
  member who replaces a like by a pass between the two is shown the category of
  that issue as chosen at onboarding.

Two more disagreements have no run of their own; the modules do as the code does.

* **A session that survives the reuse.** The design and its implementation ledger
  say that a reuse revokes all active sessions of the user
  (`docs/design/authentication-authorization-design.html:577`,
  `docs/design/authentication-authorization-implementation.html:357`).
  `rotateRefreshSession` locks the user FOR KEY SHARE, which rotations and logins
  share, and the UPDATE of `revokeActiveSessions`
  (`postgresAuth.repository.ts:140`, `:219`) works on the snapshot of its start. If a
  rotation of another token holds its session then, the UPDATE waits for it, finds
  it used and passes on; the replacement, which is not in the snapshot, stays active. A
  login that commits during the UPDATE does the same. In `AuthSession` these are `Decide`, then
  `Rotate` or `LoginIssue`, then `RevokeRow` and `RevokeCommit`.

* **The loser of a batch.** The design of the feed says that of two
  requests for one batch both get the batch of the winner
  (`docs/design/feed-concurrency-transaction-boundary-design.html:123` and `:169`). If the
  winner commits a batch that ends the search after the loser looked for its
  batch and before it reads the list of batches, the loser is refused with a conflict
  (`issueFeed.service.ts:183`); a second request gets the batch.

## 7. Not modelled, and why

* *No state, or pure I/O*: the batch runner and process entry (seen as
  `Crash`, `Deadline`, SIGTERM and restarts), controllers, filters, metadata and
  health, the formatting of cards, token encoding and password hashing.
* *Model providers* are free choices of the modules that call them: an answer, a
  refusal, none at all.
* *The statements inside `enqueue`*: the insert either wins or changes nothing. When
  it loses against a run that ends before the second look, the request is refused
  as a conflict of its key, which it is not; no row and no later step depends on it.
* *SQL text and search by keyword*: the queries are modelled by what they select. The
  list of reports and their summaries are reads of single rows.
* *Other migrations* only create tables, columns and constraints; these are guards
  and invariants of the modules.
