-------------------------- MODULE InMemoryPipeline --------------------------
(***************************************************************************)
(* The double of the pipeline repository that the tests of the worker and  *)
(* of the repair job run on.  What they show of the program holds only as  *)
(* far as the double does what the database repository does: it is checked *)
(* against the publication gate that PipelineRun implements.               *)
(*                                                                         *)
(* No method awaits anything, so that one call is one step.  A caller is   *)
(* known by what it got from a claim: a ticket for a run, a token for      *)
(* embedding tasks.  It may make any call with it at any time, so that the *)
(* order in which the worker makes them is not relied on.  Stages, counts  *)
(* of candidates and usage, articles and texts are left out; a title       *)
(* stands for its issue, for its job and for its embedding task.           *)
(***************************************************************************)
EXTENDS Integers, FiniteSets

CONSTANTS
    RunId, Title,
    ClaimToken,       \* claims of embedding tasks
    LastAttempt,      \* bound: retries stop at this attempt
    Nothing           \* null references

\* An embedding task and its claim.
TaskRecord == [run : RunId, status : {"PENDING", "RUNNING", "SUCCEEDED"},
               token : ClaimToken \cup {Nothing}]

ASSUME DoubleAssumption ==
    /\ LastAttempt \in Nat /\ LastAttempt >= 1
    /\ IsFiniteSet(Title)
    /\ Nothing \notin RunId \cup ClaimToken \cup TaskRecord

VARIABLES
    rows,      \* runs, with their count of pending embeddings
    jobs,      \* the jobs of all runs
    issues,    \* publicationStatus
    tasks,     \* embeddingTasks
    tickets,   \* what claimNext has returned: run, attempt, execution
    spent      \* tokens that were used for a claim

doubleVars == <<rows, jobs, issues, tasks, tickets, spent>>

Waiting == {"QUEUED", "RUNNING"}

DoubleInit ==
    /\ rows = [r \in RunId |-> [status |-> "ABSENT", attempt |-> 0, execution |-> 0,
                                pending |-> 0]]
    /\ jobs = [i \in Title |-> [run |-> Nothing, status |-> "ABSENT", attempt |-> 0,
                                interrupted |-> FALSE]]
    /\ issues = [i \in Title |-> "NONE"]
    /\ tasks = [i \in Title |-> Nothing]
    /\ tickets = {} /\ spent = {}

-----------------------------------------------------------------------------
(* Queries.                                                                *)

TitlesOf(r) == {i \in Title : jobs[i].run = r}
NobodyElse(r) == \A q \in RunId \ {r} : rows[q].status \notin Waiting

\* attempt, execution and status of the run, as completeRun and failRun ask.
HoldsRow(t) ==
    /\ rows[t.run].attempt = t.attempt
    /\ rows[t.run].execution = t.execution
    /\ rows[t.run].status = "RUNNING"

\* findJobOwner, and the tests on what it finds.
OwnsTitle(t, i) ==
    /\ jobs[i].run # Nothing
    /\ rows[jobs[i].run].execution = t.execution
    /\ rows[jobs[i].run].status = "RUNNING"
    /\ jobs[i].attempt = t.attempt

\* recomputeEmbeddingPendingCounts, after tasks and issues have changed.
TaskOpen(i) == tasks[i] # Nothing /\ tasks[i].status \in {"PENDING", "RUNNING"}
Recount ==
    rows' = [r \in RunId |-> [rows[r] EXCEPT !.pending =
               Cardinality({i \in Title : TaskOpen(i)' /\ tasks'[i].run = r
                                            /\ issues'[i] = "PUBLISHED"})]]

-----------------------------------------------------------------------------
(* Requests of the operator.  A known idempotency key, a stale attempt or  *)
(* another active run is answered or refused: no step.                     *)

EnqueueRow(r) ==
    /\ rows[r].status = "ABSENT" /\ NobodyElse(r)
    /\ rows' = [rows EXCEPT ![r].status = "QUEUED", ![r].attempt = 1]
    /\ UNCHANGED <<jobs, issues, tasks, tickets, spent>>

\* selected: failedJobIds, empty when the request has none.
MaySelect(r, scope, selected) ==
    /\ \A i \in selected : jobs[i].status = "FAILED" /\ issues[i] # "WITHDRAWN"
    /\ scope = "CONTENT" => /\ selected # {}
                            /\ \A i \in TitlesOf(r) : jobs[i].status \notin Waiting

BackInQueue(r, scope, selected) ==
    {i \in TitlesOf(r) :
       /\ jobs[i].status # "SUCCEEDED" /\ issues[i] # "WITHDRAWN"
       /\ \/ i \in selected
          \/ /\ scope = "DISCOVERY"
             /\ jobs[i].status \in Waiting \/ jobs[i].interrupted}

RetryRow(r, expected, scope, selected) ==
    /\ expected < LastAttempt
    /\ rows[r].attempt = expected
    /\ rows[r].status \in {"FAILED", "PARTIALLY_SUCCEEDED"}
    /\ NobodyElse(r)
    /\ MaySelect(r, scope, selected)
    /\ rows' = [rows EXCEPT ![r] = [rows[r] EXCEPT !.status = "QUEUED", !.execution = 0,
                                                   !.attempt = expected + 1]]
    /\ jobs' = [i \in Title |->
                  IF i \in BackInQueue(r, scope, selected)
                  THEN [run |-> r, status |-> "QUEUED", attempt |-> expected + 1,
                        interrupted |-> FALSE]
                  ELSE jobs[i]]
    /\ UNCHANGED <<issues, tasks, tickets, spent>>

\* A run without jobs fails when it is interrupted, and succeeds otherwise.
Verdict(mine, empty) ==
    LET succeeded == {i \in DOMAIN mine : mine[i].status = "SUCCEEDED"} IN
    IF mine = <<>> THEN empty
    ELSE IF succeeded = DOMAIN mine THEN "SUCCEEDED"
    ELSE IF succeeded = {} THEN "FAILED" ELSE "PARTIALLY_SUCCEEDED"

InterruptRow(r, expected, execution) ==
    /\ rows[r].attempt = expected
    /\ rows[r].status = "RUNNING"
    /\ rows[r].execution = execution
    /\ jobs' = [i \in Title |->
                  IF i \in TitlesOf(r) /\ jobs[i].status \in Waiting
                  THEN [jobs[i] EXCEPT !.status = "FAILED", !.interrupted = TRUE]
                  ELSE jobs[i]]
    /\ rows' = [rows EXCEPT ![r].status = Verdict([i \in TitlesOf(r) |-> jobs'[i]], "FAILED")]
    /\ UNCHANGED <<issues, tasks, tickets, spent>>

-----------------------------------------------------------------------------
(* Calls of a worker.  A call that does not own the row returns: no step.  *)

\* The execution id is fresh.
ClaimNext(r) ==
    /\ rows[r].status = "QUEUED"
    /\ LET fresh == Cardinality(tickets) + 1 IN
       /\ rows' = [rows EXCEPT ![r].status = "RUNNING", ![r].execution = fresh]
       /\ tickets' = tickets \cup
            {[run |-> r, attempt |-> rows[r].attempt, execution |-> fresh]}
    /\ UNCHANGED <<jobs, issues, tasks, spent>>

\* Faulty variant: the attempt is not compared.
AdmitsAnyAttempt(t) == rows[t.run].status \in Waiting

\* The execution is not compared.
Admits(t) == rows[t.run].attempt = t.attempt /\ rows[t.run].status \in Waiting

\* A known title is a duplicate: no step.
RegisterTitle(t, i) ==
    /\ Admits(t)
    /\ issues[i] = "NONE"
    /\ issues' = [issues EXCEPT ![i] = "UNPUBLISHED"]
    /\ jobs' = [jobs EXCEPT ![i] = [run |-> t.run, status |-> "QUEUED",
                                    attempt |-> t.attempt, interrupted |-> FALSE]]
    /\ UNCHANGED <<rows, tasks, tickets, spent>>

TakeJob(t, i) ==
    /\ OwnsTitle(t, i) /\ jobs[i].status = "QUEUED"
    /\ jobs' = [jobs EXCEPT ![i].status = "RUNNING"]
    /\ UNCHANGED <<rows, issues, tasks, tickets, spent>>

\* Content that the validators refuse and a withdrawn issue are errors.  A title
\* succeeds once, so that it has no embedding task yet.
PublishTitle(t, i) ==
    /\ OwnsTitle(t, i) /\ jobs[i].status = "RUNNING"
    /\ issues[i] # "WITHDRAWN"
    /\ jobs' = [jobs EXCEPT ![i].status = "SUCCEEDED", ![i].interrupted = FALSE]
    /\ issues' = [issues EXCEPT ![i] = "PUBLISHED"]
    /\ tasks' = [tasks EXCEPT ![i] = [run |-> jobs[i].run, status |-> "PENDING",
                                      token |-> Nothing]]
    /\ UNCHANGED <<tickets, spent>>
    /\ Recount

FailJob(t, i) ==
    /\ OwnsTitle(t, i) /\ jobs[i].status = "RUNNING"
    /\ jobs' = [jobs EXCEPT ![i].status = "FAILED", ![i].interrupted = FALSE]
    /\ UNCHANGED <<rows, issues, tasks, tickets, spent>>

FailRow(t) ==
    /\ HoldsRow(t)
    /\ rows' = [rows EXCEPT ![t.run].status = "FAILED"]
    /\ UNCHANGED <<jobs, issues, tasks, tickets, spent>>

CompleteRow(t) ==
    /\ HoldsRow(t)
    /\ \A i \in TitlesOf(t.run) : jobs[i].status \in {"SUCCEEDED", "FAILED"}
    /\ rows' = [rows EXCEPT ![t.run].status =
                  Verdict([i \in TitlesOf(t.run) |-> jobs[i]], "SUCCEEDED")]
    /\ UNCHANGED <<jobs, issues, tasks, tickets, spent>>

-----------------------------------------------------------------------------
(* Embedding tasks: calls of the worker, without a token, and of the       *)
(* repair job.                                                             *)

TaskIs(i, status, token) ==
    tasks[i] # Nothing /\ tasks[i].status = status /\ tasks[i].token = token
SetTasks(some, status, token) ==
    tasks' = [i \in Title |-> IF i \in some
                              THEN [tasks[i] EXCEPT !.status = status, !.token = token]
                              ELSE tasks[i]]

\* Text and model are those of the task; for others the answer is STALE.
SaveVector(i, token) ==
    /\ issues[i] = "PUBLISHED"
    /\ TaskIs(i, IF token = Nothing THEN "PENDING" ELSE "RUNNING", token)
    /\ SetTasks({i}, "SUCCEEDED", Nothing)
    /\ UNCHANGED <<jobs, issues, tickets, spent>>
    /\ Recount

\* A worker has no vector: attempts of the task are counted, and all counts again.
MarkPending(t, i) ==
    /\ jobs[i].run = t.run /\ jobs[i].status = "SUCCEEDED"
    /\ rows[t.run].attempt = t.attempt /\ rows[t.run].execution = t.execution
    /\ rows[t.run].status \in {"RUNNING", "SUCCEEDED", "PARTIALLY_SUCCEEDED"}
    /\ issues[i] = "PUBLISHED" /\ TaskIs(i, "PENDING", Nothing)
    /\ UNCHANGED <<jobs, issues, tasks, tickets, spent>>
    /\ Recount

\* At most limit tasks, whichever were stored first.
ClaimTasks(token, limit) ==
    LET ready == {i \in Title : issues[i] = "PUBLISHED" /\ TaskIs(i, "PENDING", Nothing)} IN
    /\ token \notin spent
    /\ spent' = spent \cup {token}
    /\ \E some \in SUBSET ready :
         /\ Cardinality(some) <= limit
         /\ some = ready \/ Cardinality(some) = limit
         /\ SetTasks(some, "RUNNING", token)
    /\ UNCHANGED <<jobs, issues, tickets>>
    /\ Recount

\* failEmbeddingTask of a published issue, releaseEmbeddingClaim of any.
PutTaskBack(i, token) ==
    /\ TaskIs(i, "RUNNING", token)
    /\ SetTasks({i}, "PENDING", Nothing)
    /\ UNCHANGED <<jobs, issues, tickets, spent>>
    /\ Recount

\* A process makes one claim here: releaseEmbeddingClaims of a process that
\* stops, requeueEmbeddingClaims of a dead one.
PutTasksBack(token, onlyPublished) ==
    LET held == {i \in Title : TaskIs(i, "RUNNING", token)
                                 /\ (onlyPublished => issues[i] = "PUBLISHED")} IN
    /\ held # {}
    /\ SetTasks(held, "PENDING", Nothing)
    /\ UNCHANGED <<jobs, issues, tickets, spent>>
    /\ Recount

\* The tests set the status of an issue behind the back of the double.
SetWithdrawn(i) ==
    /\ issues[i] \in {"UNPUBLISHED", "PUBLISHED"}
    /\ issues' = [issues EXCEPT ![i] = "WITHDRAWN"]
    /\ UNCHANGED <<rows, jobs, tasks, tickets, spent>>

DoubleNext ==
    \/ \E r \in RunId :
         \/ EnqueueRow(r) \/ ClaimNext(r)
         \/ \E a \in 1..LastAttempt :
              \/ \E scope \in {"DISCOVERY", "CONTENT"}, some \in SUBSET TitlesOf(r) :
                   RetryRow(r, a, scope, some)
              \/ \E t \in tickets : InterruptRow(r, a, t.execution)
    \/ \E t \in tickets :
         \/ FailRow(t) \/ CompleteRow(t)
         \/ \E i \in Title : \/ RegisterTitle(t, i) \/ TakeJob(t, i)
                             \/ PublishTitle(t, i) \/ FailJob(t, i) \/ MarkPending(t, i)
    \/ \E i \in Title : SaveVector(i, Nothing) \/ SetWithdrawn(i)
    \/ \E k \in ClaimToken :
         \/ \E limit \in 1..Cardinality(Title) : ClaimTasks(k, limit)
         \/ \E i \in Title : SaveVector(i, k) \/ PutTaskBack(i, k)
         \/ \E only \in BOOLEAN : PutTasksBack(k, only)

DoubleSpec == DoubleInit /\ [][DoubleNext]_doubleVars

-----------------------------------------------------------------------------
(* Properties.                                                             *)

DoubleTypeOK ==
    /\ \A r \in RunId : /\ rows[r].attempt \in 0..LastAttempt
                        /\ rows[r].execution \in 0..Cardinality(tickets)
                        /\ rows[r].pending \in 0..Cardinality(Title)
    /\ \A i \in Title : jobs[i].run \in RunId \cup {Nothing}
    /\ spent \subseteq ClaimToken

\* A task waits for its embedding exactly when its job has succeeded, and the
\* count a run reports is that of its waiting tasks.  Only what the tests
\* withdraw may still be counted, until the next call.
TasksCounted ==
    /\ \A i \in Title :
         /\ (tasks[i] # Nothing) = (jobs[i].status = "SUCCEEDED")
         /\ tasks[i] # Nothing => /\ tasks[i].run = jobs[i].run
                                  /\ (tasks[i].token # Nothing) = (tasks[i].status = "RUNNING")
                                  /\ tasks[i].token \in spent \cup {Nothing}
    /\ \A r \in RunId :
         LET waiting == {i \in TitlesOf(r) : TaskOpen(i)}
             seen == {i \in waiting : issues[i] = "PUBLISHED"}
         IN  rows[r].pending \in Cardinality(seen)..Cardinality(waiting)

\* One run holds the slot.
DoubleSlot ==
    IF \E r \in RunId : rows[r].status \in Waiting
    THEN LET r == CHOOSE q \in RunId : rows[q].status \in Waiting
         IN  [run |-> r, attempt |-> rows[r].attempt, live |-> rows[r].status = "RUNNING"]
    ELSE [run |-> Nothing, attempt |-> 0, live |-> FALSE]

DoubleGate == INSTANCE PublicationGate
    WITH Run <- RunId, Issue <- Title, NoRun <- Nothing,
         slot <- DoubleSlot,
         last <- [r \in RunId |-> rows[r].attempt],
         phase <- issues,
         ticket <- [i \in Title |-> [run |-> jobs[i].run, attempt |-> jobs[i].attempt]]

\* The double is such a gate as the database repository is (GateSpec of
\* PipelineRun), whoever calls it in whatever order; and its tasks are counted.
DoubleIsGate == DoubleGate!Spec /\ [](DoubleTypeOK /\ TasksCounted)
=============================================================================
