---------------------------- MODULE PipelineRun ----------------------------
(***************************************************************************)
(* The content pipeline: runs that an operator starts, retries and         *)
(* interrupts, and batch workers that claim a run, discover issues,        *)
(* register one content job per new issue, process the jobs and publish.   *)
(*                                                                         *)
(* Every database statement of MikroOrmPipelineRepository that changes the *)
(* state below is one action (each is one transaction).  A worker is a     *)
(* process: between two of its actions anything else may happen, so it     *)
(* acts on what it read when it claimed the run.                           *)
(*                                                                         *)
(* Left out: stage columns and candidate counters (display only), article  *)
(* rows, AI usage records, embeddings.  An issue stands for its normalised *)
(* title, and for its job: registerIssue is the only insert of either.     *)
(***************************************************************************)
EXTENDS Naturals, FiniteSets

CONSTANTS
    Run,              \* ids of the runs an operator may enqueue
    Issue,            \* normalised titles the classifier may propose
    Worker,           \* batch processes
    MaxAttempt,       \* bound: retries stop at this attempt
    MaxNewIssues,     \* request.limits.maxNewIssues, per discovery
    OperatorConfirms, \* TRUE: interrupts are sent only for dead executions
    NoRun, NoIssue    \* null references

ASSUME PipelineAssumption ==
    /\ MaxAttempt \in Nat \ {0}
    /\ MaxNewIssues \in Nat
    /\ OperatorConfirms \in BOOLEAN
    /\ NoRun \notin Run
    /\ NoIssue \notin Issue

VARIABLES
    run,       \* pipeline_runs: status, attempt, execution_id, retry_scope
    job,       \* issue_content_jobs, one per issue
    pub,       \* issues.publication_status
    worker,    \* what each batch process holds in memory
    nextExec   \* the next fresh execution id (0 is SQL null)

vars == <<run, job, pub, worker, nextExec>>

Active == {"QUEUED", "RUNNING"}
Retryable == {"FAILED", "PARTIALLY_SUCCEEDED"}
RunStatus == {"ABSENT", "SUCCEEDED"} \cup Active \cup Retryable
Unfinished == {"QUEUED", "RUNNING"}
JobStatus == {"ABSENT", "SUCCEEDED", "FAILED"} \cup Unfinished

\* CONTENT stands for the four failure kinds of the worker, none of which is
\* ever distinguished from another by the repository.
FailureKind == {"NONE", "INTERRUPTED", "CONTENT"}
Publication == {"NONE", "UNPUBLISHED", "PUBLISHED", "WITHDRAWN"}
Scope == {"NONE", "DISCOVERY", "CONTENT"}
Pc == {"Idle", "Down", "Search", "Register", "List", "Jobs", "Work",
       "JobFail", "FailRun"}

RunRecord == [status : RunStatus, attempt : 0 .. MaxAttempt, exec : Nat,
              scope : Scope]
JobRecord == [run : Run \cup {NoRun}, status : JobStatus,
              failure : FailureKind, attempt : 0 .. MaxAttempt]
WorkerRecord == [pc : Pc, run : Run \cup {NoRun}, attempt : 0 .. MaxAttempt,
                 exec : Nat, todo : SUBSET Issue, created : 0 .. MaxNewIssues,
                 job : Issue \cup {NoIssue}]

IdleWorker == [pc |-> "Idle", run |-> NoRun, attempt |-> 0, exec |-> 0,
               todo |-> {}, created |-> 0, job |-> NoIssue]

Init ==
    /\ run = [r \in Run |-> [status |-> "ABSENT", attempt |-> 0, exec |-> 0,
                             scope |-> "NONE"]]
    /\ job = [i \in Issue |-> [run |-> NoRun, status |-> "ABSENT",
                               failure |-> "NONE", attempt |-> 0]]
    /\ pub = [i \in Issue |-> "NONE"]
    /\ worker = [w \in Worker |-> IdleWorker]
    /\ nextExec = 1

-----------------------------------------------------------------------------
(* Queries.                                                                *)

JobsOf(r) == {i \in Issue : job[i].run = r}

Executing(e) == \E w \in Worker : worker[w].exec = e

\* "where id = $1 and attempt = $2 and execution_id = $3 and status = RUNNING"
HoldsRun(w) ==
    \E r \in Run : /\ r = worker[w].run
                   /\ run[r].attempt = worker[w].attempt
                   /\ run[r].exec = worker[w].exec
                   /\ run[r].status = "RUNNING"

\* "with owner as (select id from pipeline_runs where execution_id = $3 and
\* status = RUNNING) ... j.attempt = $2 and j.pipeline_run_id = owner.id"
OwnsJob(w, i) ==
    /\ job[i].attempt = worker[w].attempt
    /\ \E r \in Run : /\ job[i].run = r
                      /\ run[r].exec = worker[w].exec
                      /\ run[r].status = "RUNNING"

\* Faulty variant: the index is missing.
NoOtherActiveUnchecked(r) == r \in Run

\* The partial unique index pipeline_runs_one_active_idx.
NoOtherActive(r) == \A q \in Run \ {r} : run[q].status \notin Active

-----------------------------------------------------------------------------
(* The operator's requests.                                                *)

Enqueue(r) ==
    /\ run[r].status = "ABSENT"
    /\ NoOtherActive(r)
    /\ run' = [run EXCEPT ![r] = [status |-> "QUEUED", attempt |-> 1,
                                  exec |-> 0, scope |-> "NONE"]]
    /\ UNCHANGED <<job, pub, worker, nextExec>>

\* Faulty variant: a job that a failed run left RUNNING is not resumed.
ResumableQueuedOnly(i, selected) ==
    \/ job[i].status = "QUEUED"
    \/ job[i].status = "FAILED" /\ (job[i].failure = "INTERRUPTED" \/ i \in selected)

\* The jobs a DISCOVERY retry resumes.
Resumable(i, selected) ==
    \/ job[i].status \in Unfinished
    \/ job[i].status = "FAILED" /\ (job[i].failure = "INTERRUPTED" \/ i \in selected)

\* The jobs a retry puts back in the queue.  An empty selection is an
\* undefined failedJobIds; a withdrawn issue is always skipped.
Requeued(r, scope, selected) ==
    {i \in JobsOf(r) :
        /\ pub[i] # "WITHDRAWN"
        /\ \/ scope = "DISCOVERY" /\ Resumable(i, selected)
           \/ scope = "CONTENT" /\ job[i].status = "FAILED" /\ i \in selected}

\* Faulty variant: the attempt number is reused.
NextAttemptReused(expected) == expected

NextAttempt(expected) == expected + 1

Retry(r, expected, scope, selected) ==
    /\ expected < MaxAttempt
    /\ run[r].attempt = expected
    /\ run[r].status \in Retryable
    /\ \A i \in selected : /\ i \in JobsOf(r)
                           /\ job[i].status = "FAILED"
                           /\ pub[i] # "WITHDRAWN"
    /\ scope = "CONTENT" =>
          /\ selected # {}
          /\ \A i \in JobsOf(r) : job[i].status \notin Unfinished
    /\ NoOtherActive(r)
    /\ run' = [run EXCEPT ![r] = [status |-> "QUEUED",
                                  attempt |-> NextAttempt(expected),
                                  exec |-> 0, scope |-> scope]]
    /\ job' = [i \in Issue |->
                 IF i \in Requeued(r, scope, selected)
                 THEN [job[i] EXCEPT !.status = "QUEUED", !.failure = "NONE",
                                     !.attempt = NextAttempt(expected)]
                 ELSE job[i]]
    /\ UNCHANGED <<pub, worker, nextExec>>

\* Faulty variant: every job of the attempt that is not FAILED yet is cut.
CutAll(r, expected) ==
    {i \in JobsOf(r) : /\ job[i].attempt = expected
                       /\ job[i].status # "FAILED"}

\* The unfinished jobs of the interrupted attempt.
Cut(r, expected) ==
    {i \in JobsOf(r) : /\ job[i].attempt = expected
                       /\ job[i].status \in Unfinished}

InterruptedStatus(r) ==
    LET succeeded == {i \in JobsOf(r) : job[i].status = "SUCCEEDED"}
    IN  IF succeeded = {} THEN "FAILED"
        ELSE IF succeeded = JobsOf(r) THEN "SUCCEEDED"
        ELSE "PARTIALLY_SUCCEEDED"

\* Faulty variant: the execution named by the operator is not compared.
InterruptAllowedAnyExec(r, expected, e) ==
    run[r].attempt = expected /\ run[r].status = "RUNNING" /\ e \in Nat

\* Faulty variant: a run without an unfinished job cannot be interrupted.
InterruptAllowedIfUnfinished(r, expected, e) ==
    /\ run[r].attempt = expected
    /\ run[r].status = "RUNNING"
    /\ run[r].exec = e
    /\ Cut(r, expected) # {}

InterruptAllowed(r, expected, e) ==
    /\ run[r].attempt = expected
    /\ run[r].status = "RUNNING"
    /\ run[r].exec = e

Interrupt(r, expected, e) ==
    /\ OperatorConfirms => ~Executing(e)
    /\ InterruptAllowed(r, expected, e)
    /\ job' = [i \in Issue |->
                 IF i \in Cut(r, expected)
                 THEN [job[i] EXCEPT !.status = "FAILED",
                                     !.failure = "INTERRUPTED"]
                 ELSE job[i]]
    /\ run' = [run EXCEPT ![r].status = InterruptedStatus(r)]
    /\ UNCHANGED <<pub, worker, nextExec>>

\* External: an administrator withdraws an issue with SQL; the code only
\* reads the status.  retry and saveJobSuccess expect a draft to be withdrawn
\* too: the issue of a FAILED job was never published.
Withdraw(i) ==
    /\ pub[i] \in {"UNPUBLISHED", "PUBLISHED"}
    /\ pub' = [pub EXCEPT ![i] = "WITHDRAWN"]
    /\ UNCHANGED <<run, job, worker, nextExec>>

-----------------------------------------------------------------------------
(* The worker process.                                                     *)

\* claimNext: at most one run is QUEUED, so its ordering is immaterial.
ClaimRun(w, r) ==
    /\ worker[w].pc = "Idle"
    /\ run[r].status = "QUEUED"
    /\ run' = [run EXCEPT ![r] = [run[r] EXCEPT !.status = "RUNNING",
                                        !.exec = nextExec]]
    /\ worker' = [worker EXCEPT ![w] =
                    [IdleWorker EXCEPT
                       !.pc = IF run[r].scope = "CONTENT" THEN "List"
                              ELSE "Search",
                       !.run = r, !.attempt = run[r].attempt,
                       !.exec = nextExec]]
    /\ nextExec' = nextExec + 1
    /\ UNCHANGED <<job, pub>>

\* Search, save the articles and classify: the worker now holds decisions.
Classify(w, candidates) ==
    /\ worker[w].pc = "Search"
    /\ worker' = [worker EXCEPT ![w] = [worker[w] EXCEPT !.pc = "Register",
                                              !.todo = candidates]]
    /\ UNCHANGED <<run, job, pub, nextExec>>

\* Faulty variant: the limit is off by one.
BelowLimitOffByOne(w) == worker[w].created =< MaxNewIssues

BelowLimit(w) == worker[w].created < MaxNewIssues

\* A decision that writes nothing: a known title or one over the limit.
SkipCandidate(w, i) ==
    /\ worker[w].pc = "Register"
    /\ i \in worker[w].todo
    /\ pub[i] # "NONE" \/ ~BelowLimit(w)
    /\ worker' = [worker EXCEPT ![w].todo = @ \ {i}]
    /\ UNCHANGED <<run, job, pub, nextExec>>

\* Faulty variant: any attempt of an active run may register.
AdmittedAnyAttempt(w) ==
    \E r \in Run : r = worker[w].run /\ run[r].status \in Active

\* registerIssue's own check: it knows the attempt but not the execution.
Admitted(w) ==
    \E r \in Run : /\ r = worker[w].run
                   /\ run[r].attempt = worker[w].attempt
                   /\ run[r].status \in Active

RegisterIssue(w, i) ==
    /\ worker[w].pc = "Register"
    /\ i \in worker[w].todo
    /\ BelowLimit(w)
    /\ \/ /\ Admitted(w)
          /\ pub[i] = "NONE"
          /\ job' = [job EXCEPT ![i] =
                       [run |-> worker[w].run, status |-> "QUEUED",
                        failure |-> "NONE", attempt |-> worker[w].attempt]]
          /\ pub' = [pub EXCEPT ![i] = "UNPUBLISHED"]
          /\ worker' = [worker EXCEPT ![w] = [worker[w] EXCEPT !.todo = @ \ {i},
                                                    !.created = @ + 1]]
       \/ /\ ~Admitted(w)
          /\ worker' = [worker EXCEPT ![w].pc = "FailRun"]
          /\ UNCHANGED <<job, pub>>
    /\ UNCHANGED <<run, nextExec>>

\* completeDiscovery stores counters only.
EndDiscovery(w) ==
    /\ worker[w].pc = "Register"
    /\ worker[w].todo = {}
    /\ worker' = [worker EXCEPT ![w].pc = "List"]
    /\ UNCHANGED <<run, job, pub, nextExec>>

ListJobs(w) ==
    /\ worker[w].pc = "List"
    /\ worker' = [worker EXCEPT ![w] =
                    [worker[w] EXCEPT !.pc = "Jobs",
                                      !.todo = JobsOf(worker[w].run)]]
    /\ UNCHANGED <<run, job, pub, nextExec>>

ClaimJob(w, i) ==
    /\ worker[w].pc = "Jobs"
    /\ i \in worker[w].todo
    /\ \/ /\ OwnsJob(w, i)
          /\ job[i].status = "QUEUED"
          /\ job' = [job EXCEPT ![i].status = "RUNNING"]
          /\ worker' = [worker EXCEPT ![w] =
                          [worker[w] EXCEPT !.todo = @ \ {i}, !.pc = "Work",
                                            !.job = i]]
       \/ /\ ~(OwnsJob(w, i) /\ job[i].status = "QUEUED")
          /\ worker' = [worker EXCEPT ![w].todo = @ \ {i}]
          /\ job' = job
    /\ UNCHANGED <<run, pub, nextExec>>

\* A provider fails, or its output is refused.
JobError(w) ==
    /\ worker[w].pc = "Work"
    /\ worker' = [worker EXCEPT ![w].pc = "JobFail"]
    /\ UNCHANGED <<run, job, pub, nextExec>>

\* Faulty variant: a job that was already closed can be closed again.
AdoptableAgain(w, i) == OwnsJob(w, i) /\ job[i].status # "QUEUED"

\* The row that the owner may close: its run, its attempt, RUNNING.
Adoptable(w, i) == OwnsJob(w, i) /\ job[i].status = "RUNNING"

\* Faulty variant: the withdrawal is not looked at.
PublishableAlways(i) == i \in Issue

Publishable(i) == pub[i] # "WITHDRAWN"

\* processJob has returned to the loop of processQueuedJobs.
BackToJobs(w) == [worker[w] EXCEPT !.pc = "Jobs", !.job = NoIssue]

\* One transaction: the result, the publication and the job's success.  What
\* follows it (the embedding, a lost reply) may still throw: pc "JobFail".
SaveJobSuccess(w, i) ==
    /\ worker[w].pc = "Work"
    /\ worker[w].job = i
    /\ \/ /\ Adoptable(w, i)
          /\ Publishable(i)
          /\ job' = [job EXCEPT ![i] = [job[i] EXCEPT !.status = "SUCCEEDED",
                                                     !.failure = "NONE"]]
          /\ pub' = [pub EXCEPT ![i] = "PUBLISHED"]
          /\ \/ worker' = [worker EXCEPT ![w] = BackToJobs(w)]
             \/ worker' = [worker EXCEPT ![w].pc = "JobFail"]
       \/ /\ Adoptable(w, i)
          /\ ~Publishable(i)
          /\ worker' = [worker EXCEPT ![w].pc = "JobFail"]
          /\ UNCHANGED <<job, pub>>
       \/ /\ ~Adoptable(w, i)
          /\ worker' = [worker EXCEPT ![w] = BackToJobs(w)]
          /\ UNCHANGED <<job, pub>>
    /\ UNCHANGED <<run, nextExec>>

\* Faulty variant: the failure of a withdrawn issue's job is not recorded.
SaveJobFailureIfVisible(w, i) ==
    /\ worker[w].pc = "JobFail"
    /\ worker[w].job = i
    /\ job' = IF Adoptable(w, i) /\ Publishable(i)
              THEN [job EXCEPT ![i] = [job[i] EXCEPT !.status = "FAILED",
                                                     !.failure = "CONTENT"]]
              ELSE job
    /\ worker' = [worker EXCEPT ![w] = BackToJobs(w)]
    /\ UNCHANGED <<run, pub, nextExec>>

SaveJobFailure(w, i) ==
    /\ worker[w].pc = "JobFail"
    /\ worker[w].job = i
    /\ job' = IF Adoptable(w, i)
              THEN [job EXCEPT ![i] = [job[i] EXCEPT !.status = "FAILED",
                                                     !.failure = "CONTENT"]]
              ELSE job
    /\ worker' = [worker EXCEPT ![w] = BackToJobs(w)]
    /\ UNCHANGED <<run, pub, nextExec>>

\* Anything thrown outside processJob's own catch.
RunError(w) ==
    /\ worker[w].pc \in {"Search", "Register", "List", "Jobs", "JobFail"}
    /\ worker' = [worker EXCEPT ![w].pc = "FailRun"]
    /\ UNCHANGED <<run, job, pub, nextExec>>

FailRun(w) ==
    /\ worker[w].pc = "FailRun"
    /\ run' = IF HoldsRun(w)
              THEN [run EXCEPT ![worker[w].run].status = "FAILED"]
              ELSE run
    /\ worker' = [worker EXCEPT ![w] = IdleWorker]
    /\ UNCHANGED <<job, pub, nextExec>>

CompletedStatus(r) ==
    IF \A i \in JobsOf(r) : job[i].status # "FAILED" THEN "SUCCEEDED"
    ELSE IF \A i \in JobsOf(r) : job[i].status # "SUCCEEDED" THEN "FAILED"
    ELSE "PARTIALLY_SUCCEEDED"

\* Faulty variant: a job still in the queue does not hold the run back.
AllSettledNoneRunning(r) == \A i \in JobsOf(r) : job[i].status # "RUNNING"

\* total = succeeded + failed, over the jobs of every attempt.
AllSettled(r) == \A i \in JobsOf(r) : job[i].status \in {"SUCCEEDED", "FAILED"}

CompleteRun(w) ==
    /\ worker[w].pc = "Jobs"
    /\ worker[w].todo = {}
    /\ run' = IF HoldsRun(w) /\ AllSettled(worker[w].run)
              THEN [run EXCEPT ![worker[w].run].status =
                                  CompletedStatus(worker[w].run)]
              ELSE run
    /\ worker' = [worker EXCEPT ![w] = IdleWorker]
    /\ UNCHANGED <<job, pub, nextExec>>

\* The process dies, is told to stop, or exits because failRun threw.
Crash(w) ==
    /\ worker[w].pc \notin {"Idle", "Down"}
    /\ worker' = [worker EXCEPT ![w] = [IdleWorker EXCEPT !.pc = "Down"]]
    /\ UNCHANGED <<run, job, pub, nextExec>>

Restart(w) ==
    /\ worker[w].pc = "Down"
    /\ worker' = [worker EXCEPT ![w] = IdleWorker]
    /\ UNCHANGED <<run, job, pub, nextExec>>

-----------------------------------------------------------------------------

OperatorStep ==
    \/ \E r \in Run : Enqueue(r)
    \/ \E r \in Run, a \in 1 .. MaxAttempt, scope \in {"DISCOVERY", "CONTENT"},
          selected \in SUBSET Issue : Retry(r, a, scope, selected)
    \/ \E r \in Run, a \in 1 .. MaxAttempt, e \in 1 .. (nextExec - 1) :
          Interrupt(r, a, e)
    \/ \E i \in Issue : Withdraw(i)

Processing(w) ==
    \/ \E candidates \in SUBSET Issue : Classify(w, candidates)
    \/ \E i \in Issue : SkipCandidate(w, i) \/ RegisterIssue(w, i)
    \/ EndDiscovery(w) \/ ListJobs(w)
    \/ \E i \in Issue : \/ ClaimJob(w, i)
                        \/ SaveJobSuccess(w, i)
                        \/ SaveJobFailure(w, i)
    \/ JobError(w) \/ RunError(w) \/ FailRun(w) \/ CompleteRun(w)

WorkerStep(w) ==
    \/ \E r \in Run : ClaimRun(w, r)
    \/ Processing(w)
    \/ Crash(w) \/ Restart(w)

Next == OperatorStep \/ \E w \in Worker : WorkerStep(w)

Spec == Init /\ [][Next]_vars

\* A worker that runs keeps running, a stopped one is restarted, and the
\* operator eventually clears a run whose execution is gone.
Fairness ==
    /\ \A w \in Worker : /\ WF_vars(Processing(w))
                         /\ WF_vars(Restart(w))
                         /\ WF_vars(\E r \in Run : ClaimRun(w, r))
    /\ \A r \in Run : WF_vars(\E a \in 1 .. MaxAttempt,
                                 e \in 1 .. (nextExec - 1) :
                                 Interrupt(r, a, e))

FairSpec == Spec /\ Fairness

-----------------------------------------------------------------------------
(* What a state of the tables and of the processes may be.                 *)

\* Every column and every field a worker holds has its type; a discovery
\* never counts more registrations than its limit (pipeline.worker.ts, the
\* maxNewIssues test before registerIssue).
TypeOK ==
    /\ run \in [Run -> RunRecord]
    /\ job \in [Issue -> JobRecord]
    /\ pub \in [Issue -> Publication]
    /\ worker \in [Worker -> WorkerRecord]
    /\ nextExec \in Nat \ {0}

\* At most one run is queued or running, whatever mix of new requests and
\* retries the operator sends: the only lock the whole pipeline has.
OneActiveRun ==
    \A r, q \in Run :
        run[r].status \in Active /\ run[q].status \in Active => r = q

\* No two processes ever work on the same attempt of the same run, even when
\* a process believed dead is still running: an attempt is claimed once, which
\* is what lets registerIssue check the attempt and not the execution.
SoleExecution ==
    \A v, w \in Worker :
        /\ v # w
        /\ worker[v].run \in Run
        /\ worker[v].run = worker[w].run
        => worker[v].attempt # worker[w].attempt

\* What a process remembers of its run and what the row says never disagree in
\* a way that lets a stale process pass for the owner: an execution id is in
\* the row of the run and attempt it was issued for or in none, and a process
\* that remembers the row's attempt while the run is RUNNING is its owner.
Ownership ==
    /\ \A w \in Worker :
          /\ worker[w].pc \in {"Idle", "Down"} <=> worker[w].run = NoRun
          /\ worker[w].run = NoRun => worker[w].exec = 0
    /\ \A r \in Run :
          /\ run[r].exec < nextExec
          /\ run[r].status = "RUNNING" => run[r].exec # 0
          /\ run[r].status = "ABSENT" <=> run[r].attempt = 0
    /\ \A w \in Worker, r \in Run :
          worker[w].run = r =>
             /\ worker[w].attempt \in 1 .. run[r].attempt
             /\ worker[w].exec \in 1 .. (nextExec - 1)
             /\ worker[w].attempt = run[r].attempt =>
                   /\ run[r].status # "QUEUED"
                   /\ run[r].status = "RUNNING" => run[r].exec = worker[w].exec
    /\ \A w \in Worker, r \in Run :
          worker[w].exec = run[r].exec /\ run[r].exec # 0 =>
             /\ worker[w].run = r
             /\ worker[w].attempt = run[r].attempt

\* The running attempt has at most one job in progress: processQueuedJobs is
\* sequential and every way out of processJob closes the job it claimed.
OneJobAtATime ==
    \A r \in Run : run[r].status = "RUNNING" =>
        \A i, k \in {x \in JobsOf(r) : /\ job[x].status = "RUNNING"
                                      /\ job[x].attempt = run[r].attempt} :
            i = k

\* A finished run tells the truth about its jobs, and no late write of an old
\* process makes it untrue afterwards (completeRun, interrupt).
RunAgreesWithJobs ==
    \A r \in Run :
        /\ run[r].status = "SUCCEEDED" =>
              \A i \in JobsOf(r) : job[i].status = "SUCCEEDED"
        /\ run[r].status = "PARTIALLY_SUCCEEDED" =>
              /\ \E i \in JobsOf(r) : job[i].status = "SUCCEEDED"
              /\ \E i \in JobsOf(r) : job[i].status # "SUCCEEDED"

\* Readers see an issue exactly when its job succeeded (and nobody withdrew
\* it): interrupts, retries and late failures never separate the two.
PublishedIffSucceeded ==
    \A i \in Issue :
        /\ pub[i] = "PUBLISHED" => job[i].status = "SUCCEEDED"
        /\ job[i].status = "SUCCEEDED" => pub[i] \in {"PUBLISHED", "WITHDRAWN"}

\* A job left unfinished by an earlier attempt belongs to a withdrawn issue:
\* every other one was put back in the queue by the retry (or closed by the
\* interrupt), so an attempt never forgets work.
NoForgottenJob ==
    \A r \in Run : \A i \in JobsOf(r) :
        job[i].status \in Unfinished /\ job[i].attempt < run[r].attempt
        => pub[i] = "WITHDRAWN"

\* Over all its attempts, and with old processes still registering, a run
\* creates at most maxNewIssues issues per attempt.
JobBudget ==
    \A r \in Run : Cardinality(JobsOf(r)) =< MaxNewIssues * run[r].attempt

\* What a worker may take on: the two together.
WorkerLimits == OneJobAtATime /\ JobBudget

-----------------------------------------------------------------------------
(* What a step may never do.                                               *)

\* A process changes jobs (registering, claiming, closing) only while it holds
\* the run: the same id, attempt and execution, RUNNING.  registerIssue and the
\* job statements each check only a part of that.
OnlyOwnerWrites ==
    [][worker' # worker /\ job' # job
       => \E w \in Worker : worker'[w] # worker[w] /\ HoldsRun(w)]_vars

\* A succeeded job is never touched again, by a late failure of the same
\* worker, an interrupt or a retry; nor is a failed job of a withdrawn issue.
SettledJobFrozen ==
    [][\A i \in Issue :
         \/ job[i].status = "SUCCEEDED"
         \/ job[i].status = "FAILED" /\ pub[i] = "WITHDRAWN"
         => job'[i] = job[i]]_vars

\* A withdrawn issue is never published again (issue-pipeline.md: there is no
\* automatic republication).
WithdrawnStays ==
    [][\A i \in Issue : pub[i] = "WITHDRAWN" => pub'[i] = "WITHDRAWN"]_vars

\* When the operator only interrupts executions that have ended, nobody but
\* the owner changes a run that a live process holds, stale requests included.
InterruptSparesLive ==
    [][\A w \in Worker :
         HoldsRun(w) /\ worker'[w] = worker[w]
         => run'[worker[w].run] = run[worker[w].run]]_vars

-----------------------------------------------------------------------------
(* What eventually happens.                                                *)

\* A run that was accepted ends: it never holds the global slot for ever.
ActiveRunEnds ==
    \A r \in Run : run[r].status \in Active ~> run[r].status \notin Active

-----------------------------------------------------------------------------
(* What the documents say and the code does not do.                        *)

\* issue-content-pipeline-design.html: when its jobs have been processed the
\* run is closed.  A worker that leaves its run behind, idle and alive, did not.
WorkerClosesItsRun ==
    [][\A w \in Worker :
         HoldsRun(w) /\ worker'[w].pc = "Idle"
         => run'[worker[w].run].status # "RUNNING"]_vars

\* issue-pipeline.md: an interrupted run is FAILED or PARTIALLY_SUCCEEDED.
\* A run that no worker step settles was settled by an interrupt.
InterruptNeverSucceeds ==
    [][\A r \in Run :
         /\ worker' = worker
         /\ run[r].status = "RUNNING"
         /\ run'[r].status # "RUNNING"
         => run'[r].status \in Retryable]_vars

-----------------------------------------------------------------------------
(* The pipeline implements the publication gate.                           *)

GateSlot ==
    IF \E r \in Run : run[r].status \in Active
    THEN LET r == CHOOSE q \in Run : run[q].status \in Active
         IN  [run |-> r, attempt |-> run[r].attempt,
              live |-> run[r].status = "RUNNING"]
    ELSE [run |-> NoRun, attempt |-> 0, live |-> FALSE]

Gate == INSTANCE PublicationGate
    WITH slot <- GateSlot,
         last <- [r \in Run |-> run[r].attempt],
         phase <- pub,
         ticket <- [i \in Issue |-> [run |-> job[i].run,
                                     attempt |-> job[i].attempt]]

\* Whatever processes and requests interleave, readers see a publication gate:
\* one slot, growing attempts, publication only by the attempt that holds both
\* the slot and the issue.
GateSpec == Gate!Spec
=============================================================================
