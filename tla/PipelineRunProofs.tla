------------------------- MODULE PipelineRunProofs -------------------------
(***************************************************************************)
(* Proofs about the two implementations of PublicationGate, for every      *)
(* number of runs, issues, processes and attempts: the pipeline on the     *)
(* database, and the double that its tests run on.                         *)
(***************************************************************************)
EXTENDS PipelineRun, InMemoryPipeline, TLAPS, FiniteSetTheorems

\* A worker with no run.
LEMMA IdleWorkerType == IdleWorker \in WorkerRecord
BY PipelineAssumption DEF IdleWorker, WorkerRecord, Pc

\* The initial state has the types.
LEMMA TypeInit == Init => TypeOK
BY PipelineAssumption, IdleWorkerType
DEF Init, TypeOK, RunRecord, JobRecord, WorkerRecord, IdleWorker,
         RunStatus, JobStatus, FailureKind, Publication, Scope, Pc

\* Every step keeps the types.
LEMMA TypeStep == TypeOK /\ [Next]_vars => TypeOK'
<1> USE PipelineAssumption
<1>0. ASSUME TypeOK
      PROVE  /\ \A w \in Worker : worker[w] \in WorkerRecord
             /\ \A i \in Issue : job[i] \in JobRecord
  BY <1>0 DEF TypeOK
<1>1. ASSUME TypeOK, NEW w \in Worker PROVE BackToJobs(w) \in WorkerRecord
  BY <1>1, <1>0 DEF BackToJobs, WorkerRecord, Pc
<1>2. IdleWorker \in WorkerRecord
  BY IdleWorkerType
<1>3. TypeOK /\ [Next]_vars => TypeOK'
  <2> SUFFICES ASSUME TypeOK, [Next]_vars PROVE TypeOK'
    OBVIOUS
  <2>1. ASSUME NEW r \in Run, Enqueue(r) PROVE TypeOK'
    BY <2>1 DEF TypeOK, Enqueue, RunRecord, RunStatus, Active, Scope
  <2>2. ASSUME NEW r \in Run, NEW a \in 1 .. MaxAttempt,
               NEW scope \in {"DISCOVERY", "CONTENT"},
               NEW selected \in SUBSET Issue, Retry(r, a, scope, selected)
        PROVE TypeOK'
    <3>1. NextAttempt(a) \in 0 .. MaxAttempt
      <4>1. a < MaxAttempt
        BY <2>2 DEF Retry
      <4>2. QED
        BY <4>1 DEF NextAttempt, PipelineAssumption
    <3>2. run' \in [Run -> RunRecord]
      BY <2>2, <3>1 DEF TypeOK, Retry, RunRecord, RunStatus, Active, Scope
    <3>3. ASSUME NEW i \in Issue PROVE job'[i] \in JobRecord
      BY <2>2, <3>1 DEF TypeOK, Retry, JobRecord, JobStatus, Unfinished, FailureKind
    <3>4. QED
      BY <2>2, <3>2, <3>3 DEF TypeOK, Retry
  <2>3. ASSUME NEW r \in Run, NEW a \in 1 .. MaxAttempt,
               NEW e \in 1 .. (nextExec - 1), Interrupt(r, a, e)
        PROVE TypeOK'
    <3>1. InterruptedStatus(r) \in RunStatus
      BY DEF InterruptedStatus, RunStatus, Retryable
    <3>2. run' \in [Run -> RunRecord]
      BY <2>3, <3>1 DEF TypeOK, Interrupt, RunRecord
    <3>3. ASSUME NEW i \in Issue PROVE job'[i] \in JobRecord
      BY <2>3 DEF TypeOK, Interrupt, JobRecord, JobStatus, FailureKind
    <3>4. QED
      BY <2>3, <3>2, <3>3 DEF TypeOK, Interrupt
  <2>4. ASSUME NEW i \in Issue, Withdraw(i) PROVE TypeOK'
    BY <2>4 DEF TypeOK, Withdraw, Publication
  <2>5. ASSUME NEW w \in Worker, NEW r \in Run, ClaimRun(w, r) PROVE TypeOK'
    <3>0. nextExec \in Nat
      BY DEF TypeOK
    <3>1. run' \in [Run -> RunRecord]
      <4>1. run[r] \in RunRecord
        BY DEF TypeOK
      <4>2. [run[r] EXCEPT !.status = "RUNNING", !.exec = nextExec] \in RunRecord
        BY <3>0, <4>1 DEF RunRecord, RunStatus, Active
      <4>3. QED
        BY <2>5, <4>2 DEF TypeOK, ClaimRun
    <3>2. worker' \in [Worker -> WorkerRecord]
      <4>1. run[r].attempt \in 0 .. MaxAttempt
        BY DEF TypeOK, RunRecord
      <4>2. \A p \in {"List", "Search"} :
              [IdleWorker EXCEPT !.pc = p, !.run = r, !.attempt = run[r].attempt,
                                 !.exec = nextExec] \in WorkerRecord
        BY <1>2, <3>0, <4>1 DEF WorkerRecord, Pc
      <4>3. QED
        BY <2>5, <4>2 DEF TypeOK, ClaimRun
    <3>3. QED
      BY <2>5, <3>1, <3>2 DEF TypeOK, ClaimRun
  <2>6. ASSUME NEW w \in Worker, NEW candidates \in SUBSET Issue,
               Classify(w, candidates)
        PROVE TypeOK'
    <3>1. worker' \in [Worker -> WorkerRecord]
      <4>1. [worker[w] EXCEPT !.pc = "Register", !.todo = candidates]
              \in WorkerRecord
        BY <1>0 DEF WorkerRecord, Pc
      <4>2. QED
        BY <2>6, <4>1 DEF TypeOK, Classify
    <3>2. QED
      BY <2>6, <3>1 DEF TypeOK, Classify
  <2>7. ASSUME NEW w \in Worker, NEW i \in Issue, SkipCandidate(w, i)
        PROVE TypeOK'
    <3>1. worker' \in [Worker -> WorkerRecord]
      <4>1. [worker[w] EXCEPT !.todo = @ \ {i}] \in WorkerRecord
        BY <1>0 DEF WorkerRecord
      <4>2. QED
        BY <2>7, <4>1 DEF TypeOK, SkipCandidate
    <3>2. QED
      BY <2>7, <3>1 DEF TypeOK, SkipCandidate
  <2>8. ASSUME NEW w \in Worker, NEW i \in Issue, RegisterIssue(w, i)
        PROVE TypeOK'
    <3>1. worker' \in [Worker -> WorkerRecord]
      <4>1. worker[w].created + 1 \in 0 .. MaxNewIssues
        BY <2>8 DEF TypeOK, WorkerRecord, RegisterIssue, BelowLimit
      <4>2. worker[w].todo \ {i} \in SUBSET Issue
        BY DEF TypeOK, WorkerRecord
      <4>3. /\ [worker[w] EXCEPT !.todo = @ \ {i}, !.created = @ + 1]
                 \in WorkerRecord
            /\ [worker[w] EXCEPT !.pc = "FailRun"] \in WorkerRecord
        BY <1>0, <4>1, <4>2 DEF WorkerRecord, Pc
      <4>4. QED
        BY <2>8, <4>3 DEF TypeOK, RegisterIssue
    <3>2. job' \in [Issue -> JobRecord]
      BY <2>8
      DEF TypeOK, RegisterIssue, WorkerRecord, JobRecord, JobStatus,
          Unfinished, FailureKind
    <3>3. QED
      BY <2>8, <3>1, <3>2 DEF TypeOK, RegisterIssue, Publication
  <2>9. ASSUME NEW w \in Worker, EndDiscovery(w) PROVE TypeOK'
    <3>1. worker' \in [Worker -> WorkerRecord]
      <4>1. [worker[w] EXCEPT !.pc = "List"] \in WorkerRecord
        BY <1>0 DEF WorkerRecord, Pc
      <4>2. QED
        BY <2>9, <4>1 DEF TypeOK, EndDiscovery
    <3>2. QED
      BY <2>9, <3>1 DEF TypeOK, EndDiscovery
  <2>10. ASSUME NEW w \in Worker, ListJobs(w) PROVE TypeOK'
    <3>1. worker' \in [Worker -> WorkerRecord]
      <4>1. JobsOf(worker[w].run) \in SUBSET Issue
        BY DEF JobsOf
      <4>2. [worker[w] EXCEPT !.pc = "Jobs", !.todo = JobsOf(worker[w].run)]
              \in WorkerRecord
        BY <1>0, <4>1 DEF WorkerRecord, Pc
      <4>3. QED
        BY <2>10, <4>2 DEF TypeOK, ListJobs
    <3>2. QED
      BY <2>10, <3>1 DEF TypeOK, ListJobs
  <2>11. ASSUME NEW w \in Worker, NEW i \in Issue, ClaimJob(w, i) PROVE TypeOK'
    <3>1. worker' \in [Worker -> WorkerRecord]
      <4>1. worker[w].todo \ {i} \in SUBSET Issue
        BY DEF TypeOK, WorkerRecord
      <4>2. /\ [worker[w] EXCEPT !.todo = @ \ {i}, !.pc = "Work", !.job = i]
                 \in WorkerRecord
            /\ [worker[w] EXCEPT !.todo = @ \ {i}] \in WorkerRecord
        BY <1>0, <4>1 DEF WorkerRecord, Pc
      <4>3. QED
        BY <2>11, <4>2 DEF TypeOK, ClaimJob
    <3>2. job' \in [Issue -> JobRecord]
      BY <2>11 DEF TypeOK, ClaimJob, JobRecord, JobStatus, Unfinished
    <3>3. QED
      BY <2>11, <3>1, <3>2 DEF TypeOK, ClaimJob
  <2>12. ASSUME NEW w \in Worker, JobError(w) PROVE TypeOK'
    <3>1. worker' \in [Worker -> WorkerRecord]
      BY <2>12 DEF TypeOK, JobError, WorkerRecord, Pc
    <3>2. QED
      BY <2>12, <3>1 DEF TypeOK, JobError
  <2>13. ASSUME NEW w \in Worker, NEW i \in Issue, SaveJobSuccess(w, i)
         PROVE  TypeOK'
    <3>1. worker' \in [Worker -> WorkerRecord]
      <4>1. [worker[w] EXCEPT !.pc = "JobFail"] \in WorkerRecord
        BY <1>0 DEF WorkerRecord, Pc
      <4>2. QED
        BY <2>13, <1>1, <4>1 DEF TypeOK, SaveJobSuccess
    <3>2. job' \in [Issue -> JobRecord]
      <4>1. [job[i] EXCEPT !.status = "SUCCEEDED", !.failure = "NONE"]
              \in JobRecord
        BY <1>0 DEF JobRecord, JobStatus, FailureKind
      <4>2. QED
        BY <2>13, <4>1 DEF TypeOK, SaveJobSuccess
    <3>3. QED
      BY <2>13, <3>1, <3>2 DEF TypeOK, SaveJobSuccess, Publication
  <2>14. ASSUME NEW w \in Worker, NEW i \in Issue, SaveJobFailure(w, i)
         PROVE  TypeOK'
    <3>1. worker' \in [Worker -> WorkerRecord]
      BY <2>14, <1>1 DEF TypeOK, SaveJobFailure
    <3>2. job' \in [Issue -> JobRecord]
      <4>1. [job[i] EXCEPT !.status = "FAILED", !.failure = "CONTENT"]
              \in JobRecord
        BY <1>0 DEF JobRecord, JobStatus, FailureKind
      <4>2. QED
        BY <2>14, <4>1 DEF TypeOK, SaveJobFailure
    <3>3. QED
      BY <2>14, <3>1, <3>2 DEF TypeOK, SaveJobFailure
  <2>15. ASSUME NEW w \in Worker, RunError(w) PROVE TypeOK'
    <3>1. worker' \in [Worker -> WorkerRecord]
      BY <2>15 DEF TypeOK, RunError, WorkerRecord, Pc
    <3>2. QED
      BY <2>15, <3>1 DEF TypeOK, RunError
  <2>16. ASSUME NEW w \in Worker, FailRun(w) PROVE TypeOK'
    <3>1. worker' \in [Worker -> WorkerRecord]
      BY <2>16 DEF TypeOK, FailRun, WorkerRecord, IdleWorker, Pc
    <3>2. run' \in [Run -> RunRecord]
      BY <2>16 DEF TypeOK, FailRun, RunRecord, RunStatus, Retryable
    <3>3. QED
      BY <2>16, <3>1, <3>2 DEF TypeOK, FailRun
  <2>17. ASSUME NEW w \in Worker, CompleteRun(w) PROVE TypeOK'
    <3>1. worker' \in [Worker -> WorkerRecord]
      BY <2>17 DEF TypeOK, CompleteRun, WorkerRecord, IdleWorker, Pc
    <3>2. run' \in [Run -> RunRecord]
      <4>1. \A r \in Run : CompletedStatus(r) \in RunStatus
        BY DEF CompletedStatus, RunStatus, Retryable
      <4>2. HoldsRun(w) => worker[w].run \in Run
        BY DEF HoldsRun
      <4>3. QED
        BY <2>17, <4>1, <4>2 DEF TypeOK, CompleteRun, RunRecord
    <3>3. QED
      BY <2>17, <3>1, <3>2 DEF TypeOK, CompleteRun
  <2>18. ASSUME NEW w \in Worker, Crash(w) \/ Restart(w) PROVE TypeOK'
    <3>1. worker' \in [Worker -> WorkerRecord]
      BY <2>18 DEF TypeOK, Crash, Restart, WorkerRecord, IdleWorker, Pc
    <3>2. QED
      BY <2>18, <3>1 DEF TypeOK, Crash, Restart
  <2>19. CASE UNCHANGED vars
    BY <2>19 DEF TypeOK, vars
  <2>20. QED
    BY <2>1, <2>2, <2>3, <2>4, <2>5, <2>6, <2>7, <2>8, <2>9, <2>10, <2>11,
       <2>12, <2>13, <2>14, <2>15, <2>16, <2>17, <2>18, <2>19
    DEF Next, OperatorStep, WorkerStep, Processing
<1>4. QED
  BY <1>3

\* Every variable keeps its type.
THEOREM TypeCorrect == Spec => []TypeOK
BY TypeInit, TypeStep, PTL DEF Spec

-----------------------------------------------------------------------------
(* Who owns a run.  Only enqueue, retry and claimNext issue an attempt or   *)
(* an execution; every other step leaves the identities of the processes    *)
(* and of the runs alone, except that a process may forget its run and that *)
(* a RUNNING run may end.                                                   *)

RunsKeepIdentity ==
    \A r \in Run :
        /\ run'[r].attempt = run[r].attempt
        /\ run'[r].exec = run[r].exec
        /\ \/ run'[r].status = run[r].status
           \/ run[r].status = "RUNNING" /\ run'[r].status \notin Active \cup {"ABSENT"}

WorkersKeepIdentity ==
    \A w \in Worker :
        /\ worker'[w].pc \in {"Idle", "Down"} <=> worker'[w].run = NoRun
        /\ \/ worker'[w].run = NoRun /\ worker'[w].exec = 0
           \/ /\ worker'[w].run = worker[w].run
              /\ worker'[w].attempt = worker[w].attempt
              /\ worker'[w].exec = worker[w].exec

Quiet == RunsKeepIdentity /\ WorkersKeepIdentity /\ nextExec' = nextExec

\* The invariant of the proofs about ownership.
OwnershipInv == TypeOK /\ Ownership /\ SoleExecution /\ OneActiveRun

\* Every step that is not an enqueue, a retry or a claim is quiet.
LEMMA QuietSteps ==
    ASSUME TypeOK, Ownership, [Next]_vars
    PROVE  \/ Quiet
           \/ \E r \in Run : Enqueue(r)
           \/ \E r \in Run, a \in 1 .. MaxAttempt,
                 scope \in {"DISCOVERY", "CONTENT"}, selected \in SUBSET Issue :
                 Retry(r, a, scope, selected)
           \/ \E w \in Worker, r \in Run : ClaimRun(w, r)
<1> USE PipelineAssumption
<1>0. /\ \A w \in Worker : worker[w] \in WorkerRecord
      /\ \A r \in Run : run[r] \in RunRecord
  BY DEF TypeOK
<1>1. UNCHANGED run => RunsKeepIdentity
  BY DEF RunsKeepIdentity
<1>3. UNCHANGED worker => WorkersKeepIdentity
  BY DEF WorkersKeepIdentity, Ownership
<1>4. ASSUME NEW r \in Run, NEW a \in 1 .. MaxAttempt,
             NEW e \in 1 .. (nextExec - 1), Interrupt(r, a, e)
      PROVE  Quiet
  <2>1. InterruptedStatus(r) \notin Active \cup {"ABSENT"}
    BY DEF InterruptedStatus, Active
  <2>2. RunsKeepIdentity
    BY <1>4, <2>1
    DEF Interrupt, InterruptAllowed, RunsKeepIdentity, TypeOK, RunRecord
  <2>3. QED
    BY <1>3, <1>4, <2>2 DEF Interrupt, Quiet
<1>5. ASSUME NEW i \in Issue, Withdraw(i) PROVE Quiet
  BY <1>1, <1>3, <1>5 DEF Withdraw, Quiet
<1>6. ASSUME NEW w \in Worker, NEW candidates \in SUBSET Issue, Classify(w, candidates)
      PROVE  Quiet
  <2>1. WorkersKeepIdentity
    BY <1>0, <1>6
    DEF Classify, WorkersKeepIdentity, TypeOK, Ownership, WorkerRecord
  <2>2. QED
    BY <1>1, <1>6, <2>1 DEF Classify, Quiet
<1>7. ASSUME NEW w \in Worker, NEW i \in Issue, SkipCandidate(w, i)
      PROVE  Quiet
  <2>1. WorkersKeepIdentity
    BY <1>0, <1>7
    DEF SkipCandidate, WorkersKeepIdentity, TypeOK, Ownership, WorkerRecord
  <2>2. QED
    BY <1>1, <1>7, <2>1 DEF SkipCandidate, Quiet
<1>8. ASSUME NEW w \in Worker, NEW i \in Issue, RegisterIssue(w, i)
      PROVE  Quiet
  <2>0. worker[w].pc \notin {"Idle", "Down"}
    BY <1>8 DEF RegisterIssue
  <2>1. WorkersKeepIdentity
    <3>1. CASE worker' = [worker EXCEPT ![w] = [worker[w] EXCEPT
                  !.todo = @ \ {i}, !.created = @ + 1]]
      BY <1>0, <2>0, <3>1
      DEF WorkersKeepIdentity, TypeOK, Ownership, WorkerRecord
    <3>2. CASE worker' = [worker EXCEPT ![w].pc = "FailRun"]
      BY <1>0, <2>0, <3>2
      DEF WorkersKeepIdentity, TypeOK, Ownership, WorkerRecord
    <3>3. QED
      BY <1>8, <3>1, <3>2 DEF RegisterIssue
  <2>2. QED
    BY <1>1, <1>8, <2>1 DEF RegisterIssue, Quiet
<1>9. ASSUME NEW w \in Worker, EndDiscovery(w)
      PROVE  Quiet
  <2>1. WorkersKeepIdentity
    BY <1>0, <1>9
    DEF EndDiscovery, WorkersKeepIdentity, TypeOK, Ownership, WorkerRecord
  <2>2. QED
    BY <1>1, <1>9, <2>1 DEF EndDiscovery, Quiet
<1>10. ASSUME NEW w \in Worker, ListJobs(w)
      PROVE  Quiet
  <2>1. WorkersKeepIdentity
    BY <1>0, <1>10
    DEF ListJobs, WorkersKeepIdentity, TypeOK, Ownership, WorkerRecord
  <2>2. QED
    BY <1>1, <1>10, <2>1 DEF ListJobs, Quiet
<1>11. ASSUME NEW w \in Worker, NEW i \in Issue, ClaimJob(w, i)
      PROVE  Quiet
  <2>0. worker[w].pc \notin {"Idle", "Down"}
    BY <1>11 DEF ClaimJob
  <2>1. WorkersKeepIdentity
    <3>1. CASE worker' = [worker EXCEPT ![w] = [worker[w] EXCEPT
                  !.todo = @ \ {i}, !.pc = "Work", !.job = i]]
      BY <1>0, <2>0, <3>1
      DEF WorkersKeepIdentity, TypeOK, Ownership, WorkerRecord
    <3>2. CASE worker' = [worker EXCEPT ![w].todo = @ \ {i}]
      BY <1>0, <2>0, <3>2
      DEF WorkersKeepIdentity, TypeOK, Ownership, WorkerRecord
    <3>3. QED
      BY <1>11, <3>1, <3>2 DEF ClaimJob
  <2>2. QED
    BY <1>1, <1>11, <2>1 DEF ClaimJob, Quiet
<1>12. ASSUME NEW w \in Worker, JobError(w)
      PROVE  Quiet
  <2>1. WorkersKeepIdentity
    BY <1>0, <1>12
    DEF JobError, WorkersKeepIdentity, TypeOK, Ownership, WorkerRecord
  <2>2. QED
    BY <1>1, <1>12, <2>1 DEF JobError, Quiet
<1>13. ASSUME NEW w \in Worker, NEW i \in Issue, SaveJobSuccess(w, i)
      PROVE  Quiet
  <2>0. worker[w].pc \notin {"Idle", "Down"}
    BY <1>13 DEF SaveJobSuccess
  <2>1. WorkersKeepIdentity
    <3>1. CASE worker' = [worker EXCEPT ![w] = BackToJobs(w)]
      BY <1>0, <2>0, <3>1
      DEF BackToJobs, WorkersKeepIdentity, TypeOK, Ownership, WorkerRecord
    <3>2. CASE worker' = [worker EXCEPT ![w].pc = "JobFail"]
      BY <1>0, <2>0, <3>2
      DEF BackToJobs, WorkersKeepIdentity, TypeOK, Ownership, WorkerRecord
    <3>3. QED
      BY <1>13, <3>1, <3>2 DEF SaveJobSuccess
  <2>2. QED
    BY <1>1, <1>13, <2>1 DEF SaveJobSuccess, BackToJobs, Quiet
<1>14. ASSUME NEW w \in Worker, NEW i \in Issue, SaveJobFailure(w, i)
      PROVE  Quiet
  <2>1. WorkersKeepIdentity
    BY <1>0, <1>14
    DEF SaveJobFailure, BackToJobs, WorkersKeepIdentity, TypeOK, Ownership, WorkerRecord
  <2>2. QED
    BY <1>1, <1>14, <2>1 DEF SaveJobFailure, BackToJobs, Quiet
<1>15. ASSUME NEW w \in Worker, RunError(w)
      PROVE  Quiet
  <2>1. WorkersKeepIdentity
    BY <1>0, <1>15
    DEF RunError, WorkersKeepIdentity, TypeOK, Ownership, WorkerRecord
  <2>2. QED
    BY <1>1, <1>15, <2>1 DEF RunError, Quiet
<1>16. ASSUME NEW w \in Worker, Crash(w) \/ Restart(w)
      PROVE  Quiet
  <2>1. WorkersKeepIdentity
    BY <1>0, <1>16
    DEF Crash, Restart, IdleWorker, WorkersKeepIdentity, TypeOK, Ownership, WorkerRecord
  <2>2. QED
    BY <1>1, <1>16, <2>1 DEF Crash, Restart, IdleWorker, Quiet
<1>17. ASSUME NEW w \in Worker, FailRun(w) PROVE Quiet
  <2>1. WorkersKeepIdentity
    BY <1>0, <1>17
    DEF FailRun, IdleWorker, WorkersKeepIdentity, TypeOK, Ownership, WorkerRecord
  <2>2. RunsKeepIdentity
    BY <1>0, <1>17
    DEF FailRun, HoldsRun, Active, RunsKeepIdentity, TypeOK, RunRecord
  <2>3. QED
    BY <1>17, <2>1, <2>2 DEF FailRun, Quiet
<1>18. ASSUME NEW w \in Worker, CompleteRun(w) PROVE Quiet
  <2>1. WorkersKeepIdentity
    BY <1>0, <1>18
    DEF CompleteRun, IdleWorker, WorkersKeepIdentity, TypeOK, Ownership, WorkerRecord
  <2>2. RunsKeepIdentity
    BY <1>0, <1>18
    DEF CompleteRun, CompletedStatus, HoldsRun, Active, RunsKeepIdentity, TypeOK, RunRecord
  <2>3. QED
    BY <1>18, <2>1, <2>2 DEF CompleteRun, Quiet
<1>19. UNCHANGED vars => Quiet
  BY <1>1, <1>3 DEF vars, Quiet
<1>20. QED
  BY <1>4, <1>5, <1>6, <1>7, <1>8, <1>9, <1>10, <1>11, <1>12, <1>13, <1>14,
     <1>15, <1>16, <1>17, <1>18, <1>19
  DEF Next, OperatorStep, WorkerStep, Processing

\* The rows of the runs and the memory of the processes agree about who owns
\* what, one run at most is active, and an attempt has one process.
LEMMA OwnershipInductive == OwnershipInv /\ [Next]_vars => OwnershipInv'
<1> SUFFICES ASSUME OwnershipInv, [Next]_vars
             PROVE  Ownership' /\ SoleExecution' /\ OneActiveRun'
  BY TypeStep DEF OwnershipInv
<1> USE PipelineAssumption
<1>0. /\ TypeOK /\ Ownership /\ SoleExecution /\ OneActiveRun
      /\ TypeOK'
  BY TypeStep DEF OwnershipInv
<1>1. /\ \A w \in Worker : /\ worker[w] \in WorkerRecord
                           /\ worker'[w] \in WorkerRecord
      /\ \A r \in Run : run[r] \in RunRecord /\ run'[r] \in RunRecord
      /\ nextExec \in Nat \ {0} /\ nextExec' \in Nat \ {0}
  BY <1>0 DEF TypeOK
<1>2. CASE Quiet
  <2>1. Ownership'
    BY <1>0, <1>1, <1>2
    DEF Ownership, Quiet, RunsKeepIdentity, WorkersKeepIdentity, WorkerRecord,
        RunRecord, Active
  <2>2. SoleExecution'
    BY <1>0, <1>2 DEF SoleExecution, Quiet, WorkersKeepIdentity
  <2>3. OneActiveRun'
    BY <1>0, <1>2 DEF OneActiveRun, Quiet, RunsKeepIdentity
  <2>4. QED
    BY <2>1, <2>2, <2>3
<1>3. ASSUME NEW r \in Run, Enqueue(r)
      PROVE  Ownership' /\ SoleExecution' /\ OneActiveRun'
  <2>1. \A w \in Worker : worker[w].run # r
    BY <1>0, <1>1, <1>3 DEF Enqueue, Ownership, WorkerRecord, RunRecord
  <2>2. Ownership'
    BY <1>0, <1>1, <1>3, <2>1 DEF Enqueue, Ownership, TypeOK
  <2>3. SoleExecution' /\ OneActiveRun'
    BY <1>0, <1>3 DEF Enqueue, SoleExecution, OneActiveRun, NoOtherActive, TypeOK
  <2>4. QED
    BY <2>2, <2>3
<1>4. ASSUME NEW r \in Run, NEW a \in 1 .. MaxAttempt,
             NEW scope \in {"DISCOVERY", "CONTENT"},
             NEW selected \in SUBSET Issue, Retry(r, a, scope, selected)
      PROVE  Ownership' /\ SoleExecution' /\ OneActiveRun'
  <2>1. /\ a = run[r].attempt
        /\ run' = [run EXCEPT ![r] = [status |-> "QUEUED", attempt |-> a + 1,
                                     exec |-> 0, scope |-> scope]]
        /\ UNCHANGED <<worker, nextExec>>
        /\ NoOtherActive(r)
    BY <1>4 DEF Retry, NextAttempt
  <2>2. Ownership'
    BY <1>0, <1>1, <2>1 DEF Ownership, TypeOK, WorkerRecord, RunRecord
  <2>3. SoleExecution' /\ OneActiveRun'
    BY <1>0, <2>1 DEF SoleExecution, OneActiveRun, NoOtherActive, TypeOK
  <2>4. QED
    BY <2>2, <2>3
<1>5. ASSUME NEW w \in Worker, NEW r \in Run, ClaimRun(w, r)
      PROVE  Ownership' /\ SoleExecution' /\ OneActiveRun'
  <2>1. /\ worker'[w].run = r
        /\ worker'[w].attempt = run[r].attempt
        /\ worker'[w].exec = nextExec
        /\ worker'[w].pc \notin {"Idle", "Down"}
        /\ \A v \in Worker \ {w} : worker'[v] = worker[v]
    BY <1>0, <1>5 DEF ClaimRun, TypeOK, IdleWorker
  <2>2. /\ run[r].status = "QUEUED"
        /\ run'[r].status = "RUNNING"
        /\ run'[r].exec = nextExec
        /\ run'[r].attempt = run[r].attempt
        /\ \A q \in Run \ {r} : run'[q] = run[q]
        /\ nextExec' = nextExec + 1
    BY <1>0, <1>1, <1>5 DEF ClaimRun, TypeOK, RunRecord
  <2>3. \A v \in Worker : worker[v].run = r => worker[v].attempt # run[r].attempt
    BY <1>0, <2>2 DEF Ownership
  <2>4. Ownership'
    <3>1. \A v \in Worker :
            /\ worker'[v].pc \in {"Idle", "Down"} <=> worker'[v].run = NoRun
            /\ worker'[v].run = NoRun => worker'[v].exec = 0
      BY <1>0, <2>1 DEF Ownership
    <3>2. \A q \in Run :
            /\ run'[q].exec < nextExec'
            /\ run'[q].status = "RUNNING" => run'[q].exec # 0
            /\ run'[q].status = "ABSENT" <=> run'[q].attempt = 0
      BY <1>0, <1>1, <2>2 DEF Ownership, RunRecord
    <3>3. ASSUME NEW v \in Worker, NEW q \in Run, worker'[v].run = q
          PROVE  /\ worker'[v].attempt \in 1 .. run'[q].attempt
                 /\ worker'[v].exec \in 1 .. (nextExec' - 1)
                 /\ worker'[v].attempt = run'[q].attempt =>
                       /\ run'[q].status # "QUEUED"
                       /\ run'[q].status = "RUNNING"
                            => run'[q].exec = worker'[v].exec
      <4>1. CASE v = w
        <5>1. q = r /\ run[r].attempt \in 1 .. run[r].attempt
          BY <1>0, <1>1, <2>1, <2>2, <3>3, <4>1 DEF Ownership, RunRecord
        <5>2. QED
          BY <1>1, <2>1, <2>2, <4>1, <5>1
      <4>2. CASE v # w
        BY <1>0, <1>1, <2>1, <2>2, <2>3, <3>3, <4>2
        DEF Ownership, WorkerRecord, RunRecord
      <4>3. QED
        BY <4>1, <4>2
    <3>4. ASSUME NEW v \in Worker, NEW q \in Run,
                 worker'[v].exec = run'[q].exec, run'[q].exec # 0
          PROVE  worker'[v].run = q /\ worker'[v].attempt = run'[q].attempt
      <4>1. \A x \in Worker : worker[x].exec < nextExec
        BY <1>0, <1>1 DEF Ownership, WorkerRecord
      <4>2. QED
        BY <1>0, <1>1, <2>1, <2>2, <3>4, <4>1 DEF Ownership, WorkerRecord, RunRecord
    <3>5. QED
      BY <3>1, <3>2, <3>3, <3>4 DEF Ownership
  <2>5. SoleExecution'
    BY <1>0, <2>1, <2>3 DEF SoleExecution
  <2>6. OneActiveRun'
    BY <1>0, <2>2 DEF OneActiveRun, Active
  <2>7. QED
    BY <2>4, <2>5, <2>6
<1>6. QED
  BY <1>0, <1>2, <1>3, <1>4, <1>5, QuietSteps

\* The ownership invariant holds in every reachable state.
THEOREM OwnershipInvCorrect == Spec => []OwnershipInv
<1>1. Init => OwnershipInv
  BY PipelineAssumption, TypeInit
  DEF Init, OwnershipInv, Ownership, SoleExecution, OneActiveRun, IdleWorker,
      Active
<1>2. QED
  BY <1>1, OwnershipInductive, PTL DEF Spec

\* The rows and what the processes remember of them never disagree.
THEOREM OwnershipCorrect == Spec => []Ownership
BY OwnershipInvCorrect, PTL DEF OwnershipInv

\* At most one run is active, however requests and retries interleave.
THEOREM OneActiveRunCorrect == Spec => []OneActiveRun
BY OwnershipInvCorrect, PTL DEF OwnershipInv

\* An attempt of a run is executed by at most one process.
THEOREM SoleExecutionCorrect == Spec => []SoleExecution
BY OwnershipInvCorrect, PTL DEF OwnershipInv

-----------------------------------------------------------------------------
(* What a step may never do.                                               *)

\* A process that passes a check of the repository holds its run.  For
\* registerIssue the attempt alone is enough, because an attempt is claimed
\* once; for the job statements the execution is.
LEMMA ChecksFence ==
    ASSUME OwnershipInv, NEW w \in Worker, worker[w].pc \notin {"Idle", "Down"}
    PROVE  /\ Admitted(w) => HoldsRun(w)
           /\ \A i \in Issue :
                 OwnsJob(w, i) => HoldsRun(w) /\ job[i].run = worker[w].run
<1>1. /\ worker[w] \in WorkerRecord
      /\ worker[w].run # NoRun
  BY DEF OwnershipInv, TypeOK, Ownership
<1>2. worker[w].run \in Run /\ worker[w].exec # 0
  BY <1>1 DEF OwnershipInv, Ownership, WorkerRecord
<1>3. Admitted(w) => HoldsRun(w)
  BY <1>2 DEF OwnershipInv, Ownership, Admitted, HoldsRun, Active
<1>4. ASSUME NEW i \in Issue, OwnsJob(w, i)
      PROVE  HoldsRun(w) /\ job[i].run = worker[w].run
  BY <1>2, <1>4 DEF OwnershipInv, Ownership, OwnsJob, HoldsRun
<1>5. QED
  BY <1>3, <1>4

\* Only the owner of a run changes jobs.
THEOREM OnlyOwnerWritesCorrect == Spec => OnlyOwnerWrites
<1>1. OwnershipInv /\ [Next]_vars =>
        [worker' # worker /\ job' # job
           => \E w \in Worker : worker'[w] # worker[w] /\ HoldsRun(w)]_vars
  <2> SUFFICES ASSUME OwnershipInv, Next, worker' # worker, job' # job
               PROVE  \E w \in Worker : worker'[w] # worker[w] /\ HoldsRun(w)
    OBVIOUS
  <2>0. worker \in [Worker -> WorkerRecord]
    BY DEF OwnershipInv, TypeOK
  <2>1. ASSUME NEW w \in Worker, NEW i \in Issue, RegisterIssue(w, i)
        PROVE  worker'[w] # worker[w] /\ HoldsRun(w)
    <3>1. HoldsRun(w)
      BY <2>1, ChecksFence DEF RegisterIssue
    <3>2. i \notin worker'[w].todo
      <4>1. worker' = [worker EXCEPT ![w] = [worker[w] EXCEPT
                         !.todo = @ \ {i}, !.created = @ + 1]]
        BY <2>1 DEF RegisterIssue
      <4>2. QED
        BY <2>0, <4>1 DEF WorkerRecord
    <3>3. QED
      BY <2>1, <3>1, <3>2 DEF RegisterIssue
  <2>2. ASSUME NEW w \in Worker, NEW i \in Issue, ClaimJob(w, i)
        PROVE  worker'[w] # worker[w] /\ HoldsRun(w)
    <3>1. HoldsRun(w)
      BY <2>2, ChecksFence DEF ClaimJob
    <3>2. worker'[w].pc = "Work"
      BY <2>0, <2>2 DEF ClaimJob, WorkerRecord
    <3>3. QED
      BY <2>2, <3>1, <3>2 DEF ClaimJob
  <2>3. ASSUME NEW w \in Worker, NEW i \in Issue, SaveJobSuccess(w, i)
        PROVE  worker'[w] # worker[w] /\ HoldsRun(w)
    <3>1. HoldsRun(w)
      BY <2>3, ChecksFence DEF SaveJobSuccess, Adoptable
    <3>2. worker'[w].pc \in {"Jobs", "JobFail"}
      <4>1. CASE worker' = [worker EXCEPT ![w] = BackToJobs(w)]
        BY <2>0, <4>1 DEF BackToJobs, WorkerRecord
      <4>2. CASE worker' = [worker EXCEPT ![w].pc = "JobFail"]
        BY <2>0, <4>2 DEF WorkerRecord
      <4>3. QED
        BY <2>3, <4>1, <4>2 DEF SaveJobSuccess
    <3>3. QED
      BY <2>3, <3>1, <3>2 DEF SaveJobSuccess
  <2>4. ASSUME NEW w \in Worker, NEW i \in Issue, SaveJobFailure(w, i)
        PROVE  worker'[w] # worker[w] /\ HoldsRun(w)
    <3>1. HoldsRun(w)
      BY <2>4, ChecksFence DEF SaveJobFailure, Adoptable
    <3>2. worker'[w].pc = "Jobs"
      BY <2>0, <2>4 DEF SaveJobFailure, BackToJobs, WorkerRecord
    <3>3. QED
      BY <2>4, <3>1, <3>2 DEF SaveJobFailure
  <2>5. \/ \E w \in Worker, i \in Issue :
              \/ RegisterIssue(w, i) \/ ClaimJob(w, i)
              \/ SaveJobSuccess(w, i) \/ SaveJobFailure(w, i)
    BY DEF Next, OperatorStep, WorkerStep, Processing, Enqueue, Retry,
           Interrupt, Withdraw, ClaimRun, Classify, SkipCandidate,
           EndDiscovery, ListJobs, JobError, RunError, FailRun, CompleteRun,
           Crash, Restart
  <2>6. QED
    BY <2>1, <2>2, <2>3, <2>4, <2>5
<1>2. QED
  BY <1>1, OwnershipInvCorrect, PTL DEF Spec, OnlyOwnerWrites

\* Nobody but its owner changes the run of a live process, provided that the
\* operator interrupts only executions that no process carries.
THEOREM InterruptSparesLiveCorrect ==
    ASSUME OperatorConfirms PROVE Spec => InterruptSparesLive
<1>1. OwnershipInv /\ [Next]_vars =>
        [\A w \in Worker : HoldsRun(w) /\ worker'[w] = worker[w]
           => run'[worker[w].run] = run[worker[w].run]]_vars
  <2> SUFFICES ASSUME OwnershipInv, Next, NEW w \in Worker, HoldsRun(w),
                      worker'[w] = worker[w]
               PROVE  run'[worker[w].run] = run[worker[w].run]
    OBVIOUS
  <2>0. /\ run \in [Run -> RunRecord]
        /\ worker \in [Worker -> WorkerRecord]
        /\ worker[w].run \in Run
        /\ run[worker[w].run].status = "RUNNING"
        /\ run[worker[w].run].exec = worker[w].exec
        /\ run[worker[w].run].attempt = worker[w].attempt
    BY DEF OwnershipInv, TypeOK, HoldsRun
  <2>1. ASSUME NEW r \in Run, Enqueue(r)
        PROVE  run'[worker[w].run] = run[worker[w].run]
    BY <2>0, <2>1 DEF Enqueue
  <2>2. ASSUME NEW r \in Run, NEW a \in 1 .. MaxAttempt,
               NEW scope \in {"DISCOVERY", "CONTENT"},
               NEW selected \in SUBSET Issue, Retry(r, a, scope, selected)
        PROVE  run'[worker[w].run] = run[worker[w].run]
    BY <2>0, <2>2 DEF Retry, Retryable
  <2>3. ASSUME NEW r \in Run, NEW a \in 1 .. MaxAttempt,
               NEW e \in 1 .. (nextExec - 1), Interrupt(r, a, e)
        PROVE  run'[worker[w].run] = run[worker[w].run]
    <3>1. r # worker[w].run
      BY <2>0, <2>3 DEF Interrupt, InterruptAllowed, Executing
    <3>2. QED
      BY <2>0, <2>3, <3>1 DEF Interrupt
  <2>4. ASSUME NEW v \in Worker, NEW r \in Run, ClaimRun(v, r)
        PROVE  run'[worker[w].run] = run[worker[w].run]
    BY <2>0, <2>4 DEF ClaimRun
  <2>5. ASSUME NEW v \in Worker, FailRun(v) \/ CompleteRun(v)
        PROVE  run'[worker[w].run] = run[worker[w].run]
    <3>1. v # w
      BY <2>0, <2>5, PipelineAssumption
      DEF FailRun, CompleteRun, IdleWorker
    <3>2. HoldsRun(v) => worker[v].run # worker[w].run
      BY <2>0, <3>1 DEF HoldsRun, OwnershipInv, SoleExecution
    <3>3. QED
      BY <2>0, <2>5, <3>2 DEF FailRun, CompleteRun
  <2>6. \/ run' = run
        \/ \E r \in Run : Enqueue(r)
        \/ \E r \in Run, a \in 1 .. MaxAttempt,
              scope \in {"DISCOVERY", "CONTENT"}, selected \in SUBSET Issue :
              Retry(r, a, scope, selected)
        \/ \E r \in Run, a \in 1 .. MaxAttempt, e \in 1 .. (nextExec - 1) :
              Interrupt(r, a, e)
        \/ \E v \in Worker, r \in Run : ClaimRun(v, r)
        \/ \E v \in Worker : FailRun(v) \/ CompleteRun(v)
    BY DEF Next, OperatorStep, WorkerStep, Processing, Withdraw, Classify,
           SkipCandidate, RegisterIssue, EndDiscovery, ListJobs, ClaimJob,
           JobError, SaveJobSuccess, SaveJobFailure, RunError, Crash, Restart
  <2>7. QED
    BY <2>1, <2>2, <2>3, <2>4, <2>5, <2>6
<1>2. QED
  BY <1>1, OwnershipInvCorrect, PTL DEF Spec, InterruptSparesLive

-----------------------------------------------------------------------------
(* Jobs, publications and the status of runs.                              *)

\* A job exists exactly with its draft and belongs to an attempt of its run.
JobRows ==
    \A i \in Issue :
        /\ pub[i] = "NONE" <=> job[i].status = "ABSENT"
        /\ job[i].run = NoRun <=> job[i].status = "ABSENT"
        /\ \A r \in Run : job[i].run = r => job[i].attempt \in 1 .. run[r].attempt

ContentInv ==
    JobRows /\ PublishedIffSucceeded /\ NoForgottenJob /\ RunAgreesWithJobs

\* Every step preserves what is said of jobs, publications and finished runs.
LEMMA ContentInductive ==
    ASSUME OwnershipInv, OwnershipInv', ContentInv, [Next]_vars
    PROVE  ContentInv'
<1> USE PipelineAssumption
<1>0. /\ TypeOK /\ TypeOK' /\ Ownership /\ OneActiveRun
      /\ JobRows /\ PublishedIffSucceeded /\ NoForgottenJob /\ RunAgreesWithJobs
  BY DEF OwnershipInv, ContentInv
<1>1. /\ \A r \in Run : run[r] \in RunRecord /\ run'[r] \in RunRecord
      /\ \A i \in Issue : /\ job[i] \in JobRecord /\ job'[i] \in JobRecord
                         /\ pub[i] \in Publication
  BY <1>0 DEF TypeOK
<1>2. ASSUME NEW r \in Run, Enqueue(r) PROVE ContentInv'
  <2>1. /\ \A q \in Run \ {r} : run'[q] = run[q]
        /\ run'[r].status = "QUEUED" /\ run'[r].attempt = 1
        /\ job' = job /\ pub' = pub
    BY <1>0, <1>2 DEF Enqueue, TypeOK
  <2>2. \A i \in Issue : job[i].run # r
    BY <1>0, <1>1, <1>2 DEF Enqueue, JobRows, Ownership, RunRecord, JobRecord
  <2>3. JobRows'
    BY <1>0, <2>1, <2>2 DEF JobRows
  <2>4. NoForgottenJob'
    BY <1>0, <2>1, <2>2 DEF NoForgottenJob, JobsOf
  <2>5. PublishedIffSucceeded' /\ RunAgreesWithJobs'
    BY <1>0, <2>1 DEF PublishedIffSucceeded, RunAgreesWithJobs, JobsOf
  <2>6. QED
    BY <2>3, <2>4, <2>5 DEF ContentInv
<1>3. ASSUME NEW r \in Run, NEW a \in 1 .. MaxAttempt,
             NEW scope \in {"DISCOVERY", "CONTENT"},
             NEW selected \in SUBSET Issue, Retry(r, a, scope, selected)
      PROVE  ContentInv'
  <2>1. /\ \A q \in Run \ {r} : run'[q] = run[q]
        /\ run[r].status \in Retryable /\ run[r].attempt = a
        /\ run'[r].status = "QUEUED" /\ run'[r].attempt = a + 1
        /\ pub' = pub
    BY <1>0, <1>3 DEF Retry, NextAttempt, TypeOK
  <2>2. \A i \in Issue \ Requeued(r, scope, selected) : job'[i] = job[i]
    BY <1>3 DEF Retry
  <2>3. ASSUME NEW i \in Requeued(r, scope, selected)
        PROVE  /\ i \in Issue
               /\ job[i].run = r
               /\ job[i].status \in Unfinished \cup {"FAILED"}
               /\ job'[i].run = r
               /\ job'[i].status = "QUEUED"
               /\ job'[i].attempt = a + 1
    BY <1>1, <1>3 DEF Requeued, Resumable, JobsOf, Retry, NextAttempt, JobRecord
  <2>4. ASSUME NEW i \in Issue, job[i].run = r, job[i].status \in Unfinished,
               i \notin Requeued(r, scope, selected)
        PROVE  pub[i] = "WITHDRAWN"
    BY <1>3, <2>4 DEF Requeued, Resumable, JobsOf, Retry
  <2>5. JobRows'
    BY <1>0, <1>1, <2>1, <2>2, <2>3 DEF JobRows, Unfinished, RunRecord, JobRecord
  <2>6. PublishedIffSucceeded'
    BY <1>0, <2>1, <2>2, <2>3 DEF PublishedIffSucceeded, Unfinished
  <2>7. NoForgottenJob'
    <3>1. ASSUME NEW q \in Run, NEW i \in Issue, job'[i].run = q,
                 job'[i].status \in Unfinished,
                 job'[i].attempt < run'[q].attempt
          PROVE  pub[i] = "WITHDRAWN"
      <4>1. CASE q = r
        BY <1>1, <2>1, <2>2, <2>3, <2>4, <3>1, <4>1 DEF RunRecord
      <4>2. CASE q # r
        BY <1>0, <2>1, <2>2, <2>3, <3>1, <4>2 DEF NoForgottenJob, JobsOf
      <4>3. QED
        BY <4>1, <4>2
    <3>2. QED
      BY <2>1, <3>1 DEF NoForgottenJob, JobsOf
  <2>8. RunAgreesWithJobs'
    <3>1. ASSUME NEW q \in Run, q # r
          PROVE  JobsOf(q)' = JobsOf(q) /\ \A i \in JobsOf(q) : job'[i] = job[i]
      BY <2>2, <2>3, <3>1 DEF JobsOf
    <3>2. QED
      BY <1>0, <2>1, <3>1 DEF RunAgreesWithJobs
  <2>9. QED
    BY <2>5, <2>6, <2>7, <2>8 DEF ContentInv
<1>4. ASSUME NEW r \in Run, NEW a \in 1 .. MaxAttempt,
             NEW e \in 1 .. (nextExec - 1), Interrupt(r, a, e)
      PROVE  ContentInv'
  <2>1. /\ \A q \in Run \ {r} : run'[q] = run[q]
        /\ run'[r].status = InterruptedStatus(r) /\ run'[r].attempt = run[r].attempt
        /\ pub' = pub
    BY <1>0, <1>1, <1>4 DEF Interrupt, TypeOK, RunRecord
  <2>2. \A i \in Issue \ Cut(r, a) : job'[i] = job[i]
    BY <1>4 DEF Interrupt
  <2>3. ASSUME NEW i \in Cut(r, a)
        PROVE  /\ i \in Issue
               /\ job[i].run = r
               /\ job[i].status \in Unfinished
               /\ job'[i].run = r
               /\ job'[i].status = "FAILED"
               /\ job'[i].attempt = job[i].attempt
    BY <1>1, <1>4 DEF Cut, JobsOf, Interrupt, JobRecord
  <2>4. \A q \in Run : JobsOf(q)' = JobsOf(q)
    BY <2>2, <2>3 DEF JobsOf
  <2>5. JobRows'
    BY <1>0, <2>1, <2>2, <2>3 DEF JobRows, Unfinished
  <2>6. PublishedIffSucceeded'
    BY <1>0, <2>1, <2>2, <2>3 DEF PublishedIffSucceeded, Unfinished
  <2>7. NoForgottenJob'
    BY <1>0, <2>1, <2>2, <2>3, <2>4 DEF NoForgottenJob, JobsOf, Unfinished
  <2>8. RunAgreesWithJobs'
    <3>1. \A i \in Issue : job'[i].status = "SUCCEEDED" <=> job[i].status = "SUCCEEDED"
      BY <2>2, <2>3 DEF Unfinished
    <3>2. QED
      BY <1>0, <2>1, <2>4, <3>1
      DEF RunAgreesWithJobs, InterruptedStatus, JobsOf
  <2>9. QED
    BY <2>5, <2>6, <2>7, <2>8 DEF ContentInv
<1>5. ASSUME NEW i \in Issue, Withdraw(i) PROVE ContentInv'
  <2>1. /\ run' = run /\ job' = job
        /\ pub[i] \in {"UNPUBLISHED", "PUBLISHED"} /\ pub'[i] = "WITHDRAWN"
        /\ \A k \in Issue \ {i} : pub'[k] = pub[k]
    BY <1>0, <1>5 DEF Withdraw, TypeOK
  <2>2. JobRows' /\ PublishedIffSucceeded'
    BY <1>0, <2>1 DEF JobRows, PublishedIffSucceeded
  <2>3. NoForgottenJob' /\ RunAgreesWithJobs'
    BY <1>0, <2>1 DEF NoForgottenJob, RunAgreesWithJobs, JobsOf
  <2>4. QED
    BY <2>2, <2>3 DEF ContentInv
<1>6. ASSUME NEW w \in Worker, NEW i \in Issue, RegisterIssue(w, i),
             <<job, pub>>' # <<job, pub>>
      PROVE  ContentInv'
  <2>1. PICK r \in Run : /\ r = worker[w].run
                         /\ run[r].attempt = worker[w].attempt
                         /\ run[r].status \in Active
    BY <1>6 DEF RegisterIssue, Admitted
  <2>2. /\ run' = run
        /\ pub[i] = "NONE" /\ pub'[i] = "UNPUBLISHED"
        /\ job'[i] = [run |-> r, status |-> "QUEUED", failure |-> "NONE",
                     attempt |-> run[r].attempt]
        /\ \A k \in Issue \ {i} : job'[k] = job[k] /\ pub'[k] = pub[k]
    BY <1>0, <1>6, <2>1 DEF RegisterIssue, TypeOK
  <2>3. run[r].attempt \in 1 .. run[r].attempt
    BY <1>0, <1>1, <2>1 DEF Ownership, RunRecord, Active
  <2>4. JobRows'
    BY <1>0, <2>2, <2>3 DEF JobRows
  <2>5. PublishedIffSucceeded'
    BY <1>0, <2>2 DEF PublishedIffSucceeded
  <2>6. NoForgottenJob'
    BY <1>0, <2>2, <2>3 DEF NoForgottenJob, JobsOf
  <2>7. RunAgreesWithJobs'
    BY <1>0, <2>1, <2>2 DEF RunAgreesWithJobs, JobsOf, JobRows, Active
  <2>8. QED
    BY <2>4, <2>5, <2>6, <2>7 DEF ContentInv
<1>7. ASSUME NEW w \in Worker, NEW i \in Issue, <<job, pub>>' # <<job, pub>>,
             \/ ClaimJob(w, i)
             \/ SaveJobSuccess(w, i)
             \/ SaveJobFailure(w, i)
      PROVE  ContentInv'
  <2>1. PICK r \in Run : job[i].run = r /\ run[r].status = "RUNNING"
    BY <1>7 DEF ClaimJob, SaveJobSuccess, SaveJobFailure, Adoptable, OwnsJob
  <2>2. /\ run' = run
        /\ job[i].status \in Unfinished
        /\ job'[i].run = r /\ job'[i].attempt = job[i].attempt
        /\ \A k \in Issue \ {i} : job'[k] = job[k] /\ pub'[k] = pub[k]
        /\ \/ job'[i].status = "SUCCEEDED" /\ pub'[i] = "PUBLISHED"
           \/ job'[i].status \in {"RUNNING", "FAILED"} /\ pub'[i] = pub[i]
    <3>1. CASE ClaimJob(w, i)
      BY <1>0, <1>1, <1>7, <2>1, <3>1 DEF ClaimJob, TypeOK, JobRecord, Unfinished
    <3>2. CASE SaveJobSuccess(w, i)
      <4>1. /\ job[i].status = "RUNNING"
            /\ job' = [job EXCEPT ![i] = [job[i] EXCEPT !.status = "SUCCEEDED",
                                                       !.failure = "NONE"]]
            /\ pub' = [pub EXCEPT ![i] = "PUBLISHED"]
            /\ run' = run
        BY <1>7, <3>2 DEF SaveJobSuccess, Adoptable
      <4>2. QED
        BY <1>0, <1>1, <2>1, <4>1 DEF TypeOK, JobRecord, Unfinished
    <3>3. CASE SaveJobFailure(w, i)
      <4>1. /\ job[i].status = "RUNNING"
            /\ job' = [job EXCEPT ![i] = [job[i] EXCEPT !.status = "FAILED",
                                                       !.failure = "CONTENT"]]
            /\ pub' = pub
            /\ run' = run
        BY <1>7, <3>3 DEF SaveJobFailure, Adoptable
      <4>2. QED
        BY <1>0, <1>1, <2>1, <4>1 DEF TypeOK, JobRecord, Unfinished
    <3>4. QED
      BY <1>7, <3>1, <3>2, <3>3
  <2>3. JobRows'
    BY <1>0, <2>1, <2>2 DEF JobRows, Unfinished
  <2>4. PublishedIffSucceeded'
    BY <1>0, <2>2 DEF PublishedIffSucceeded, Unfinished
  <2>5. NoForgottenJob'
    BY <1>0, <2>1, <2>2 DEF NoForgottenJob, JobsOf, Unfinished
  <2>6. RunAgreesWithJobs'
    BY <1>0, <2>1, <2>2 DEF RunAgreesWithJobs, JobsOf
  <2>7. QED
    BY <2>3, <2>4, <2>5, <2>6 DEF ContentInv
<1>8. ASSUME NEW w \in Worker, NEW r \in Run, ClaimRun(w, r) PROVE ContentInv'
  <2>1. /\ job' = job /\ pub' = pub
        /\ \A q \in Run : run'[q].attempt = run[q].attempt
        /\ \A q \in Run \ {r} : run'[q] = run[q]
        /\ run'[r].status = "RUNNING"
    BY <1>0, <1>1, <1>8 DEF ClaimRun, TypeOK, RunRecord
  <2>2. QED
    BY <1>0, <2>1
    DEF ContentInv, JobRows, PublishedIffSucceeded, NoForgottenJob,
        RunAgreesWithJobs, JobsOf
<1>9. ASSUME NEW w \in Worker, FailRun(w) \/ CompleteRun(w) PROVE ContentInv'
  <2>1. /\ job' = job /\ pub' = pub
        /\ \A q \in Run : run'[q].attempt = run[q].attempt
    BY <1>0, <1>1, <1>9 DEF FailRun, CompleteRun, HoldsRun, TypeOK, RunRecord
  <2>2. \A q \in Run : \/ run'[q].status = run[q].status
                       \/ run'[q].status = "FAILED"
                       \/ AllSettled(q) /\ run'[q].status = CompletedStatus(q)
    BY <1>0, <1>1, <1>9 DEF FailRun, CompleteRun, HoldsRun, TypeOK, RunRecord
  <2>3. RunAgreesWithJobs'
    BY <1>0, <2>1, <2>2
    DEF RunAgreesWithJobs, AllSettled, CompletedStatus, JobsOf
  <2>4. JobRows' /\ PublishedIffSucceeded' /\ NoForgottenJob'
    BY <1>0, <2>1 DEF JobRows, PublishedIffSucceeded, NoForgottenJob, JobsOf
  <2>5. QED
    BY <2>3, <2>4 DEF ContentInv
<1>10. CASE UNCHANGED <<run, job, pub>>
  BY <1>0, <1>10
  DEF ContentInv, JobRows, PublishedIffSucceeded, NoForgottenJob,
      RunAgreesWithJobs, JobsOf
<1>11. \/ UNCHANGED <<run, job, pub>>
       \/ \E r \in Run : Enqueue(r)
       \/ \E r \in Run, a \in 1 .. MaxAttempt,
             scope \in {"DISCOVERY", "CONTENT"}, selected \in SUBSET Issue :
             Retry(r, a, scope, selected)
       \/ \E r \in Run, a \in 1 .. MaxAttempt, e \in 1 .. (nextExec - 1) :
             Interrupt(r, a, e)
       \/ \E i \in Issue : Withdraw(i)
       \/ \E w \in Worker, i \in Issue :
             RegisterIssue(w, i) /\ UNCHANGED run
       \/ \E w \in Worker, i \in Issue :
             /\ \/ ClaimJob(w, i)
                \/ SaveJobSuccess(w, i)
                \/ SaveJobFailure(w, i)
             /\ UNCHANGED run
       \/ \E w \in Worker, r \in Run : ClaimRun(w, r)
       \/ \E w \in Worker : FailRun(w) \/ CompleteRun(w)
  <2>1. ASSUME NEW w \in Worker,
               \/ \E candidates \in SUBSET Issue : Classify(w, candidates)
               \/ \E i \in Issue : SkipCandidate(w, i)
               \/ EndDiscovery(w) \/ ListJobs(w) \/ JobError(w) \/ RunError(w)
               \/ Crash(w) \/ Restart(w)
        PROVE  UNCHANGED <<run, job, pub>>
    BY <2>1 DEF Classify, SkipCandidate, EndDiscovery, ListJobs, JobError,
                RunError, Crash, Restart
  <2>2. ASSUME NEW w \in Worker, NEW i \in Issue,
               \/ RegisterIssue(w, i) \/ ClaimJob(w, i)
               \/ SaveJobSuccess(w, i) \/ SaveJobFailure(w, i)
        PROVE  UNCHANGED run
    BY <2>2 DEF RegisterIssue, ClaimJob, SaveJobSuccess, SaveJobFailure
  <2>3. UNCHANGED vars => UNCHANGED <<run, job, pub>>
    BY DEF vars
  <2>4. QED
    BY <2>1, <2>2, <2>3 DEF Next, OperatorStep, WorkerStep, Processing
<1>12. QED
  BY <1>2, <1>3, <1>4, <1>5, <1>6, <1>7, <1>8, <1>9, <1>10, <1>11

\* Jobs, publications and finished runs are right in every reachable state.
THEOREM ContentCorrect == Spec => [](OwnershipInv /\ ContentInv)
<1>1. Init => ContentInv
  BY PipelineAssumption
  DEF Init, ContentInv, JobRows, PublishedIffSucceeded, NoForgottenJob,
      RunAgreesWithJobs, JobsOf, Unfinished
<1>2. OwnershipInv /\ OwnershipInv' /\ ContentInv /\ [Next]_vars => ContentInv'
  BY ContentInductive
<1>3. QED
  BY <1>1, <1>2, OwnershipInvCorrect, PTL DEF Spec

\* Readers see an issue exactly when its job succeeded and nobody withdrew it.
THEOREM PublishedIffSucceededCorrect == Spec => []PublishedIffSucceeded
BY ContentCorrect, PTL DEF ContentInv

\* An attempt forgets no job of a visible issue that an earlier one left.
THEOREM NoForgottenJobCorrect == Spec => []NoForgottenJob
BY ContentCorrect, PTL DEF ContentInv

\* The status of a finished run agrees with its jobs, then and ever after.
THEOREM RunAgreesWithJobsCorrect == Spec => []RunAgreesWithJobs
BY ContentCorrect, PTL DEF ContentInv

\* A job that succeeded, or failed for an issue now withdrawn, never changes.
THEOREM SettledJobFrozenCorrect == Spec => SettledJobFrozen
<1>1. OwnershipInv /\ ContentInv /\ [Next]_vars =>
        [\A i \in Issue :
           \/ job[i].status = "SUCCEEDED"
           \/ job[i].status = "FAILED" /\ pub[i] = "WITHDRAWN"
           => job'[i] = job[i]]_vars
  <2> SUFFICES ASSUME OwnershipInv, ContentInv, Next, NEW i \in Issue,
                      \/ job[i].status = "SUCCEEDED"
                      \/ job[i].status = "FAILED" /\ pub[i] = "WITHDRAWN"
               PROVE  job'[i] = job[i]
    OBVIOUS
  <2>0. /\ job \in [Issue -> JobRecord]
        /\ pub[i] # "NONE"
    BY DEF OwnershipInv, TypeOK, ContentInv, JobRows
  <2>1. ASSUME NEW r \in Run, NEW a \in 1 .. MaxAttempt,
               NEW scope \in {"DISCOVERY", "CONTENT"},
               NEW selected \in SUBSET Issue, Retry(r, a, scope, selected)
        PROVE  job'[i] = job[i]
    BY <2>1 DEF Retry, Requeued, Resumable, Unfinished
  <2>2. ASSUME NEW r \in Run, NEW a \in 1 .. MaxAttempt,
               NEW e \in 1 .. (nextExec - 1), Interrupt(r, a, e)
        PROVE  job'[i] = job[i]
    BY <2>2 DEF Interrupt, Cut, Unfinished
  <2>3. ASSUME NEW w \in Worker, NEW k \in Issue,
               \/ RegisterIssue(w, k) \/ ClaimJob(w, k)
               \/ SaveJobSuccess(w, k) \/ SaveJobFailure(w, k)
        PROVE  job'[i] = job[i]
    BY <2>0, <2>3
    DEF RegisterIssue, ClaimJob, SaveJobSuccess, SaveJobFailure, Adoptable
  <2>4. \/ job' = job
        \/ \E r \in Run, a \in 1 .. MaxAttempt,
              scope \in {"DISCOVERY", "CONTENT"}, selected \in SUBSET Issue :
              Retry(r, a, scope, selected)
        \/ \E r \in Run, a \in 1 .. MaxAttempt, e \in 1 .. (nextExec - 1) :
              Interrupt(r, a, e)
        \/ \E w \in Worker, k \in Issue :
              \/ RegisterIssue(w, k) \/ ClaimJob(w, k)
              \/ SaveJobSuccess(w, k) \/ SaveJobFailure(w, k)
    BY DEF Next, OperatorStep, WorkerStep, Processing, Enqueue, Withdraw,
           ClaimRun, Classify, SkipCandidate, EndDiscovery, ListJobs, JobError,
           RunError, FailRun, CompleteRun, Crash, Restart
  <2>5. QED
    BY <2>1, <2>2, <2>3, <2>4
<1>2. QED
  BY <1>1, ContentCorrect, PTL DEF Spec, SettledJobFrozen

\* Once withdrawn, an issue is never published again.
THEOREM WithdrawnStaysCorrect == Spec => WithdrawnStays
<1>1. TypeOK /\ [Next]_vars =>
        [\A i \in Issue : pub[i] = "WITHDRAWN" => pub'[i] = "WITHDRAWN"]_vars
  <2> SUFFICES ASSUME TypeOK, Next, NEW i \in Issue, pub[i] = "WITHDRAWN"
               PROVE  pub'[i] = "WITHDRAWN"
    OBVIOUS
  <2>1. ASSUME NEW w \in Worker, NEW k \in Issue,
               RegisterIssue(w, k) \/ SaveJobSuccess(w, k)
        PROVE  pub'[i] = "WITHDRAWN"
    BY <2>1 DEF TypeOK, RegisterIssue, SaveJobSuccess, Publishable
  <2>2. ASSUME NEW k \in Issue, Withdraw(k) PROVE pub'[i] = "WITHDRAWN"
    BY <2>2 DEF TypeOK, Withdraw
  <2>3. \/ pub' = pub
        \/ \E w \in Worker, k \in Issue :
              RegisterIssue(w, k) \/ SaveJobSuccess(w, k)
        \/ \E k \in Issue : Withdraw(k)
    BY DEF Next, OperatorStep, WorkerStep, Processing, Enqueue, Retry,
           Interrupt, ClaimRun, Classify, SkipCandidate, EndDiscovery,
           ListJobs, ClaimJob, JobError, SaveJobFailure, RunError, FailRun,
           CompleteRun, Crash, Restart
  <2>4. QED
    BY <2>1, <2>2, <2>3
<1>2. QED
  BY <1>1, TypeCorrect, PTL DEF Spec, WithdrawnStays

-----------------------------------------------------------------------------
(* What a worker may take on: one job at a time, and no more new issues    *)
(* than the limit of its attempt.                                          *)
(*                                                                         *)
(* The budget of a run.  The limit is compared with a counter that a       *)
(* process keeps in memory, so the bound on the rows follows only from     *)
(* what the counters of all processes say together.                        *)

Executes(w, r) == worker[w].run = r /\ worker[w].attempt = run[r].attempt
Made(r) == Cardinality(JobsOf(r))
Cap(r) == MaxNewIssues * run[r].attempt

\* An attempt that waits has its whole allowance left, and the one in progress
\* what its process has not counted.
BudgetOf(r) ==
    /\ IsFiniteSet(JobsOf(r))
    /\ Made(r) <= Cap(r)
    /\ run[r].status = "QUEUED" => Made(r) + MaxNewIssues <= Cap(r)
    /\ \A w \in Worker :
          Executes(w, r) => Made(r) + MaxNewIssues <= Cap(r) + worker[w].created

Budget == \A r \in Run : BudgetOf(r)

\* The numbers are natural.
LEMMA BudgetNumbers ==
    ASSUME TypeOK, NEW r \in Run
    PROVE  /\ Cap(r) \in Nat
           /\ IsFiniteSet(JobsOf(r)) => Made(r) \in Nat
           /\ \A w \in Worker : worker[w].created \in 0 .. MaxNewIssues
<1>1. run[r].attempt \in Nat /\ MaxNewIssues \in Nat
  BY PipelineAssumption DEF TypeOK, RunRecord
<1>2. \A w \in Worker : worker[w].created \in 0 .. MaxNewIssues
  BY DEF TypeOK, WorkerRecord
<1>3. QED
  BY <1>1, <1>2, FS_CardinalityType DEF Cap, Made

\* Initially nothing is made.
LEMMA BudgetInit == Init => Budget
<1> SUFFICES ASSUME Init, NEW r \in Run PROVE BudgetOf(r)
  BY DEF Budget
<1>1. JobsOf(r) = {} /\ run[r].attempt = 0 /\ run[r].status = "ABSENT"
  BY PipelineAssumption DEF Init, JobsOf
<1>2. IsFiniteSet(JobsOf(r)) /\ Made(r) = 0
  BY <1>1, FS_EmptySet DEF Made
<1>3. Cap(r) = 0
  BY <1>1, PipelineAssumption DEF Cap
<1>4. \A w \in Worker : worker[w].run # r
  BY PipelineAssumption DEF Init, IdleWorker
<1>5. QED
  BY <1>1, <1>2, <1>3, <1>4 DEF BudgetOf, Executes

\* A quiet step that creates no issue keeps the budget.
LEMMA QuietKeepsBudget ==
    ASSUME TypeOK, Quiet, NEW r \in Run, BudgetOf(r), JobsOf(r)' = JobsOf(r),
           \A w \in Worker : \/ worker'[w].run = NoRun
                             \/ worker'[w].created = worker[w].created
    PROVE  BudgetOf(r)'
<1>1. Made(r)' = Made(r) /\ Cap(r)' = Cap(r)
  BY DEF Made, Cap, Quiet, RunsKeepIdentity
<1>2. run'[r].status = "QUEUED" => run[r].status = "QUEUED"
  BY DEF Quiet, RunsKeepIdentity, Active
<1>3. ASSUME NEW w \in Worker, Executes(w, r)'
      PROVE  Executes(w, r) /\ worker'[w].created = worker[w].created
  BY <1>3, PipelineAssumption
  DEF Executes, Quiet, RunsKeepIdentity, WorkersKeepIdentity
<1>4. QED
  BY <1>1, <1>2, <1>3 DEF BudgetOf

\* The rows of jobs keep their run.
LEMMA JobsOfKept ==
    ASSUME NEW r \in Run, \A i \in Issue : job'[i].run = job[i].run
    PROVE  JobsOf(r)' = JobsOf(r)
BY DEF JobsOf

\* A new run has no jobs yet, and a retry adds the allowance of an attempt.
LEMMA NewAttemptKeepsBudget ==
    ASSUME TypeOK, TypeOK', Ownership, NEW q \in Run, NEW r \in Run, BudgetOf(q),
           run'[r].attempt = run[r].attempt + 1,
           \A p \in Run \ {r} : run'[p] = run[p],
           worker' = worker, JobsOf(q)' = JobsOf(q)
    PROVE  BudgetOf(q)'
<1>1. Made(q)' = Made(q)
  BY DEF Made
<1>2. CASE q # r
  <2>1. run'[q] = run[q]
    BY <1>2
  <2>2. QED
    BY <1>1, <2>1 DEF BudgetOf, Cap, Executes
<1>3. CASE q = r
  <2>1. Cap(q)' = Cap(q) + MaxNewIssues
    BY <1>3, PipelineAssumption DEF Cap, TypeOK, RunRecord
  <2>2. \A w \in Worker : ~Executes(w, q)'
    BY <1>3 DEF Executes, Ownership, TypeOK, WorkerRecord, RunRecord
  <2>3. Made(q) \in Nat /\ Cap(q) \in Nat /\ MaxNewIssues \in Nat
    BY BudgetNumbers, PipelineAssumption DEF BudgetOf
  <2>4. QED
    BY <1>1, <2>1, <2>2, <2>3 DEF BudgetOf
<1>4. QED
  BY <1>2, <1>3

\* A claim begins to count at zero.
LEMMA ClaimKeepsBudget ==
    ASSUME OwnershipInv, NEW w \in Worker, NEW r \in Run, ClaimRun(w, r),
           NEW q \in Run, BudgetOf(q)
    PROVE  BudgetOf(q)'
<1>1. /\ run \in [Run -> RunRecord] /\ worker \in [Worker -> WorkerRecord]
      /\ TypeOK /\ Ownership
  BY DEF OwnershipInv, TypeOK
<1>2. /\ job' = job
      /\ \A v \in Worker \ {w} : worker'[v] = worker[v]
      /\ worker'[w].run = r /\ worker'[w].created = 0
      /\ run[r].status = "QUEUED" /\ run'[r].status = "RUNNING"
      /\ \A p \in Run : run'[p].attempt = run[p].attempt
      /\ \A p \in Run \ {r} : run'[p] = run[p]
  BY <1>1 DEF ClaimRun, IdleWorker, RunRecord
<1>3. JobsOf(q)' = JobsOf(q) /\ Made(q)' = Made(q) /\ Cap(q)' = Cap(q)
  BY <1>2 DEF JobsOf, Made, Cap
<1>4. run'[q].status = "QUEUED" => run[q].status = "QUEUED"
  BY <1>2
<1>5. ASSUME NEW v \in Worker, Executes(v, q)'
      PROVE  Made(q) + MaxNewIssues <= Cap(q) + worker'[v].created
  <2>1. CASE v = w
    <3>1. q = r
      BY <1>2, <1>5, <2>1 DEF Executes
    <3>2. Cap(q) \in Nat
      BY <1>1, BudgetNumbers
    <3>3. QED
      BY <1>2, <2>1, <3>1, <3>2 DEF BudgetOf
  <2>2. CASE v # w
    BY <1>2, <1>5, <2>2 DEF BudgetOf, Executes
  <2>3. QED
    BY <2>1, <2>2
<1>6. QED
  BY <1>3, <1>4, <1>5 DEF BudgetOf

\* A process that registers an issue counts it.
LEMMA RegisterKeepsBudget ==
    ASSUME OwnershipInv, JobRows, NEW w \in Worker, NEW i \in Issue,
           RegisterIssue(w, i), job' # job, NEW q \in Run, BudgetOf(q)
    PROVE  BudgetOf(q)'
<1> USE PipelineAssumption
<1>1. /\ job \in [Issue -> JobRecord] /\ worker \in [Worker -> WorkerRecord]
      /\ TypeOK /\ SoleExecution
  BY DEF OwnershipInv, TypeOK
<1>2. /\ BelowLimit(w) /\ Admitted(w) /\ pub[i] = "NONE"
      /\ job' = [job EXCEPT ![i] =
                   [run |-> worker[w].run, status |-> "QUEUED",
                    failure |-> "NONE", attempt |-> worker[w].attempt]]
      /\ worker' = [worker EXCEPT ![w] = [worker[w] EXCEPT !.todo = @ \ {i},
                                                !.created = @ + 1]]
      /\ run' = run
  BY DEF RegisterIssue
<1>3. /\ worker'[w].run = worker[w].run /\ worker'[w].attempt = worker[w].attempt
      /\ worker'[w].created = worker[w].created + 1
      /\ \A v \in Worker \ {w} : worker'[v] = worker[v]
  BY <1>1, <1>2 DEF WorkerRecord
<1>4. worker[w].created + 1 <= MaxNewIssues /\ worker[w].created \in Nat
  BY <1>1, <1>2 DEF BelowLimit, WorkerRecord
<1>5. job[i].run = NoRun /\ job'[i].run = worker[w].run
  BY <1>1, <1>2 DEF JobRows
<1>6. Cap(q)' = Cap(q) /\ Cap(q) \in Nat
  BY <1>1, <1>2, BudgetNumbers DEF Cap
<1>7. CASE q # worker[w].run
  <2>1. JobsOf(q)' = JobsOf(q)
    BY <1>1, <1>2, <1>5, <1>7 DEF JobsOf
  <2>2. Made(q)' = Made(q)
    BY <2>1 DEF Made
  <2>3. \A v \in Worker : Executes(v, q)' => v # w /\ Executes(v, q)
    BY <1>2, <1>3, <1>7 DEF Executes
  <2>4. QED
    BY <1>2, <1>3, <1>6, <2>1, <2>2, <2>3 DEF BudgetOf
<1>8. CASE q = worker[w].run
  <2>1. Executes(w, q) /\ run[q].status = "RUNNING"
    <3>1. HoldsRun(w)
      BY <1>2, ChecksFence DEF RegisterIssue
    <3>2. QED
      BY <1>8, <3>1 DEF HoldsRun, Executes
  <2>2. JobsOf(q)' = JobsOf(q) \cup {i} /\ i \notin JobsOf(q)
    BY <1>1, <1>2, <1>5, <1>8 DEF JobsOf
  <2>3. IsFiniteSet(JobsOf(q))
    BY DEF BudgetOf
  <2>4. IsFiniteSet(JobsOf(q)') /\ Made(q)' = Made(q) + 1 /\ Made(q) \in Nat
    BY <1>1, <2>2, <2>3, FS_AddElement, BudgetNumbers DEF Made
  <2>5. Made(q) + MaxNewIssues <= Cap(q) + worker[w].created
    BY <2>1 DEF BudgetOf
  <2>6. Made(q)' <= Cap(q)
    BY <1>4, <1>6, <2>4, <2>5
  <2>7. ASSUME NEW v \in Worker, Executes(v, q)'
        PROVE  Made(q)' + MaxNewIssues <= Cap(q)' + worker'[v].created
    <3>1. v = w
      BY <1>1, <1>2, <1>3, <2>1, <2>7 DEF SoleExecution, Executes
    <3>2. QED
      BY <1>3, <1>4, <1>6, <2>4, <2>5, <3>1
  <2>8. run'[q].status # "QUEUED"
    BY <1>2, <2>1
  <2>9. QED
    BY <1>6, <2>4, <2>6, <2>7, <2>8 DEF BudgetOf
<1>9. QED
  BY <1>7, <1>8

\* Only a registration makes a job, and a process counts nothing else.
LEMMA JobsAreRegistered ==
    ASSUME TypeOK, JobRows, [Next]_vars
    PROVE  \/ \E w \in Worker, i \in Issue : RegisterIssue(w, i) /\ job' # job
           \/ \E w \in Worker, r \in Run : ClaimRun(w, r)
           \/ /\ \A i \in Issue : job'[i].run = job[i].run
              /\ \A w \in Worker : \/ worker'[w].run = NoRun
                                   \/ worker'[w].created = worker[w].created
<1> DEFINE Kept == \A i \in Issue : job'[i].run = job[i].run
           Counted == \A w \in Worker : \/ worker'[w].run = NoRun
                                        \/ worker'[w].created = worker[w].created
<1>1. /\ \A i \in Issue : job[i] \in JobRecord
      /\ job \in [Issue -> JobRecord] /\ worker \in [Worker -> WorkerRecord]
      /\ \A w \in Worker : worker[w] \in WorkerRecord
  BY DEF TypeOK
<1>2. job' = job => Kept
  OBVIOUS
<1>3. worker' = worker => Counted
  OBVIOUS
<1>4. ASSUME NEW r \in Run, NEW a \in 1 .. MaxAttempt,
             NEW scope \in {"DISCOVERY", "CONTENT"}, NEW selected \in SUBSET Issue,
             Retry(r, a, scope, selected)
      PROVE  Kept /\ Counted
  BY <1>1, <1>3, <1>4 DEF Retry, JobRecord
<1>5. ASSUME NEW r \in Run, NEW a \in 1 .. MaxAttempt,
             NEW e \in 1 .. (nextExec - 1), Interrupt(r, a, e)
      PROVE  Kept /\ Counted
  BY <1>1, <1>3, <1>5 DEF Interrupt, JobRecord
<1>6. CASE \/ \E r \in Run : Enqueue(r)
           \/ \E i \in Issue : Withdraw(i)
           \/ UNCHANGED vars
  BY <1>2, <1>3, <1>6 DEF Enqueue, Withdraw, vars
<1>7. ASSUME NEW w \in Worker, Processing(w) \/ Crash(w) \/ Restart(w),
             ~\E i \in Issue : RegisterIssue(w, i) /\ job' # job
      PROVE  Kept /\ Counted
  <2>0. ASSUME \A v \in Worker \ {w} : worker'[v] = worker[v],
               worker'[w].created = worker[w].created
        PROVE  Counted
    BY <2>0
  <2>1. CASE \/ \E candidates \in SUBSET Issue : Classify(w, candidates)
             \/ \E i \in Issue : SkipCandidate(w, i)
             \/ EndDiscovery(w) \/ ListJobs(w) \/ JobError(w) \/ RunError(w)
    <3>1. /\ \A v \in Worker \ {w} : worker'[v] = worker[v]
          /\ job' = job
      BY <1>1, <2>1 DEF Classify, SkipCandidate, EndDiscovery, ListJobs, JobError,
                        RunError
    <3>2. worker'[w].created = worker[w].created
      <4>1. worker[w] \in WorkerRecord
        BY <1>1
      <4>2. CASE \E candidates \in SUBSET Issue : Classify(w, candidates)
        BY <1>1, <4>1, <4>2 DEF Classify, WorkerRecord
      <4>3. CASE \E i \in Issue : SkipCandidate(w, i)
        BY <1>1, <4>1, <4>3 DEF SkipCandidate, WorkerRecord
      <4>4. CASE EndDiscovery(w) \/ JobError(w) \/ RunError(w)
        BY <1>1, <4>1, <4>4 DEF EndDiscovery, JobError, RunError, WorkerRecord
      <4>5. CASE ListJobs(w)
        BY <1>1, <4>1, <4>5 DEF ListJobs, WorkerRecord
      <4>6. QED
        BY <2>1, <4>2, <4>3, <4>4, <4>5
    <3>3. QED
      BY <1>2, <2>0, <3>1, <3>2
  <2>2. CASE FailRun(w) \/ CompleteRun(w) \/ Crash(w) \/ Restart(w)
    BY <1>1, <2>2 DEF FailRun, CompleteRun, Crash, Restart, IdleWorker
  <2>3. CASE \E i \in Issue : RegisterIssue(w, i)
    <3>1. job' = job
      BY <1>7, <2>3
    <3>2. worker' = [worker EXCEPT ![w].pc = "FailRun"]
      <4>1. PICK i \in Issue : RegisterIssue(w, i)
        BY <2>3
      <4>2. ASSUME pub[i] = "NONE",
                   job' = [job EXCEPT ![i] =
                       [run |-> worker[w].run, status |-> "QUEUED",
                        failure |-> "NONE", attempt |-> worker[w].attempt]]
            PROVE  FALSE
        <5>1. job[i].status = "ABSENT"
          BY <4>2 DEF JobRows
        <5>2. job'[i].status = "QUEUED"
          BY <1>1, <4>2
        <5>3. QED
          BY <3>1, <5>1, <5>2
      <4>3. QED
        BY <4>1, <4>2 DEF RegisterIssue
    <3>3. worker[w] \in WorkerRecord
      BY <1>1
    <3>4. QED
      BY <1>1, <1>2, <2>0, <3>1, <3>2, <3>3 DEF WorkerRecord
  <2>4. ASSUME NEW i \in Issue, ClaimJob(w, i) PROVE Kept /\ Counted
    <3>1. Kept
      BY <1>1, <2>4 DEF ClaimJob, JobRecord
    <3>2. worker[w] \in WorkerRecord
      BY <1>1
    <3>3. CASE worker' = [worker EXCEPT ![w] = [worker[w] EXCEPT
                            !.todo = @ \ {i}, !.pc = "Work", !.job = i]]
      BY <1>1, <2>0, <3>1, <3>2, <3>3 DEF WorkerRecord
    <3>4. CASE worker' = [worker EXCEPT ![w].todo = @ \ {i}]
      BY <1>1, <2>0, <3>1, <3>2, <3>4 DEF WorkerRecord
    <3>5. QED
      BY <2>4, <3>3, <3>4 DEF ClaimJob
  <2>5. ASSUME NEW i \in Issue, SaveJobSuccess(w, i) PROVE Kept /\ Counted
    <3>1. Kept
      <4>1. \/ job' = job
            \/ job' = [job EXCEPT ![i] = [job[i] EXCEPT !.status = "SUCCEEDED",
                                                       !.failure = "NONE"]]
        BY <2>5 DEF SaveJobSuccess
      <4>2. job[i] \in JobRecord
        BY <1>1
      <4>3. CASE job' = [job EXCEPT ![i] = [job[i] EXCEPT !.status = "SUCCEEDED",
                                                         !.failure = "NONE"]]
        BY <1>1, <4>2, <4>3 DEF JobRecord
      <4>4. QED
        BY <1>2, <4>1, <4>3
    <3>2. worker[w] \in WorkerRecord
      BY <1>1
    <3>3. QED
      BY <1>1, <2>0, <2>5, <3>1, <3>2 DEF SaveJobSuccess, BackToJobs, WorkerRecord
  <2>6. ASSUME NEW i \in Issue, SaveJobFailure(w, i) PROVE Kept /\ Counted
    BY <1>1, <2>6 DEF SaveJobFailure, BackToJobs, WorkerRecord, JobRecord
  <2>7. QED
    BY <1>7, <2>1, <2>2, <2>3, <2>4, <2>5, <2>6 DEF Processing
<1>8. QED
  BY <1>4, <1>5, <1>6, <1>7 DEF Next, OperatorStep, WorkerStep

\* Every step keeps every budget.
LEMMA BudgetInductive ==
    OwnershipInv /\ OwnershipInv' /\ ContentInv /\ Budget /\ [Next]_vars => Budget'
<1> SUFFICES ASSUME OwnershipInv, OwnershipInv', ContentInv, Budget, [Next]_vars,
                    NEW q \in Run
             PROVE  BudgetOf(q)'
  BY DEF Budget
<1>1. TypeOK /\ TypeOK' /\ Ownership /\ JobRows /\ BudgetOf(q)
  BY DEF OwnershipInv, ContentInv, Budget
<1>2. ASSUME NEW w \in Worker, NEW i \in Issue, RegisterIssue(w, i), job' # job
      PROVE  BudgetOf(q)'
  BY <1>1, <1>2, RegisterKeepsBudget
<1>3. ASSUME NEW w \in Worker, NEW r \in Run, ClaimRun(w, r)
      PROVE  BudgetOf(q)'
  BY <1>1, <1>3, ClaimKeepsBudget
<1>4. ASSUME NEW r \in Run, Enqueue(r) PROVE BudgetOf(q)'
  <2>1. /\ run'[r].attempt = run[r].attempt + 1
        /\ \A p \in Run \ {r} : run'[p] = run[p]
        /\ worker' = worker /\ JobsOf(q)' = JobsOf(q)
    BY <1>1, <1>4 DEF Enqueue, TypeOK, Ownership, JobsOf
  <2>2. QED
    BY <1>1, <2>1, NewAttemptKeepsBudget
<1>5. ASSUME NEW r \in Run, NEW a \in 1 .. MaxAttempt,
             NEW scope \in {"DISCOVERY", "CONTENT"}, NEW selected \in SUBSET Issue,
             Retry(r, a, scope, selected)
      PROVE  BudgetOf(q)'
  <2>1. /\ run'[r].attempt = run[r].attempt + 1
        /\ \A p \in Run \ {r} : run'[p] = run[p]
        /\ worker' = worker
    BY <1>1, <1>5 DEF Retry, NextAttempt, TypeOK
  <2>2. \A i \in Issue : job'[i].run = job[i].run
    BY <1>1, <1>5 DEF Retry, TypeOK, JobRecord
  <2>3. JobsOf(q)' = JobsOf(q)
    BY <2>2, JobsOfKept
  <2>4. QED
    BY <1>1, <2>1, <2>3, NewAttemptKeepsBudget
<1>6. CASE /\ Quiet
           /\ \A i \in Issue : job'[i].run = job[i].run
           /\ \A w \in Worker : \/ worker'[w].run = NoRun
                                \/ worker'[w].created = worker[w].created
  BY <1>1, <1>6, JobsOfKept, QuietKeepsBudget
<1>7. QED
  BY <1>1, <1>2, <1>3, <1>4, <1>5, <1>6, QuietSteps, JobsAreRegistered
-----------------------------------------------------------------------------
(* One job at a time.                                                      *)

\* A job the attempt of a run has in progress.
InProgress(i, r) ==
    job[i].run = r /\ job[i].status = "RUNNING" /\ job[i].attempt = run[r].attempt

\* A process that may have a job in progress.
Busy == {"Work", "JobFail", "FailRun"}

\* A job in progress is in the hands of the process that executes the attempt;
\* an attempt that has not started has none.
OneInProgress ==
    \A r \in Run :
        /\ run[r].status = "QUEUED" => \A i \in Issue : ~InProgress(i, r)
        /\ run[r].status = "RUNNING" =>
              \A i, k \in Issue : InProgress(i, r) /\ InProgress(k, r) => i = k
        /\ run[r].status = "RUNNING" =>
              \A i \in Issue, w \in Worker :
                 InProgress(i, r) /\ Executes(w, r) =>
                    worker[w].pc \in Busy /\ worker[w].job = i

\* A worker may forget its run, keep its job, or hold nothing in progress.
HandsOff(w) ==
    \/ worker'[w].run = NoRun
    \/ /\ worker'[w].run = worker[w].run
       /\ worker'[w].attempt = worker[w].attempt
       /\ \/ /\ worker'[w].job = worker[w].job
             /\ worker[w].pc \in Busy => worker'[w].pc \in Busy
          \/ \A i \in Issue, r \in Run :
                Executes(w, r) /\ run[r].status = "RUNNING" => ~InProgress(i, r)'

\* A step after which no more jobs are in progress.
LEMMA NoMoreInProgress ==
    ASSUME OneInProgress, RunsKeepIdentity,
           \A i \in Issue, r \in Run : InProgress(i, r)' => InProgress(i, r),
           \A w \in Worker : HandsOff(w)
    PROVE  OneInProgress'
<1> SUFFICES ASSUME NEW r \in Run
             PROVE  /\ run'[r].status = "QUEUED" => \A i \in Issue : ~InProgress(i, r)'
                    /\ run'[r].status = "RUNNING" =>
                          \A i, k \in Issue : InProgress(i, r)' /\ InProgress(k, r)' => i = k
                    /\ run'[r].status = "RUNNING" =>
                          \A i \in Issue, w \in Worker :
                             InProgress(i, r)' /\ Executes(w, r)' =>
                                worker'[w].pc \in Busy /\ worker'[w].job = i
  BY DEF OneInProgress
<1>1. /\ run'[r].status \in Active => run'[r].status = run[r].status
      /\ run'[r].attempt = run[r].attempt
  BY DEF RunsKeepIdentity
<1>2. run'[r].status = "QUEUED" => \A i \in Issue : ~InProgress(i, r)'
  BY <1>1 DEF OneInProgress, Active
<1>3. run'[r].status = "RUNNING" =>
        \A i, k \in Issue : InProgress(i, r)' /\ InProgress(k, r)' => i = k
  BY <1>1 DEF OneInProgress, Active
<1>4. ASSUME run'[r].status = "RUNNING", NEW i \in Issue, NEW w \in Worker,
             InProgress(i, r)', Executes(w, r)'
      PROVE  worker'[w].pc \in Busy /\ worker'[w].job = i
  <2>1. worker'[w].run = r /\ worker'[w].run # NoRun
    BY <1>4, PipelineAssumption DEF Executes
  <2>2. worker[w].run = r /\ Executes(w, r)
    BY <1>1, <1>4, <2>1 DEF HandsOff, Executes
  <2>3. run[r].status = "RUNNING" /\ InProgress(i, r)
    BY <1>1, <1>4 DEF Active
  <2>4. worker[w].pc \in Busy /\ worker[w].job = i
    BY <2>2, <2>3 DEF OneInProgress
  <2>5. QED
    BY <1>4, <2>1, <2>2, <2>3, <2>4 DEF HandsOff
<1>5. QED
  BY <1>2, <1>3, <1>4

\* What the process that executes an attempt has in progress it may close.
LEMMA InProgressIsAdoptable ==
    ASSUME Ownership, NEW w \in Worker, NEW r \in Run, NEW i \in Issue,
           Executes(w, r), run[r].status = "RUNNING", InProgress(i, r)
    PROVE  Adoptable(w, i)
BY DEF Executes, InProgress, Ownership, Adoptable, OwnsJob

\* A process that turns to the next job has closed the one it had, or did not
\* own it.
LEMMA ClosedJob ==
    ASSUME Ownership, OneInProgress, run' = run,
           NEW w \in Worker, NEW i \in Issue, worker[w].job = i,
           \A k \in Issue, r \in Run : InProgress(k, r)' => InProgress(k, r),
           Adoptable(w, i) => job'[i].status # "RUNNING",
           worker'[w].run = worker[w].run, worker'[w].attempt = worker[w].attempt
    PROVE  HandsOff(w)
<1> SUFFICES ASSUME NEW k \in Issue, NEW r \in Run, Executes(w, r),
                    run[r].status = "RUNNING", InProgress(k, r)'
             PROVE  FALSE
  BY DEF HandsOff
<1>1. InProgress(k, r)
  OBVIOUS
<1>2. k = i
  BY <1>1 DEF OneInProgress
<1>3. Adoptable(w, i)
  BY <1>1, <1>2, InProgressIsAdoptable
<1>4. QED
  BY <1>2, <1>3 DEF InProgress

\* The processes that a step does not touch.
LEMMA OthersHandsOff ==
    ASSUME NEW w \in Worker, \A v \in Worker \ {w} : worker'[v] = worker[v], HandsOff(w)
    PROVE  \A v \in Worker : HandsOff(v)
BY DEF HandsOff

\* Steps of a process that leave the rows of jobs alone.
LEMMA IdleSteps ==
    ASSUME TypeOK, NEW w \in Worker,
           \/ \E candidates \in SUBSET Issue : Classify(w, candidates)
           \/ \E i \in Issue : SkipCandidate(w, i)
           \/ EndDiscovery(w) \/ ListJobs(w) \/ JobError(w) \/ RunError(w)
           \/ FailRun(w) \/ CompleteRun(w) \/ Crash(w) \/ Restart(w)
    PROVE  job' = job /\ \A v \in Worker : HandsOff(v)
<1>1. worker \in [Worker -> WorkerRecord] /\ worker[w] \in WorkerRecord
  BY DEF TypeOK
<1>2. CASE \/ \E candidates \in SUBSET Issue : Classify(w, candidates)
           \/ EndDiscovery(w) \/ ListJobs(w)
  <2>1. /\ \A v \in Worker \ {w} : worker'[v] = worker[v]
        /\ job' = job /\ worker[w].pc \notin Busy
    BY <1>1, <1>2 DEF Classify, EndDiscovery, ListJobs, Busy
  <2>2. /\ worker'[w].run = worker[w].run /\ worker'[w].attempt = worker[w].attempt
        /\ worker'[w].job = worker[w].job
    <3>1. CASE \E candidates \in SUBSET Issue : Classify(w, candidates)
      BY <1>1, <3>1 DEF Classify, WorkerRecord
    <3>2. CASE EndDiscovery(w)
      BY <1>1, <3>2 DEF EndDiscovery, WorkerRecord
    <3>3. CASE ListJobs(w)
      BY <1>1, <3>3 DEF ListJobs, WorkerRecord
    <3>4. QED
      BY <1>2, <3>1, <3>2, <3>3
  <2>3. QED
    BY <2>1, <2>2, OthersHandsOff DEF HandsOff
<1>3. CASE \E i \in Issue : SkipCandidate(w, i)
  <2>1. /\ \A v \in Worker \ {w} : worker'[v] = worker[v]
        /\ job' = job /\ worker[w].pc \notin Busy
        /\ worker'[w].run = worker[w].run /\ worker'[w].attempt = worker[w].attempt
        /\ worker'[w].job = worker[w].job
    BY <1>1, <1>3 DEF SkipCandidate, Busy, WorkerRecord
  <2>2. QED
    BY <2>1, OthersHandsOff DEF HandsOff
<1>4. CASE JobError(w) \/ RunError(w)
  <2>1. /\ \A v \in Worker \ {w} : worker'[v] = worker[v]
        /\ job' = job /\ worker'[w].pc \in Busy
        /\ worker'[w].run = worker[w].run /\ worker'[w].attempt = worker[w].attempt
        /\ worker'[w].job = worker[w].job
    BY <1>1, <1>4 DEF JobError, RunError, Busy, WorkerRecord
  <2>2. QED
    BY <2>1, OthersHandsOff DEF HandsOff
<1>5. CASE FailRun(w) \/ CompleteRun(w) \/ Crash(w) \/ Restart(w)
  <2>1. /\ \A v \in Worker \ {w} : worker'[v] = worker[v]
        /\ job' = job /\ worker'[w].run = NoRun
    BY <1>1, <1>5 DEF FailRun, CompleteRun, Crash, Restart, IdleWorker
  <2>2. QED
    BY <2>1, OthersHandsOff DEF HandsOff
<1>6. QED
  BY <1>2, <1>3, <1>4, <1>5

\* A registered job waits in the queue.
LEMMA RegisterInProgress ==
    ASSUME TypeOK, JobRows, OneInProgress, NEW w \in Worker, NEW i \in Issue,
           RegisterIssue(w, i)
    PROVE  OneInProgress'
<1>1. /\ worker \in [Worker -> WorkerRecord] /\ worker[w] \in WorkerRecord
      /\ job \in [Issue -> JobRecord]
  BY DEF TypeOK
<1>2. /\ run' = run /\ worker[w].pc \notin Busy
      /\ \A v \in Worker \ {w} : worker'[v] = worker[v]
  BY <1>1 DEF RegisterIssue, Busy
<1>3. /\ worker'[w].run = worker[w].run /\ worker'[w].attempt = worker[w].attempt
      /\ worker'[w].job = worker[w].job
  <2>1. CASE worker' = [worker EXCEPT ![w].pc = "FailRun"]
    BY <1>1, <2>1 DEF WorkerRecord
  <2>2. CASE worker' = [worker EXCEPT ![w] = [worker[w] EXCEPT !.todo = @ \ {i},
                                                    !.created = @ + 1]]
    BY <1>1, <2>2 DEF WorkerRecord
  <2>3. QED
    BY <2>1, <2>2 DEF RegisterIssue
<1>4. \A v \in Worker : HandsOff(v)
  BY <1>2, <1>3, OthersHandsOff DEF HandsOff
<1>5. \A k \in Issue, r \in Run : InProgress(k, r)' => InProgress(k, r)
  <2>1. \A k \in Issue : job'[k] = job[k] \/ job'[k].status = "QUEUED"
    BY <1>1 DEF RegisterIssue
  <2>2. QED
    BY <1>2, <2>1 DEF InProgress
<1>6. RunsKeepIdentity
  BY <1>2 DEF RunsKeepIdentity
<1>7. QED
  BY <1>4, <1>5, <1>6, NoMoreInProgress

\* A process claims a job when it has none in progress.
LEMMA ClaimInProgress ==
    ASSUME TypeOK, Ownership, SoleExecution, OneInProgress,
           NEW w \in Worker, NEW i \in Issue, ClaimJob(w, i)
    PROVE  OneInProgress'
<1>1. /\ worker \in [Worker -> WorkerRecord] /\ worker[w] \in WorkerRecord
      /\ job \in [Issue -> JobRecord] /\ job[i] \in JobRecord
  BY DEF TypeOK
<1>2. /\ run' = run /\ worker[w].pc = "Jobs"
      /\ \A v \in Worker \ {w} : worker'[v] = worker[v]
  BY <1>1 DEF ClaimJob
<1>3. CASE worker' = [worker EXCEPT ![w].todo = @ \ {i}] /\ job' = job
  <2>1. /\ worker'[w].run = worker[w].run /\ worker'[w].attempt = worker[w].attempt
        /\ worker'[w].job = worker[w].job
    BY <1>1, <1>3 DEF WorkerRecord
  <2>2. \A v \in Worker : HandsOff(v)
    BY <1>2, <2>1, OthersHandsOff DEF HandsOff, Busy
  <2>3. QED
    BY <1>2, <1>3, <2>2, NoMoreInProgress DEF RunsKeepIdentity, InProgress
<1>4. CASE /\ OwnsJob(w, i)
           /\ job' = [job EXCEPT ![i].status = "RUNNING"]
           /\ worker' = [worker EXCEPT ![w] = [worker[w] EXCEPT
                            !.todo = @ \ {i}, !.pc = "Work", !.job = i]]
  <2>1. /\ worker'[w].run = worker[w].run /\ worker'[w].attempt = worker[w].attempt
        /\ worker'[w].job = i /\ worker'[w].pc = "Work"
    BY <1>1, <1>4 DEF WorkerRecord
  <2>2. /\ job'[i].run = job[i].run /\ job'[i].attempt = job[i].attempt
        /\ \A k \in Issue \ {i} : job'[k] = job[k]
    BY <1>1, <1>4 DEF JobRecord
  <2>3. PICK r \in Run : /\ job[i].run = r /\ run[r].exec = worker[w].exec
                         /\ run[r].status = "RUNNING"
    BY <1>4 DEF OwnsJob
  <2>4. Executes(w, r)
    BY <2>3 DEF Ownership, Executes
  <2>5. \A k \in Issue : ~InProgress(k, r)
    BY <1>2, <2>3, <2>4 DEF OneInProgress, Busy
  <2>6. \A k \in Issue : InProgress(k, r)' => k = i
    BY <1>2, <2>2, <2>5 DEF InProgress
  <2>7. \A v \in Worker : Executes(v, r)' => v = w
    BY <1>2, <2>1, <2>3, <2>4 DEF Executes, SoleExecution
  <2>8. \A k \in Issue, q \in Run \ {r} : InProgress(k, q)' => InProgress(k, q)
    BY <1>2, <2>2, <2>3 DEF InProgress
  <2>9. \A q \in Run \ {r}, v \in Worker :
          Executes(v, q)' => v # w /\ Executes(v, q) /\ worker'[v] = worker[v]
    BY <1>2, <2>1, <2>4 DEF Executes
  <2>10. ASSUME NEW q \in Run
         PROVE  /\ run'[q].status = "QUEUED" => \A k \in Issue : ~InProgress(k, q)'
                /\ run'[q].status = "RUNNING" =>
                      \A j, k \in Issue : InProgress(j, q)' /\ InProgress(k, q)' => j = k
                /\ run'[q].status = "RUNNING" =>
                      \A k \in Issue, v \in Worker :
                         InProgress(k, q)' /\ Executes(v, q)' =>
                            worker'[v].pc \in Busy /\ worker'[v].job = k
    <3>1. CASE q = r
      BY <1>2, <2>1, <2>3, <2>6, <2>7, <3>1 DEF Busy
    <3>2. CASE q # r
      BY <1>2, <2>8, <2>9, <3>2 DEF OneInProgress
    <3>3. QED
      BY <3>1, <3>2
  <2>11. QED
    BY <2>10 DEF OneInProgress
<1>5. QED
  BY <1>3, <1>4 DEF ClaimJob

\* The process closes its job, or does not own it.
LEMMA SaveInProgress ==
    ASSUME TypeOK, Ownership, OneInProgress, NEW w \in Worker, NEW i \in Issue,
           SaveJobSuccess(w, i) \/ SaveJobFailure(w, i)
    PROVE  OneInProgress'
<1>1. /\ worker \in [Worker -> WorkerRecord] /\ worker[w] \in WorkerRecord
      /\ job \in [Issue -> JobRecord] /\ job[i] \in JobRecord
  BY DEF TypeOK
<1>2. /\ run' = run /\ worker[w].job = i /\ worker[w].pc \in Busy
      /\ \A v \in Worker \ {w} : worker'[v] = worker[v]
  BY <1>1 DEF SaveJobSuccess, SaveJobFailure, Busy
<1>3. \/ job' = job
      \/ job' = [job EXCEPT ![i] = [job[i] EXCEPT !.status = "SUCCEEDED",
                                                 !.failure = "NONE"]]
      \/ job' = [job EXCEPT ![i] = [job[i] EXCEPT !.status = "FAILED",
                                                 !.failure = "CONTENT"]]
  BY DEF SaveJobSuccess, SaveJobFailure
<1>4. \A k \in Issue : job'[k] = job[k] \/ job'[k].status \in {"SUCCEEDED", "FAILED"}
  BY <1>1, <1>3 DEF JobRecord
<1>5. \A k \in Issue, r \in Run : InProgress(k, r)' => InProgress(k, r)
  BY <1>2, <1>4 DEF InProgress
<1>6. HandsOff(w)
  <2>1. CASE worker' = [worker EXCEPT ![w].pc = "JobFail"]
    <3>1. /\ worker'[w].run = worker[w].run /\ worker'[w].attempt = worker[w].attempt
          /\ worker'[w].job = worker[w].job /\ worker'[w].pc \in Busy
      BY <1>1, <2>1 DEF WorkerRecord, Busy
    <3>2. QED
      BY <3>1 DEF HandsOff
  <2>2. CASE worker' = [worker EXCEPT ![w] = BackToJobs(w)]
    <3>1. worker'[w].run = worker[w].run /\ worker'[w].attempt = worker[w].attempt
      BY <1>1, <2>2 DEF BackToJobs, WorkerRecord
    <3>2. CASE SaveJobFailure(w, i)
      <4>1. Adoptable(w, i) => job'[i].status # "RUNNING"
        BY <1>1, <3>2 DEF SaveJobFailure, JobRecord
      <4>2. QED
        BY <1>2, <1>5, <3>1, <4>1, ClosedJob
    <3>3. CASE SaveJobSuccess(w, i)
      <4>1. worker'[w].pc = "Jobs"
        BY <1>1, <2>2 DEF BackToJobs, WorkerRecord
      <4>2. worker' # [worker EXCEPT ![w].pc = "JobFail"]
        BY <1>1, <4>1 DEF WorkerRecord
      <4>3. Adoptable(w, i) => job'[i].status # "RUNNING"
        <5>1. ASSUME Adoptable(w, i)
              PROVE  job' = [job EXCEPT ![i] = [job[i] EXCEPT !.status = "SUCCEEDED",
                                                             !.failure = "NONE"]]
          BY <3>3, <4>2, <5>1 DEF SaveJobSuccess
        <5>2. QED
          BY <1>1, <5>1 DEF JobRecord
      <4>4. QED
        BY <1>2, <1>5, <3>1, <4>3, ClosedJob
    <3>4. QED
      BY <3>2, <3>3
  <2>3. QED
    BY <2>1, <2>2 DEF SaveJobSuccess, SaveJobFailure
<1>7. QED
  BY <1>2, <1>5, <1>6, OthersHandsOff, NoMoreInProgress DEF RunsKeepIdentity

\* Steps of the operator: only a new attempt makes rows active, and its jobs
\* wait.
LEMMA OperatorInProgress ==
    ASSUME TypeOK, Ownership, JobRows, OneInProgress, OperatorStep
    PROVE  OneInProgress'
<1>0. /\ run \in [Run -> RunRecord] /\ job \in [Issue -> JobRecord]
      /\ \A i \in Issue : job[i] \in JobRecord
  BY DEF TypeOK
<1>1. worker' = worker /\ \A w \in Worker : HandsOff(w)
  BY DEF OperatorStep, Enqueue, Retry, Interrupt, Withdraw, HandsOff
<1>2. ASSUME NEW r \in Run, run'[r].status = "QUEUED",
             run'[r].attempt = run[r].attempt + 1,
             \A q \in Run \ {r} : run'[q] = run[q],
             \A i \in Issue : /\ job'[i].run = job[i].run
                              /\ job'[i] = job[i] \/ job'[i].status = "QUEUED"
      PROVE  OneInProgress'
  <2>1. ASSUME NEW q \in Run \ {r}, NEW i \in Issue, InProgress(i, q)'
        PROVE  InProgress(i, q)
    BY <1>2, <2>1 DEF InProgress
  <2>2. \A i \in Issue : ~InProgress(i, r)'
    <3>1. SUFFICES ASSUME NEW i \in Issue, InProgress(i, r)' PROVE FALSE
      OBVIOUS
    <3>2. job[i].run = r /\ job[i].attempt = run[r].attempt + 1
      BY <1>2, <3>1 DEF InProgress
    <3>3. job[i].attempt \in 1 .. run[r].attempt
      BY <3>2 DEF JobRows
    <3>4. run[r].attempt \in Nat
      BY <1>0, PipelineAssumption DEF RunRecord
    <3>5. QED
      BY <3>2, <3>3, <3>4
  <2>3. \A q \in Run \ {r}, w \in Worker : Executes(w, q)' => Executes(w, q)
    BY <1>1, <1>2 DEF Executes
  <2>4. ASSUME NEW q \in Run
        PROVE  /\ run'[q].status = "QUEUED" => \A i \in Issue : ~InProgress(i, q)'
               /\ run'[q].status = "RUNNING" =>
                     \A i, k \in Issue : InProgress(i, q)' /\ InProgress(k, q)' => i = k
               /\ run'[q].status = "RUNNING" =>
                     \A i \in Issue, w \in Worker :
                        InProgress(i, q)' /\ Executes(w, q)' =>
                           worker'[w].pc \in Busy /\ worker'[w].job = i
    <3>1. CASE q = r
      BY <1>2, <2>2, <3>1
    <3>2. CASE q # r
      BY <1>1, <1>2, <2>1, <2>3, <3>2 DEF OneInProgress
    <3>3. QED
      BY <3>1, <3>2
  <2>5. QED
    BY <2>4 DEF OneInProgress
<1>3. ASSUME NEW r \in Run, Enqueue(r) PROVE OneInProgress'
  <2>1. /\ run'[r].status = "QUEUED" /\ run'[r].attempt = run[r].attempt + 1
        /\ \A q \in Run \ {r} : run'[q] = run[q]
        /\ job' = job
    BY <1>0, <1>3 DEF Enqueue, Ownership
  <2>2. QED
    BY <1>2, <2>1
<1>4. ASSUME NEW r \in Run, NEW a \in 1 .. MaxAttempt,
             NEW scope \in {"DISCOVERY", "CONTENT"}, NEW selected \in SUBSET Issue,
             Retry(r, a, scope, selected)
      PROVE  OneInProgress'
  <2>1. /\ run'[r].status = "QUEUED" /\ run'[r].attempt = run[r].attempt + 1
        /\ \A q \in Run \ {r} : run'[q] = run[q]
    BY <1>0, <1>4 DEF Retry, NextAttempt
  <2>2. \A i \in Issue : /\ job'[i].run = job[i].run
                         /\ job'[i] = job[i] \/ job'[i].status = "QUEUED"
    BY <1>0, <1>4 DEF Retry, JobRecord
  <2>3. QED
    BY <1>2, <2>1, <2>2
<1>5. ASSUME NEW r \in Run, NEW a \in 1 .. MaxAttempt,
             NEW e \in 1 .. (nextExec - 1), Interrupt(r, a, e)
      PROVE  OneInProgress'
  <2>1. RunsKeepIdentity
    <3>1. InterruptedStatus(r) \notin Active \cup {"ABSENT"}
      BY DEF InterruptedStatus, Active
    <3>2. QED
      BY <1>0, <1>5, <3>1 DEF Interrupt, InterruptAllowed, RunsKeepIdentity, RunRecord
  <2>2. \A i \in Issue : job'[i] = job[i] \/ job'[i].status = "FAILED"
    BY <1>0, <1>5 DEF Interrupt, JobRecord
  <2>3. \A i \in Issue, q \in Run : InProgress(i, q)' => InProgress(i, q)
    BY <2>1, <2>2 DEF InProgress, RunsKeepIdentity
  <2>4. QED
    BY <1>1, <2>1, <2>3, NoMoreInProgress
<1>6. ASSUME NEW i \in Issue, Withdraw(i) PROVE OneInProgress'
  <2>1. run' = run /\ job' = job
    BY <1>6 DEF Withdraw
  <2>2. QED
    BY <1>1, <2>1, NoMoreInProgress DEF RunsKeepIdentity, InProgress
<1>7. QED
  BY <1>3, <1>4, <1>5, <1>6 DEF OperatorStep

\* A run that is claimed has no job in progress.
LEMMA ClaimRunInProgress ==
    ASSUME TypeOK, OneInProgress, NEW w \in Worker, NEW r \in Run, ClaimRun(w, r)
    PROVE  OneInProgress'
<1>1. /\ run \in [Run -> RunRecord] /\ worker \in [Worker -> WorkerRecord]
  BY DEF TypeOK
<1>2. /\ job' = job
      /\ \A v \in Worker \ {w} : worker'[v] = worker[v]
      /\ worker'[w].run = r
      /\ run[r].status = "QUEUED"
      /\ \A p \in Run : run'[p].attempt = run[p].attempt
      /\ \A p \in Run \ {r} : run'[p] = run[p]
      /\ run'[r].status = "RUNNING"
  BY <1>1 DEF ClaimRun, IdleWorker, RunRecord
<1>3. \A i \in Issue, q \in Run : InProgress(i, q)' => InProgress(i, q)
  BY <1>2 DEF InProgress
<1>4. \A i \in Issue : ~InProgress(i, r)'
  BY <1>2, <1>3 DEF OneInProgress
<1>5. \A q \in Run \ {r}, v \in Worker :
        Executes(v, q)' => v # w /\ Executes(v, q)
  BY <1>2 DEF Executes
<1>6. ASSUME NEW q \in Run
      PROVE  /\ run'[q].status = "QUEUED" => \A i \in Issue : ~InProgress(i, q)'
             /\ run'[q].status = "RUNNING" =>
                   \A i, k \in Issue : InProgress(i, q)' /\ InProgress(k, q)' => i = k
             /\ run'[q].status = "RUNNING" =>
                   \A i \in Issue, v \in Worker :
                      InProgress(i, q)' /\ Executes(v, q)' =>
                         worker'[v].pc \in Busy /\ worker'[v].job = i
  <2>1. CASE q = r
    BY <1>2, <1>4, <2>1
  <2>2. CASE q # r
    BY <1>2, <1>3, <1>5, <2>2 DEF OneInProgress
  <2>3. QED
    BY <2>1, <2>2
<1>7. QED
  BY <1>6 DEF OneInProgress

\* Every step keeps the jobs in progress in one hand.
LEMMA OneInProgressInductive ==
    OwnershipInv /\ ContentInv /\ OneInProgress /\ [Next]_vars => OneInProgress'
<1> SUFFICES ASSUME OwnershipInv, ContentInv, OneInProgress, [Next]_vars
             PROVE  OneInProgress'
  OBVIOUS
<1>1. TypeOK /\ Ownership /\ SoleExecution /\ JobRows
  BY DEF OwnershipInv, ContentInv
<1>2. CASE UNCHANGED vars
  BY <1>2 DEF vars, OneInProgress, InProgress, Executes
<1>3. CASE OperatorStep
  BY <1>1, <1>3, OperatorInProgress
<1>4. ASSUME NEW w \in Worker, WorkerStep(w) PROVE OneInProgress'
  <2>1. ASSUME NEW r \in Run, ClaimRun(w, r) PROVE OneInProgress'
    BY <1>1, <2>1, ClaimRunInProgress
  <2>2. ASSUME NEW i \in Issue, RegisterIssue(w, i) PROVE OneInProgress'
    BY <1>1, <2>2, RegisterInProgress
  <2>3. ASSUME NEW i \in Issue, ClaimJob(w, i) PROVE OneInProgress'
    BY <1>1, <2>3, ClaimInProgress
  <2>4. ASSUME NEW i \in Issue, SaveJobSuccess(w, i) \/ SaveJobFailure(w, i)
        PROVE  OneInProgress'
    BY <1>1, <2>4, SaveInProgress
  <2>5. CASE \/ \E candidates \in SUBSET Issue : Classify(w, candidates)
             \/ \E i \in Issue : SkipCandidate(w, i)
             \/ EndDiscovery(w) \/ ListJobs(w) \/ JobError(w) \/ RunError(w)
             \/ FailRun(w) \/ CompleteRun(w) \/ Crash(w) \/ Restart(w)
    <3>1. job' = job /\ \A v \in Worker : HandsOff(v)
      BY <1>1, <2>5, IdleSteps
    <3>2. RunsKeepIdentity
      <4>1. CASE FailRun(w) \/ CompleteRun(w)
        <5>1. \A r \in Run : CompletedStatus(r) \notin Active \cup {"ABSENT"}
          BY DEF CompletedStatus, Active
        <5>2. run \in [Run -> RunRecord]
          BY <1>1 DEF TypeOK
        <5>3. QED
          BY <4>1, <5>1, <5>2
          DEF FailRun, CompleteRun, HoldsRun, RunsKeepIdentity, RunRecord, Active
      <4>2. CASE run' = run
        BY <4>2 DEF RunsKeepIdentity
      <4>3. QED
        BY <2>5, <4>1, <4>2 DEF Classify, SkipCandidate, EndDiscovery, ListJobs,
                                JobError, RunError, Crash, Restart
    <3>3. QED
      BY <3>1, <3>2, NoMoreInProgress DEF InProgress, RunsKeepIdentity
  <2>6. QED
    BY <1>4, <2>1, <2>2, <2>3, <2>4, <2>5 DEF WorkerStep, Processing
<1>5. QED
  BY <1>2, <1>3, <1>4 DEF Next

-----------------------------------------------------------------------------
\* A worker has one job in hand, and a run makes no more issues than the limit
\* of each of its attempts, whichever processes register them
\* (pipeline.worker.ts, processQueuedJobs and the maxNewIssues test).
THEOREM WorkerLimitsCorrect == Spec => []WorkerLimits
<1>1. Init => Budget /\ OneInProgress
  <2>1. Init => OneInProgress
    BY DEF Init, OneInProgress
  <2>2. QED
    BY <2>1, BudgetInit
<1>2. Budget /\ OneInProgress => WorkerLimits
  <2>1. Budget => JobBudget
    BY DEF Budget, BudgetOf, Made, Cap, JobBudget
  <2>2. OneInProgress => OneJobAtATime
    BY DEF OneInProgress, InProgress, OneJobAtATime, JobsOf
  <2>3. QED
    BY <2>1, <2>2 DEF WorkerLimits
<1>3. QED
  BY <1>1, <1>2, BudgetInductive, OneInProgressInductive, ContentCorrect, PTL DEF Spec

-----------------------------------------------------------------------------
(* The publication gate: every step is one action of PublicationGate, or    *)
(* none.                                                                    *)

Tickets == [i \in Issue |-> [run |-> job[i].run, attempt |-> job[i].attempt]]
Attempts == [r \in Run |-> run[r].attempt]

\* What the slot is, with and without an active run.
SlotMeans ==
    OneActiveRun =>
        /\ (\A r \in Run : run[r].status \notin Active) => GateSlot = Gate!Free
        /\ \A r \in Run : run[r].status \in Active =>
              /\ GateSlot.run = r
              /\ GateSlot.attempt = run[r].attempt
              /\ GateSlot = [run |-> r, attempt |-> run[r].attempt,
                             live |-> run[r].status = "RUNNING"]

\* The run that CHOOSE finds is the only active one.
LEMMA SlotOfRun == SlotMeans
<1> SUFFICES ASSUME OneActiveRun PROVE SlotMeans!2
  BY DEF SlotMeans
<1>1. (\A r \in Run : run[r].status \notin Active) => GateSlot = Gate!Free
  BY DEF GateSlot, Gate!Free
<1>2. ASSUME NEW r \in Run, run[r].status \in Active
      PROVE  GateSlot = [run |-> r, attempt |-> run[r].attempt,
                         live |-> run[r].status = "RUNNING"]
  <2> DEFINE found == CHOOSE q \in Run : run[q].status \in Active
  <2>1. found \in Run /\ run[found].status \in Active
    BY <1>2
  <2>2. found = r
    BY <1>2, <2>1 DEF OneActiveRun
  <2>3. GateSlot = [run |-> found, attempt |-> run[found].attempt,
                    live |-> run[found].status = "RUNNING"]
    BY <1>2 DEF GateSlot
  <2>4. QED
    BY <2>2, <2>3
<1>3. QED
  BY <1>1, <1>2

\* The same of the next state.
LEMMA SlotOfRunNext == SlotMeans'
BY SlotOfRun, PTL

\* A run that takes the free slot under the next attempt number, with the
\* tickets of some drafts renewed (enqueue, retry).
LEMMA TakesSlot ==
    ASSUME OneActiveRun', OneActiveRun, NEW r \in Run, NEW renewed \in SUBSET Issue,
           NoOtherActive(r), run[r].status \notin Active,
           run'[r].status = "QUEUED", run'[r].attempt = run[r].attempt + 1,
           \A q \in Run \ {r} : run'[q] = run[q],
           renewed \subseteq {i \in Issue : job[i].run = r /\ pub[i] = "UNPUBLISHED"},
           \A i \in renewed : job'[i].run = r /\ job'[i].attempt = run[r].attempt + 1,
           \A i \in Issue \ renewed : job'[i] = job[i],
           pub' = pub
    PROVE  Gate!Admit(r, renewed)
<1>1. GateSlot = Gate!Free
  BY SlotOfRun DEF SlotMeans, NoOtherActive, OneActiveRun
<1>2. GateSlot' = [run |-> r, attempt |-> run[r].attempt + 1, live |-> FALSE]
  <2>1. GateSlot' = [run |-> r, attempt |-> run'[r].attempt,
                     live |-> run'[r].status = "RUNNING"]
    BY SlotOfRunNext DEF SlotMeans, Active
  <2>2. (run'[r].status = "RUNNING") = FALSE
    OBVIOUS
  <2>3. QED
    BY <2>1, <2>2
<1>3. Attempts' = [Attempts EXCEPT ![r] = Attempts[r] + 1]
  BY DEF Attempts
<1>4. Tickets' = [i \in Issue |->
                    IF i \in renewed THEN [run |-> r, attempt |-> Attempts[r] + 1]
                    ELSE Tickets[i]]
  BY DEF Tickets, Attempts
<1>5. renewed \subseteq Gate!Drafts(r)
  BY DEF Gate!Drafts
<1>6. QED
  BY <1>1, <1>2, <1>3, <1>4, <1>5 DEF Gate!Admit, Attempts, Tickets

\* The run that is RUNNING gives up the slot (interrupt, completeRun, failRun).
LEMMA LeavesSlot ==
    ASSUME OneActiveRun, OneActiveRun', NEW r \in Run,
           run[r].status = "RUNNING", run'[r].status \notin Active,
           run'[r].attempt = run[r].attempt,
           \A q \in Run \ {r} : run'[q] = run[q],
           Tickets' = Tickets, pub' = pub
    PROVE  Gate!Leave
<1>1. GateSlot = [run |-> r, attempt |-> run[r].attempt,
                  live |-> run[r].status = "RUNNING"]
  BY SlotOfRun DEF SlotMeans, Active
<1>2. \A q \in Run : run'[q].status \notin Active
  <2>1. \A q \in Run \ {r} : run[q].status \notin Active
    BY DEF OneActiveRun, Active
  <2>2. QED
    BY <2>1
<1>3. GateSlot' = Gate!Free
  BY <1>2, SlotOfRunNext DEF SlotMeans, Gate!Free
<1>4. Attempts' = Attempts
  BY DEF Attempts
<1>5. GateSlot.live
  BY <1>1
<1>6. QED
  BY <1>3, <1>4, <1>5 DEF Gate!Leave, Attempts, Tickets

\* Runs that keep their status and attempt keep the slot as it is.
LEMMA KeepsSlot ==
    ASSUME OneActiveRun, OneActiveRun',
           \A q \in Run : /\ run'[q].status = run[q].status
                          /\ run'[q].attempt = run[q].attempt
    PROVE  GateSlot' = GateSlot /\ Attempts' = Attempts
<1>1. Attempts' = Attempts
  BY DEF Attempts
<1>2. CASE \A r \in Run : run[r].status \notin Active
  <2>1. GateSlot = Gate!Free
    BY <1>2, SlotOfRun DEF SlotMeans
  <2>2. GateSlot' = Gate!Free
    BY <1>2, SlotOfRunNext DEF SlotMeans, Active, Gate!Free
  <2>3. QED
    BY <1>1, <2>1, <2>2
<1>3. CASE \E r \in Run : run[r].status \in Active
  <2>1. PICK r \in Run : run[r].status \in Active
    BY <1>3
  <2>2. GateSlot = [run |-> r, attempt |-> run[r].attempt,
                    live |-> run[r].status = "RUNNING"]
    BY <2>1, SlotOfRun DEF SlotMeans
  <2>3. GateSlot' = [run |-> r, attempt |-> run'[r].attempt,
                     live |-> run'[r].status = "RUNNING"]
    BY <2>1, SlotOfRunNext DEF SlotMeans, Active
  <2>4. (run'[r].status = "RUNNING") = (run[r].status = "RUNNING")
    OBVIOUS
  <2>5. QED
    BY <1>1, <2>2, <2>3, <2>4
<1>4. QED
  BY <1>2, <1>3

-----------------------------------------------------------------------------
(* The steps of the pipeline, each as a step of the gate.                  *)

GateInv == OwnershipInv /\ ContentInv

\* A new run is admitted without drafts.
LEMMA EnqueueAdmits ==
    ASSUME GateInv, GateInv', NEW r \in Run, Enqueue(r)
    PROVE  Gate!Admit(r, {})
<1>1. /\ run \in [Run -> RunRecord] /\ OneActiveRun /\ OneActiveRun'
      /\ run[r].attempt = 0
  BY DEF GateInv, OwnershipInv, TypeOK, Ownership, Enqueue
<1>2. /\ run'[r].status = "QUEUED" /\ run'[r].attempt = run[r].attempt + 1
      /\ \A q \in Run \ {r} : run'[q] = run[q]
      /\ job' = job /\ pub' = pub
      /\ NoOtherActive(r) /\ run[r].status \notin Active
  BY <1>1 DEF Enqueue, Active
<1>3. QED
  BY <1>1, <1>2, TakesSlot

\* A retry renews the tickets of the jobs it puts back in the queue, which are
\* drafts: not withdrawn, and not published because their jobs did not succeed.
LEMMA RetryAdmits ==
    ASSUME GateInv, GateInv', NEW r \in Run, NEW a \in 1 .. MaxAttempt,
           NEW scope \in {"DISCOVERY", "CONTENT"}, NEW selected \in SUBSET Issue,
           Retry(r, a, scope, selected)
    PROVE  \E renewed \in SUBSET Issue : Gate!Admit(r, renewed)
<1> USE PipelineAssumption
<1>0. PICK again \in SUBSET Issue : again = Requeued(r, scope, selected)
  BY DEF Requeued, JobsOf
<1>1. /\ run \in [Run -> RunRecord] /\ job \in [Issue -> JobRecord]
      /\ pub \in [Issue -> Publication]
      /\ OneActiveRun /\ OneActiveRun' /\ JobRows /\ PublishedIffSucceeded
  BY DEF GateInv, OwnershipInv, ContentInv, TypeOK
<1>2. /\ run'[r].status = "QUEUED" /\ run'[r].attempt = run[r].attempt + 1
      /\ \A q \in Run \ {r} : run'[q] = run[q]
      /\ pub' = pub
      /\ NoOtherActive(r) /\ run[r].status \notin Active
  BY <1>1 DEF Retry, NextAttempt, Active, Retryable
<1>3. again \subseteq {i \in Issue : job[i].run = r /\ pub[i] = "UNPUBLISHED"}
  <2> SUFFICES ASSUME NEW i \in again
               PROVE  i \in Issue /\ job[i].run = r /\ pub[i] = "UNPUBLISHED"
    OBVIOUS
  <2>1. i \in Issue /\ job[i].run = r /\ pub[i] # "WITHDRAWN"
    BY <1>0 DEF Requeued, JobsOf
  <2>2. job[i].status # "SUCCEEDED" /\ job[i].status # "ABSENT"
    <3>1. job[i].status \in {"QUEUED", "RUNNING", "FAILED"}
      BY <1>0 DEF Requeued, Resumable, Unfinished
    <3>2. QED
      BY <3>1
  <2>3. pub[i] # "NONE" /\ pub[i] # "PUBLISHED"
    BY <1>1, <2>1, <2>2 DEF JobRows, PublishedIffSucceeded
  <2>4. QED
    BY <1>1, <2>1, <2>3 DEF Publication
<1>4. /\ \A i \in again : job'[i].run = r /\ job'[i].attempt = run[r].attempt + 1
      /\ \A i \in Issue \ again : job'[i] = job[i]
  <2>1. run[r].attempt = a /\ NextAttempt(a) = a + 1
    BY DEF Retry, NextAttempt
  <2>2. job' = [i \in Issue |->
                 IF i \in again
                 THEN [job[i] EXCEPT !.status = "QUEUED", !.failure = "NONE",
                                     !.attempt = NextAttempt(a)]
                 ELSE job[i]]
    BY <1>0 DEF Retry
  <2>3. ASSUME NEW i \in again
        PROVE  job'[i].run = r /\ job'[i].attempt = run[r].attempt + 1
    <3>1. i \in Issue /\ job[i] \in JobRecord /\ job[i].run = r
      BY <1>1, <1>3, <2>3
    <3>2. QED
      BY <2>1, <2>2, <2>3, <3>1 DEF JobRecord
  <2>4. QED
    BY <2>2, <2>3
<1>5. Gate!Admit(r, again)
  BY <1>1, <1>2, <1>3, <1>4, TakesSlot
<1>6. QED
  BY <1>5

\* The tickets of jobs whose run and attempt do not change.
LEMMA TicketsKept ==
    ASSUME \A i \in Issue : job'[i].run = job[i].run /\ job'[i].attempt = job[i].attempt
    PROVE  Tickets' = Tickets
BY DEF Tickets

\* An interrupt frees the slot.
LEMMA InterruptLeaves ==
    ASSUME GateInv, GateInv', NEW r \in Run, NEW a \in 1 .. MaxAttempt, NEW e,
           Interrupt(r, a, e)
    PROVE  Gate!Leave
<1>1. /\ run \in [Run -> RunRecord] /\ job \in [Issue -> JobRecord]
      /\ OneActiveRun /\ OneActiveRun'
  BY DEF GateInv, OwnershipInv, TypeOK
<1>2. InterruptedStatus(r) \notin Active
  BY DEF InterruptedStatus, Active
<1>3. /\ run[r].status = "RUNNING" /\ run'[r].status = InterruptedStatus(r)
      /\ run'[r].attempt = run[r].attempt
      /\ \A q \in Run \ {r} : run'[q] = run[q]
      /\ pub' = pub
  BY <1>1 DEF Interrupt, InterruptAllowed, RunRecord
<1>4. \A i \in Issue : job'[i].run = job[i].run /\ job'[i].attempt = job[i].attempt
  BY <1>1 DEF Interrupt, JobRecord
<1>5. QED
  BY <1>1, <1>2, <1>3, <1>4, TicketsKept, LeavesSlot

\* A worker that ends its run frees the slot, and one that does not hold it
\* changes nothing (completeRun, failRun).
LEMMA EndLeaves ==
    ASSUME GateInv, GateInv', NEW w \in Worker, FailRun(w) \/ CompleteRun(w),
           HoldsRun(w), run' # run
    PROVE  Gate!Leave
<1>1. /\ run \in [Run -> RunRecord] /\ OneActiveRun /\ OneActiveRun'
  BY DEF GateInv, OwnershipInv, TypeOK
<1>2. PICK r \in Run : r = worker[w].run /\ run[r].status = "RUNNING"
  BY DEF HoldsRun
<1>3. CompletedStatus(r) \notin Active
  BY DEF CompletedStatus, Active
<1>4. /\ run'[r].status \notin Active /\ run'[r].attempt = run[r].attempt
      /\ \A q \in Run \ {r} : run'[q] = run[q]
      /\ pub' = pub /\ job' = job
  BY <1>1, <1>2, <1>3 DEF FailRun, CompleteRun, RunRecord, Active
<1>5. Tickets' = Tickets
  BY <1>4 DEF Tickets
<1>6. QED
  BY <1>1, <1>2, <1>4, <1>5, LeavesSlot

\* A record with another live bit.
LEMMA SetLive ==
    ASSUME NEW r, NEW n, NEW old, NEW new
    PROVE  [[run |-> r, attempt |-> n, live |-> old] EXCEPT !.live = new]
             = [run |-> r, attempt |-> n, live |-> new]
OBVIOUS

\* A claim starts the run that waits in the slot.
LEMMA ClaimStarts ==
    ASSUME GateInv, GateInv', NEW w \in Worker, NEW r \in Run, ClaimRun(w, r)
    PROVE  Gate!Start
<1> USE PipelineAssumption
<1>1. /\ run \in [Run -> RunRecord] /\ OneActiveRun /\ OneActiveRun'
  BY DEF GateInv, OwnershipInv, TypeOK
<1>2. /\ run[r].status = "QUEUED" /\ run'[r].status = "RUNNING"
      /\ run'[r].attempt = run[r].attempt
      /\ \A q \in Run \ {r} : run'[q] = run[q]
      /\ pub' = pub /\ job' = job
  BY <1>1 DEF ClaimRun, RunRecord
<1>3. GateSlot = [run |-> r, attempt |-> run[r].attempt, live |-> FALSE]
  <2>1. GateSlot = [run |-> r, attempt |-> run[r].attempt,
                    live |-> run[r].status = "RUNNING"]
    BY <1>1, <1>2, SlotOfRun DEF SlotMeans, Active
  <2>2. (run[r].status = "RUNNING") = FALSE
    BY <1>2
  <2>3. QED
    BY <2>1, <2>2
<1>4. GateSlot' = [run |-> r, attempt |-> run[r].attempt, live |-> TRUE]
  <2>1. GateSlot' = [run |-> r, attempt |-> run'[r].attempt,
                     live |-> run'[r].status = "RUNNING"]
    BY <1>1, <1>2, SlotOfRunNext DEF SlotMeans, Active
  <2>2. (run'[r].status = "RUNNING") = TRUE
    BY <1>2
  <2>3. QED
    BY <1>2, <2>1, <2>2
<1>5. GateSlot # Gate!Free
  <2>1. r # NoRun
    OBVIOUS
  <2>2. GateSlot.run # Gate!Free.run
    BY <1>3, <2>1 DEF Gate!Free
  <2>3. QED
    BY <2>2
<1>6. GateSlot' = [GateSlot EXCEPT !.live = TRUE]
  BY <1>3, <1>4, SetLive
<1>7. Attempts' = Attempts /\ Tickets' = Tickets
  BY <1>2 DEF Attempts, Tickets
<1>8. ~GateSlot.live
  BY <1>3
<1>9. QED
  BY <1>2, <1>5, <1>6, <1>7, <1>8 DEF Gate!Start, Attempts, Tickets

\* A worker that holds its run has the live slot.
LEMMA OwnerHasSlot ==
    ASSUME OneActiveRun, NEW w \in Worker, HoldsRun(w)
    PROVE  /\ GateSlot.live
           /\ GateSlot.run = worker[w].run /\ GateSlot.attempt = worker[w].attempt
<1>1. PICK r \in Run : /\ r = worker[w].run /\ run[r].status = "RUNNING"
                       /\ run[r].attempt = worker[w].attempt
  BY DEF HoldsRun
<1>2. GateSlot = [run |-> r, attempt |-> run[r].attempt,
                  live |-> run[r].status = "RUNNING"]
  BY <1>1, SlotOfRun DEF SlotMeans, Active
<1>3. QED
  BY <1>1, <1>2

\* registerIssue drafts for the attempt in the slot, or changes no row.
LEMMA RegisterDrafts ==
    ASSUME GateInv, GateInv', NEW w \in Worker, NEW i \in Issue, RegisterIssue(w, i)
    PROVE  Gate!Draft(i) \/ UNCHANGED <<run, job, pub>>
<1> SUFFICES ASSUME Admitted(w), pub[i] = "NONE", run' = run,
                    job' = [job EXCEPT ![i] =
                       [run |-> worker[w].run, status |-> "QUEUED",
                        failure |-> "NONE", attempt |-> worker[w].attempt]],
                    pub' = [pub EXCEPT ![i] = "UNPUBLISHED"]
             PROVE  Gate!Draft(i)
  BY DEF RegisterIssue
<1>1. /\ job \in [Issue -> JobRecord] /\ pub \in [Issue -> Publication]
      /\ OwnershipInv /\ OneActiveRun /\ OneActiveRun'
  BY DEF GateInv, OwnershipInv, TypeOK
<1>2. HoldsRun(w)
  BY <1>1, ChecksFence DEF RegisterIssue
<1>3. /\ GateSlot.live
      /\ GateSlot.run = worker[w].run /\ GateSlot.attempt = worker[w].attempt
  BY <1>1, <1>2, OwnerHasSlot
<1>4. GateSlot' = GateSlot /\ Attempts' = Attempts
  BY <1>1, KeepsSlot
<1>5. Tickets' = [Tickets EXCEPT ![i] = [run |-> GateSlot.run,
                                         attempt |-> GateSlot.attempt]]
  BY <1>1, <1>3 DEF Tickets
<1>6. QED
  BY <1>3, <1>4, <1>5 DEF Gate!Draft, Tickets, Attempts

\* saveJobSuccess publishes a draft by the attempt in the slot, whose ticket
\* the issue carries, or changes nothing that readers depend on.
LEMMA SaveJobPublishes ==
    ASSUME GateInv, GateInv', NEW w \in Worker, NEW i \in Issue, SaveJobSuccess(w, i)
    PROVE  Gate!Publish(i) \/ UNCHANGED <<run, job, pub>>
<1> SUFFICES ASSUME Adoptable(w, i), Publishable(i), run' = run,
                    job' = [job EXCEPT ![i] = [job[i] EXCEPT !.status = "SUCCEEDED",
                                                     !.failure = "NONE"]],
                    pub' = [pub EXCEPT ![i] = "PUBLISHED"]
             PROVE  Gate!Publish(i)
  BY DEF SaveJobSuccess
<1>1. /\ job \in [Issue -> JobRecord] /\ pub \in [Issue -> Publication]
      /\ OwnershipInv /\ OneActiveRun /\ OneActiveRun'
      /\ JobRows /\ PublishedIffSucceeded
  BY DEF GateInv, OwnershipInv, ContentInv, TypeOK
<1>2. /\ HoldsRun(w) /\ job[i].run = worker[w].run
      /\ job[i].attempt = worker[w].attempt
  BY <1>1, ChecksFence DEF SaveJobSuccess, Adoptable, OwnsJob
<1>3. /\ GateSlot.live
      /\ GateSlot.run = worker[w].run /\ GateSlot.attempt = worker[w].attempt
  BY <1>1, <1>2, OwnerHasSlot
<1>4. pub[i] = "UNPUBLISHED"
  <2>1. job[i].status = "RUNNING" /\ pub[i] # "WITHDRAWN"
    BY DEF Adoptable, Publishable
  <2>2. pub[i] # "NONE" /\ pub[i] # "PUBLISHED"
    BY <1>1, <2>1 DEF JobRows, PublishedIffSucceeded
  <2>3. QED
    BY <1>1, <2>1, <2>2 DEF Publication
<1>5. GateSlot' = GateSlot /\ Attempts' = Attempts
  BY <1>1, KeepsSlot
<1>6. \A k \in Issue : job'[k].run = job[k].run /\ job'[k].attempt = job[k].attempt
  BY <1>1 DEF JobRecord
<1>7. Tickets' = Tickets
  BY <1>6, TicketsKept
<1>8. Tickets[i] = [run |-> GateSlot.run, attempt |-> GateSlot.attempt]
  BY <1>2, <1>3 DEF Tickets
<1>9. QED
  BY <1>3, <1>4, <1>5, <1>7, <1>8 DEF Gate!Publish, Tickets, Attempts

\* A withdrawal is one, too.
LEMMA WithdrawWithdraws ==
    ASSUME GateInv, GateInv', NEW i \in Issue, Withdraw(i)
    PROVE  Gate!Withdraw(i)
<1>1. OneActiveRun /\ OneActiveRun' /\ run' = run /\ job' = job
  BY DEF GateInv, OwnershipInv, Withdraw
<1>2. GateSlot' = GateSlot /\ Attempts' = Attempts
  BY <1>1, KeepsSlot
<1>3. QED
  BY <1>1, <1>2 DEF Withdraw, Gate!Withdraw, Attempts

\* Rows that keep their runs, attempts and publications are no step of the gate.
LEMMA QuietForGate ==
    ASSUME GateInv, GateInv', run' = run, pub' = pub,
           \A i \in Issue : job'[i].run = job[i].run /\ job'[i].attempt = job[i].attempt
    PROVE  UNCHANGED Gate!gateVars
<1>1. OneActiveRun /\ OneActiveRun'
  BY DEF GateInv, OwnershipInv
<1>2. GateSlot' = GateSlot /\ Attempts' = Attempts
  BY <1>1, KeepsSlot
<1>3. Tickets' = Tickets
  BY TicketsKept
<1>4. QED
  BY <1>2, <1>3 DEF Gate!gateVars, Attempts, Tickets

\* Steps of a worker that touch at most the progress of a job.
LEMMA OtherWorkerSteps ==
    ASSUME GateInv, NEW w \in Worker, WorkerStep(w)
    PROVE  \/ \E r \in Run : ClaimRun(w, r)
           \/ \E i \in Issue : RegisterIssue(w, i) \/ SaveJobSuccess(w, i)
           \/ (FailRun(w) \/ CompleteRun(w)) /\ HoldsRun(w) /\ run' # run
           \/ /\ run' = run /\ pub' = pub
              /\ \A i \in Issue : /\ job'[i].run = job[i].run
                                  /\ job'[i].attempt = job[i].attempt
<1> DEFINE Same == /\ run' = run /\ pub' = pub
                   /\ \A i \in Issue : /\ job'[i].run = job[i].run
                                       /\ job'[i].attempt = job[i].attempt
<1>1. job \in [Issue -> JobRecord]
  BY DEF GateInv, OwnershipInv, TypeOK
<1>2. ASSUME NEW i \in Issue, ClaimJob(w, i) \/ SaveJobFailure(w, i)
      PROVE  Same
  <2>1. job[i] \in JobRecord
    BY <1>1
  <2>2. CASE ClaimJob(w, i)
    <3>1. \/ job' = job
          \/ job' = [job EXCEPT ![i] = [job[i] EXCEPT !.status = "RUNNING"]]
      BY <1>1, <2>1, <2>2 DEF ClaimJob
    <3>2. QED
      BY <1>1, <2>1, <2>2, <3>1 DEF ClaimJob, JobRecord
  <2>3. CASE SaveJobFailure(w, i)
    <3>1. \/ job' = job
          \/ job' = [job EXCEPT ![i] = [job[i] EXCEPT !.status = "FAILED",
                                                     !.failure = "CONTENT"]]
      BY <2>3 DEF SaveJobFailure
    <3>2. QED
      BY <1>1, <2>1, <2>3, <3>1 DEF SaveJobFailure, JobRecord
  <2>4. QED
    BY <1>2, <2>2, <2>3
<1>3. CASE \/ \E candidates \in SUBSET Issue : Classify(w, candidates)
           \/ \E i \in Issue : SkipCandidate(w, i)
           \/ EndDiscovery(w) \/ ListJobs(w) \/ JobError(w) \/ RunError(w)
           \/ Crash(w) \/ Restart(w)
  BY <1>3 DEF Classify, SkipCandidate, EndDiscovery, ListJobs, JobError,
              RunError, Crash, Restart
<1>4. CASE FailRun(w) \/ CompleteRun(w)
  BY <1>4 DEF FailRun, CompleteRun
<1>5. QED
  BY <1>2, <1>3, <1>4 DEF WorkerStep, Processing

-----------------------------------------------------------------------------
\* Readers of issues see a publication gate, however many processes work on
\* however many runs, and whatever the operator believes of them.
THEOREM GateSpecCorrect == Spec => GateSpec
<1>1. Init => Gate!Init
  BY DEF Init, Gate!Init, Gate!Free, GateSlot, Active
<1>2. GateInv /\ GateInv' /\ [Next]_vars => [Gate!Next]_(Gate!gateVars)
  <2> SUFFICES ASSUME GateInv, GateInv', [Next]_vars
               PROVE  Gate!Next \/ UNCHANGED Gate!gateVars
    OBVIOUS
  <2>1. CASE UNCHANGED vars
    BY <2>1, QuietForGate DEF vars
  <2>2. ASSUME NEW r \in Run, Enqueue(r) PROVE Gate!Next
    BY <2>2, EnqueueAdmits DEF Gate!Next
  <2>3. ASSUME NEW r \in Run, NEW a \in 1 .. MaxAttempt,
               NEW scope \in {"DISCOVERY", "CONTENT"}, NEW selected \in SUBSET Issue,
               Retry(r, a, scope, selected)
        PROVE  Gate!Next
    BY <2>3, RetryAdmits DEF Gate!Next
  <2>4. ASSUME NEW r \in Run, NEW a \in 1 .. MaxAttempt,
               NEW e \in 1 .. (nextExec - 1), Interrupt(r, a, e)
        PROVE  Gate!Next
    BY <2>4, InterruptLeaves DEF Gate!Next
  <2>5. ASSUME NEW i \in Issue, Withdraw(i) PROVE Gate!Next
    BY <2>5, WithdrawWithdraws DEF Gate!Next
  <2>6. ASSUME NEW w \in Worker, WorkerStep(w)
        PROVE  Gate!Next \/ UNCHANGED Gate!gateVars
    <3>1. ASSUME NEW r \in Run, ClaimRun(w, r) PROVE Gate!Next
      BY <3>1, ClaimStarts DEF Gate!Next
    <3>2. ASSUME NEW i \in Issue, RegisterIssue(w, i)
          PROVE  Gate!Next \/ UNCHANGED Gate!gateVars
      <4>1. CASE UNCHANGED <<run, job, pub>>
        BY <4>1, QuietForGate
      <4>2. QED
        BY <3>2, <4>1, RegisterDrafts DEF Gate!Next
    <3>3. ASSUME NEW i \in Issue, SaveJobSuccess(w, i)
          PROVE  Gate!Next \/ UNCHANGED Gate!gateVars
      <4>1. CASE UNCHANGED <<run, job, pub>>
        BY <4>1, QuietForGate
      <4>2. QED
        BY <3>3, <4>1, SaveJobPublishes DEF Gate!Next
    <3>4. CASE (FailRun(w) \/ CompleteRun(w)) /\ HoldsRun(w) /\ run' # run
      BY <3>4, EndLeaves DEF Gate!Next
    <3>5. QED
      BY <2>6, <3>1, <3>2, <3>3, <3>4, OtherWorkerSteps, QuietForGate
  <2>7. QED
    BY <2>1, <2>2, <2>3, <2>4, <2>5, <2>6 DEF Next, OperatorStep
<1>3. QED
  BY <1>1, <1>2, ContentCorrect, PTL DEF Spec, GateSpec, Gate!Spec, GateInv

-----------------------------------------------------------------------------
(* The double of the tests.                                                *)

RowRecord ==
    [status : {"ABSENT", "QUEUED", "RUNNING", "SUCCEEDED", "FAILED",
               "PARTIALLY_SUCCEEDED"},
     attempt : 0 .. LastAttempt, execution : Nat, pending : Nat]
TitleJob ==
    [run : RunId \cup {Nothing}, attempt : Nat, interrupted : BOOLEAN,
     status : {"ABSENT", "QUEUED", "RUNNING", "SUCCEEDED", "FAILED"}]
Ticket == [run : RunId, attempt : Nat, execution : Nat]

\* The rows have their shapes, and executions are counted.
DoubleRows ==
    /\ rows \in [RunId -> RowRecord]
    /\ jobs \in [Title -> TitleJob]
    /\ issues \in [Title -> {"NONE", "UNPUBLISHED", "PUBLISHED", "WITHDRAWN"}]
    /\ tasks \in [Title -> TaskRecord \cup {Nothing}]
    /\ tickets \in SUBSET Ticket /\ IsFiniteSet(tickets)
    /\ spent \subseteq ClaimToken
    /\ \A r \in RunId : rows[r].execution <= Cardinality(tickets)
    /\ \A t \in tickets : t.execution <= Cardinality(tickets)

\* One run holds the slot, and no row is new that has an attempt.
OneWaiting ==
    /\ \A r \in RunId : rows[r].status = "ABSENT" => rows[r].attempt = 0
    /\ \A r, q \in RunId :
         rows[r].status \in Waiting /\ rows[q].status \in Waiting => r = q

\* What a claim returned is older than a row that is queued again, and is that
\* of a row which runs under its execution.
TicketsAgree ==
    \A t \in tickets :
        /\ t.attempt <= rows[t.run].attempt
        /\ rows[t.run].status = "QUEUED" => t.attempt < rows[t.run].attempt
        /\ \A r \in RunId :
             rows[r].status = "RUNNING" /\ rows[r].execution = t.execution =>
                t.run = r /\ t.attempt = rows[r].attempt

\* An issue and its job come together, and only a succeeded one is published.
TitlesAgree ==
    \A i \in Title :
        /\ (issues[i] = "NONE") = (jobs[i].status = "ABSENT")
        /\ (jobs[i].run = Nothing) = (jobs[i].status = "ABSENT")
        /\ issues[i] = "PUBLISHED" => jobs[i].status = "SUCCEEDED"

\* A task is that of a succeeded job, claimed while it runs.
TasksOfJobs ==
    \A i \in Title :
        /\ (tasks[i] # Nothing) = (jobs[i].status = "SUCCEEDED")
        /\ tasks[i] # Nothing => /\ tasks[i].run = jobs[i].run
                                 /\ (tasks[i].token # Nothing) = (tasks[i].status = "RUNNING")
                                 /\ tasks[i].token \in spent \cup {Nothing}

\* The count of a run lies between its tasks of published issues and all.
OpenOf(r) == {i \in TitlesOf(r) : TaskOpen(i)}
SeenOf(r) == {i \in OpenOf(r) : issues[i] = "PUBLISHED"}
PendingCounts ==
    \A r \in RunId : rows[r].pending \in Cardinality(SeenOf(r)) .. Cardinality(OpenOf(r))

DoubleInv == DoubleRows /\ OneWaiting /\ TicketsAgree /\ TitlesAgree /\ TasksOfJobs
             /\ PendingCounts

\* The initial state.
LEMMA DoubleInvInit == DoubleInit => DoubleInv
<1> SUFFICES ASSUME DoubleInit PROVE DoubleInv
  OBVIOUS
<1>1. DoubleRows
  BY DoubleAssumption, FS_EmptySet
  DEF DoubleInit, DoubleRows, RowRecord, TitleJob, TaskRecord
<1>2. OneWaiting /\ TicketsAgree /\ TitlesAgree /\ TasksOfJobs
  BY DEF DoubleInit, OneWaiting, TicketsAgree, TitlesAgree, TasksOfJobs, Waiting
<1>3. PendingCounts
  <2> SUFFICES ASSUME NEW r \in RunId
               PROVE  rows[r].pending \in Cardinality(SeenOf(r)) .. Cardinality(OpenOf(r))
    BY DEF PendingCounts
  <2>1. OpenOf(r) = {} /\ SeenOf(r) = {}
    BY DEF DoubleInit, OpenOf, SeenOf, TitlesOf, TaskOpen
  <2>2. Cardinality({}) = 0 /\ rows[r].pending = 0
    BY FS_EmptySet DEF DoubleInit
  <2>3. QED
    BY <2>1, <2>2
<1>4. QED
  BY <1>1, <1>2, <1>3 DEF DoubleInv

\* What is open and seen of a run can be counted.
LEMMA CountsAre ==
    ASSUME NEW S \in SUBSET Title
    PROVE  /\ IsFiniteSet(S) /\ Cardinality(S) \in Nat
           /\ \A T \in SUBSET S : Cardinality(T) <= Cardinality(S)
BY DoubleAssumption, FS_Subset, FS_CardinalityType

\* Counts are as they were if tasks stay, and nothing is published.
LEMMA CountsStay ==
    ASSUME DoubleInv, tasks' = tasks,
           \A r \in RunId : rows'[r].pending = rows[r].pending,
           \A i \in Title : tasks[i] # Nothing =>
              /\ jobs'[i].run = jobs[i].run
              /\ issues'[i] = "PUBLISHED" => issues[i] = "PUBLISHED",
           \A i \in Title : tasks[i] = Nothing => jobs'[i].run = jobs[i].run \/ ~TaskOpen(i)
    PROVE  PendingCounts'
<1> SUFFICES ASSUME NEW r \in RunId
             PROVE  rows'[r].pending \in Cardinality(SeenOf(r)') .. Cardinality(OpenOf(r)')
  BY DEF PendingCounts
<1>1. OpenOf(r)' = OpenOf(r)
  BY DEF OpenOf, TitlesOf, TaskOpen
<1>2. SeenOf(r)' \subseteq SeenOf(r) /\ SeenOf(r) \subseteq Title
  BY <1>1 DEF SeenOf, OpenOf, TitlesOf, TaskOpen
<1>3. /\ Cardinality(SeenOf(r)') <= Cardinality(SeenOf(r))
      /\ Cardinality(SeenOf(r)') \in Nat /\ Cardinality(SeenOf(r)) \in Nat
  <2>1. SeenOf(r)' \in SUBSET Title
    BY <1>2
  <2>2. QED
    BY <1>2, <2>1, CountsAre
<1>4. rows[r].pending \in Cardinality(SeenOf(r)) .. Cardinality(OpenOf(r))
  BY DEF DoubleInv, PendingCounts
<1>5. Cardinality(OpenOf(r)) \in Nat
  <2>1. OpenOf(r) \in SUBSET Title
    BY DEF OpenOf, TitlesOf
  <2>2. QED
    BY <2>1, CountsAre
<1>6. QED
  BY <1>1, <1>3, <1>4, <1>5

\* A row goes on in one of these ways where no execution begins.
RowGoesOn(old, new) ==
    /\ new.execution \in {0, old.execution}
    /\ new.pending = old.pending
    /\ new.attempt >= old.attempt
    /\ new.status = "ABSENT" => new = old
    /\ new.status = "RUNNING" => new = old
    /\ new.status = "QUEUED" => new = old \/ new.attempt = old.attempt + 1

\* A call that changes rows and jobs, and neither issues nor tasks.
LEMMA CallKeeps ==
    ASSUME DoubleInv, rows' \in [RunId -> RowRecord], jobs' \in [Title -> TitleJob],
           \A r \in RunId : RowGoesOn(rows[r], rows'[r]),
           \A r, q \in RunId :
              rows'[r].status \in Waiting /\ rows'[q].status \in Waiting => r = q,
           \A i \in Title : /\ jobs'[i].run = jobs[i].run
                            /\ (jobs'[i].status = "SUCCEEDED") = (jobs[i].status = "SUCCEEDED")
                            /\ (jobs'[i].status = "ABSENT") = (jobs[i].status = "ABSENT"),
           UNCHANGED <<issues, tasks, tickets, spent>>
    PROVE  DoubleInv'
<1>1. DoubleRows'
  <2>1. \A r \in RunId : rows'[r].execution <= Cardinality(tickets)
    <3> SUFFICES ASSUME NEW r \in RunId PROVE rows'[r].execution <= Cardinality(tickets)
      OBVIOUS
    <3>1. rows[r].execution <= Cardinality(tickets) /\ rows'[r].execution \in {0, rows[r].execution}
      BY DEF DoubleInv, DoubleRows, RowGoesOn
    <3>2. Cardinality(tickets) \in Nat
      BY FS_CardinalityType DEF DoubleInv, DoubleRows
    <3>3. QED
      BY <3>1, <3>2
  <2>2. QED
    BY <2>1 DEF DoubleInv, DoubleRows
<1>2. OneWaiting'
  <2>1. \A r \in RunId : rows'[r].status = "ABSENT" => rows'[r].attempt = 0
    BY DEF DoubleInv, OneWaiting, RowGoesOn
  <2>2. QED
    BY <2>1 DEF OneWaiting
<1>3. TicketsAgree'
  <2> SUFFICES ASSUME NEW t \in tickets
               PROVE  /\ t.attempt <= rows'[t.run].attempt
                      /\ rows'[t.run].status = "QUEUED" => t.attempt < rows'[t.run].attempt
                      /\ \A r \in RunId :
                           rows'[r].status = "RUNNING" /\ rows'[r].execution = t.execution =>
                              t.run = r /\ t.attempt = rows'[r].attempt
    BY DEF TicketsAgree
  <2>1. t.run \in RunId /\ t.attempt \in Nat
    BY DEF DoubleInv, DoubleRows, Ticket
  <2>2. /\ rows[t.run].attempt \in Nat /\ rows'[t.run].attempt \in Nat
        /\ rows'[t.run].attempt >= rows[t.run].attempt
        /\ t.attempt <= rows[t.run].attempt
        /\ rows[t.run].status = "QUEUED" => t.attempt < rows[t.run].attempt
    BY <2>1 DEF DoubleInv, DoubleRows, RowRecord, RowGoesOn, TicketsAgree
  <2>3. t.attempt <= rows'[t.run].attempt
    BY <2>1, <2>2
  <2>4. ASSUME rows'[t.run].status = "QUEUED" PROVE t.attempt < rows'[t.run].attempt
    <3>1. rows'[t.run] = rows[t.run] \/ rows'[t.run].attempt = rows[t.run].attempt + 1
      BY <2>1, <2>4 DEF RowGoesOn
    <3>2. QED
      BY <2>1, <2>2, <2>4, <3>1
  <2>5. \A r \in RunId : rows'[r].status = "RUNNING" => rows'[r] = rows[r]
    BY DEF RowGoesOn
  <2>6. QED
    BY <2>3, <2>4, <2>5 DEF DoubleInv, TicketsAgree
<1>4. TitlesAgree'
  BY DEF DoubleInv, TitlesAgree
<1>5. TasksOfJobs'
  BY DEF DoubleInv, TasksOfJobs
<1>6. PendingCounts'
  <2>1. \A r \in RunId : rows'[r].pending = rows[r].pending
    BY DEF RowGoesOn
  <2>2. QED
    BY <2>1, CountsStay
<1>7. QED
  BY <1>1, <1>2, <1>3, <1>4, <1>5, <1>6 DEF DoubleInv

\* A call that changes tasks counts them again.
LEMMA RecountKeeps ==
    ASSUME DoubleInv, Recount, jobs' \in [Title -> TitleJob],
           issues' \in [Title -> {"NONE", "UNPUBLISHED", "PUBLISHED", "WITHDRAWN"}],
           tasks' \in [Title -> TaskRecord \cup {Nothing}],
           tickets' = tickets, spent' \subseteq ClaimToken,
           TitlesAgree', TasksOfJobs'
    PROVE  DoubleInv'
<1> DEFINE Counted(r) == {i \in Title : TaskOpen(i)' /\ tasks'[i].run = r
                                          /\ issues'[i] = "PUBLISHED"}
<1>1. \A r \in RunId : rows'[r] = [rows[r] EXCEPT !.pending = Cardinality(Counted(r))]
  BY DEF Recount
<1>2. \A r \in RunId : Counted(r) \in SUBSET Title /\ Cardinality(Counted(r)) \in Nat
  <2>1. \A r \in RunId : Counted(r) \in SUBSET Title
    OBVIOUS
  <2> HIDE DEF Counted
  <2>2. QED
    BY <2>1, CountsAre
<1>3. \A r \in RunId : Counted(r) = SeenOf(r)'
  BY DEF SeenOf, OpenOf, TitlesOf, TasksOfJobs, TaskOpen
<1> HIDE DEF Counted
<1>4. \A r \in RunId : /\ rows'[r].status = rows[r].status
                       /\ rows'[r].attempt = rows[r].attempt
                       /\ rows'[r].execution = rows[r].execution
                       /\ rows'[r].pending = Cardinality(Counted(r))
                       /\ rows'[r] \in RowRecord
  <2> SUFFICES ASSUME NEW r \in RunId
               PROVE  /\ rows'[r].status = rows[r].status
                      /\ rows'[r].attempt = rows[r].attempt
                      /\ rows'[r].execution = rows[r].execution
                      /\ rows'[r].pending = Cardinality(Counted(r))
                      /\ rows'[r] \in RowRecord
    OBVIOUS
  <2>1. rows[r] \in RowRecord
    BY DEF DoubleInv, DoubleRows
  <2>2. PICK n \in Nat : n = Cardinality(Counted(r))
    BY <1>2
  <2>3. rows'[r] = [rows[r] EXCEPT !.pending = n]
    BY <1>1, <2>2
  <2>4. QED
    BY <2>1, <2>2, <2>3 DEF RowRecord
<1>5. rows' \in [RunId -> RowRecord]
  <2>1. rows' = [r \in RunId |-> rows'[r]]
    BY DEF Recount
  <2>2. QED
    BY <1>4, <2>1
<1>6. DoubleRows'
  BY <1>4, <1>5 DEF DoubleInv, DoubleRows
<1>7. OneWaiting'
  BY <1>4 DEF DoubleInv, OneWaiting
<1>8. TicketsAgree'
  <2>1. \A t \in tickets : t.run \in RunId
    BY DEF DoubleInv, DoubleRows, Ticket
  <2>2. QED
    BY <1>4, <2>1 DEF DoubleInv, TicketsAgree
<1>9. PendingCounts'
  <2> SUFFICES ASSUME NEW r \in RunId
               PROVE  rows'[r].pending \in Cardinality(SeenOf(r)') .. Cardinality(OpenOf(r)')
    BY DEF PendingCounts
  <2>1. SeenOf(r)' \subseteq OpenOf(r)' /\ OpenOf(r)' \in SUBSET Title
    BY DEF SeenOf, OpenOf, TitlesOf
  <2>2. /\ Cardinality(SeenOf(r)') <= Cardinality(OpenOf(r)')
        /\ Cardinality(SeenOf(r)') \in Nat /\ Cardinality(OpenOf(r)') \in Nat
    BY <1>2, <1>3, <2>1, CountsAre
  <2>3. QED
    BY <1>3, <1>4, <2>2
<1>10. QED
  BY <1>6, <1>7, <1>8, <1>9 DEF DoubleInv

\* The shapes, row by row.
LEMMA DoubleShapes ==
    ASSUME DoubleInv
    PROVE  /\ rows = [r \in RunId |-> rows[r]]
           /\ \A r \in RunId : rows[r] \in RowRecord
           /\ jobs = [i \in Title |-> jobs[i]]
           /\ \A i \in Title : jobs[i] \in TitleJob
BY DEF DoubleInv, DoubleRows

\* One row that is changed keeps the shape of all.
LEMMA RowsKept ==
    ASSUME DoubleInv, NEW r \in RunId, NEW new \in RowRecord,
           rows' = [rows EXCEPT ![r] = new]
    PROVE  /\ rows' \in [RunId -> RowRecord]
           /\ rows'[r] = new
           /\ \A q \in RunId \ {r} : rows'[q] = rows[q]
BY DoubleShapes

\* A row that leaves the rest as it is.
LEMMA OneRowGoesOn ==
    ASSUME DoubleInv, NEW r \in RunId, NEW new \in RowRecord,
           rows' = [rows EXCEPT ![r] = new],
           RowGoesOn(rows[r], new),
           new.status \in Waiting => NobodyElse(r)
    PROVE  /\ \A q \in RunId : RowGoesOn(rows[q], rows'[q])
           /\ \A q, p \in RunId :
                rows'[q].status \in Waiting /\ rows'[p].status \in Waiting => q = p
<1>1. rows'[r] = new /\ \A q \in RunId \ {r} : rows'[q] = rows[q]
  BY RowsKept
<1>2. \A q \in RunId : RowGoesOn(rows[q], rows[q])
  BY DoubleAssumption, DoubleShapes DEF RowGoesOn, RowRecord
<1>3. \A q \in RunId : RowGoesOn(rows[q], rows'[q])
  BY <1>1, <1>2
<1>4. \A q, p \in RunId :
        rows'[q].status \in Waiting /\ rows'[p].status \in Waiting => q = p
  <2> SUFFICES ASSUME NEW q \in RunId, NEW p \in RunId,
                      rows'[q].status \in Waiting, rows'[p].status \in Waiting
               PROVE  q = p
    OBVIOUS
  <2>1. CASE q # r /\ p # r
    BY <1>1, <2>1 DEF DoubleInv, OneWaiting
  <2>2. CASE q = r /\ p # r
    BY <1>1, <2>2 DEF NobodyElse
  <2>3. CASE q # r /\ p = r
    BY <1>1, <2>3 DEF NobodyElse
  <2>4. QED
    BY <2>1, <2>2, <2>3
<1>5. QED
  BY <1>3, <1>4

\* A row with other fields.
LEMMA RowWithStatus ==
    ASSUME NEW x \in RowRecord, NEW status
    PROVE  [x EXCEPT !.status = status]
             = [status |-> status, attempt |-> x.attempt, execution |-> x.execution,
                pending |-> x.pending]
BY DEF RowRecord

\* A row that is new.
LEMMA RowWithAttempt ==
    ASSUME NEW x \in RowRecord, NEW status, NEW a
    PROVE  [x EXCEPT !.status = status, !.attempt = a]
             = [status |-> status, attempt |-> a, execution |-> x.execution,
                pending |-> x.pending]
<1>1. [[status |-> status, attempt |-> x.attempt, execution |-> x.execution,
        pending |-> x.pending] EXCEPT !.attempt = a]
        = [status |-> status, attempt |-> a, execution |-> x.execution,
           pending |-> x.pending]
  OBVIOUS
<1>2. QED
  BY <1>1, RowWithStatus

\* A row that is claimed.
LEMMA RowWithExecution ==
    ASSUME NEW x \in RowRecord, NEW status, NEW e
    PROVE  [x EXCEPT !.status = status, !.execution = e]
             = [status |-> status, attempt |-> x.attempt, execution |-> e,
                pending |-> x.pending]
<1>1. [[status |-> status, attempt |-> x.attempt, execution |-> x.execution,
        pending |-> x.pending] EXCEPT !.execution = e]
        = [status |-> status, attempt |-> x.attempt, execution |-> e,
           pending |-> x.pending]
  OBVIOUS
<1>2. QED
  BY <1>1, RowWithStatus

\* A row that is queued again.
LEMMA RowAgain ==
    ASSUME NEW x \in RowRecord, NEW status, NEW e, NEW a
    PROVE  [x EXCEPT !.status = status, !.execution = e, !.attempt = a]
             = [status |-> status, attempt |-> a, execution |-> e, pending |-> x.pending]
<1>1. [[status |-> status, attempt |-> x.attempt, execution |-> e,
        pending |-> x.pending] EXCEPT !.attempt = a]
        = [status |-> status, attempt |-> a, execution |-> e, pending |-> x.pending]
  OBVIOUS
<1>2. QED
  BY <1>1, RowWithExecution

\* A new run.
LEMMA EnqueueRowKeeps ==
    ASSUME DoubleInv, NEW r \in RunId, EnqueueRow(r)
    PROVE  DoubleInv'
<1> DEFINE new == [rows[r] EXCEPT !.status = "QUEUED", !.attempt = 1]
<1>1. rows[r] \in RowRecord /\ rows[r].attempt = 0
  BY DoubleShapes DEF DoubleInv, OneWaiting, EnqueueRow
<1>2. new = [status |-> "QUEUED", attempt |-> 1, execution |-> rows[r].execution,
             pending |-> rows[r].pending]
  BY <1>1, RowWithAttempt
<1>3. new \in RowRecord /\ RowGoesOn(rows[r], new)
  BY <1>1, <1>2, DoubleAssumption DEF RowRecord, RowGoesOn
<1>4. rows' = [rows EXCEPT ![r] = new]
  BY DoubleShapes DEF EnqueueRow
<1>5. NobodyElse(r) /\ UNCHANGED <<jobs, issues, tasks, tickets, spent>>
  BY DEF EnqueueRow
<1> HIDE DEF new
<1>6. rows' \in [RunId -> RowRecord]
  BY <1>3, <1>4, RowsKept
<1>7. /\ \A q \in RunId : RowGoesOn(rows[q], rows'[q])
      /\ \A q, p \in RunId :
           rows'[q].status \in Waiting /\ rows'[p].status \in Waiting => q = p
  BY <1>3, <1>4, <1>5, OneRowGoesOn
<1>8. jobs' \in [Title -> TitleJob]
  BY <1>5 DEF DoubleInv, DoubleRows
<1>9. QED
  BY <1>5, <1>6, <1>7, <1>8, CallKeeps

\* A retry takes no job back that has succeeded.
LEMMA RetryRowKeeps ==
    ASSUME DoubleInv, NEW r \in RunId, NEW a \in 1 .. LastAttempt,
           NEW scope, NEW selected, RetryRow(r, a, scope, selected)
    PROVE  DoubleInv'
<1> DEFINE again == BackInQueue(r, scope, selected)
           new == [rows[r] EXCEPT !.status = "QUEUED", !.execution = 0, !.attempt = a + 1]
<1>1. rows[r] \in RowRecord /\ rows[r].attempt = a
  BY DoubleShapes DEF RetryRow
<1>2. new = [status |-> "QUEUED", attempt |-> a + 1, execution |-> 0,
             pending |-> rows[r].pending]
  BY <1>1, RowAgain
<1>3. new \in RowRecord /\ RowGoesOn(rows[r], new)
  <2>1. a < LastAttempt
    BY DEF RetryRow
  <2>2. a + 1 \in 0 .. LastAttempt
    BY <2>1, DoubleAssumption
  <2>3. QED
    BY <1>1, <1>2, <2>2 DEF RowRecord, RowGoesOn
<1>4. rows' = [rows EXCEPT ![r] = new]
  BY DEF RetryRow
<1>5. /\ NobodyElse(r) /\ UNCHANGED <<issues, tasks, tickets, spent>>
      /\ jobs' = [i \in Title |->
                    IF i \in again THEN [run |-> r, status |-> "QUEUED", attempt |-> a + 1,
                                         interrupted |-> FALSE]
                    ELSE jobs[i]]
  BY DEF RetryRow
<1> HIDE DEF new
<1>6. rows' \in [RunId -> RowRecord]
  BY <1>3, <1>4, RowsKept
<1>7. /\ \A q \in RunId : RowGoesOn(rows[q], rows'[q])
      /\ \A q, p \in RunId :
           rows'[q].status \in Waiting /\ rows'[p].status \in Waiting => q = p
  BY <1>3, <1>4, <1>5, OneRowGoesOn
<1>8. \A i \in again : jobs[i].run = r /\ jobs[i].status # "SUCCEEDED" /\ jobs[i].status # "ABSENT"
  <2>1. \A i \in again : i \in Title /\ jobs[i].run = r /\ jobs[i].status # "SUCCEEDED"
    BY DEF BackInQueue, TitlesOf
  <2>2. QED
    BY <2>1, DoubleAssumption DEF DoubleInv, TitlesAgree
<1> HIDE DEF again
<1>9. jobs' \in [Title -> TitleJob]
  <2>1. [run |-> r, status |-> "QUEUED", attempt |-> a + 1, interrupted |-> FALSE] \in TitleJob
    BY DEF TitleJob
  <2>2. QED
    BY <1>5, <2>1, DoubleShapes
<1>10. \A i \in Title : /\ jobs'[i].run = jobs[i].run
                        /\ (jobs'[i].status = "SUCCEEDED") = (jobs[i].status = "SUCCEEDED")
                        /\ (jobs'[i].status = "ABSENT") = (jobs[i].status = "ABSENT")
  BY <1>5, <1>8
<1>11. QED
  BY <1>5, <1>6, <1>7, <1>9, <1>10, CallKeeps

\* The status that the end of a run gives it.
LEMMA VerdictIs ==
    ASSUME NEW mine, NEW empty \in {"SUCCEEDED", "FAILED"}
    PROVE  Verdict(mine, empty) \in {"SUCCEEDED", "FAILED", "PARTIALLY_SUCCEEDED"}
BY DEF Verdict

\* The end of a run: an interrupt, a failure, its completion.
LEMMA EndKeeps ==
    ASSUME DoubleInv, NEW r \in RunId,
           NEW status \in {"SUCCEEDED", "FAILED", "PARTIALLY_SUCCEEDED"},
           rows' = [rows EXCEPT ![r].status = status],
           jobs' \in [Title -> TitleJob],
           \A i \in Title : /\ jobs'[i].run = jobs[i].run
                            /\ (jobs'[i].status = "SUCCEEDED") = (jobs[i].status = "SUCCEEDED")
                            /\ (jobs'[i].status = "ABSENT") = (jobs[i].status = "ABSENT"),
           UNCHANGED <<issues, tasks, tickets, spent>>
    PROVE  DoubleInv'
<1> DEFINE new == [rows[r] EXCEPT !.status = status]
<1>1. rows[r] \in RowRecord
  BY DoubleShapes
<1>2. new = [status |-> status, attempt |-> rows[r].attempt, execution |-> rows[r].execution,
             pending |-> rows[r].pending]
  BY <1>1 DEF RowRecord
<1>3. new \in RowRecord /\ RowGoesOn(rows[r], new) /\ new.status \notin Waiting
  BY <1>1, <1>2, DoubleAssumption DEF RowRecord, RowGoesOn, Waiting
<1>4. rows' = [rows EXCEPT ![r] = new]
  BY DoubleShapes
<1> HIDE DEF new
<1>5. rows' \in [RunId -> RowRecord]
  BY <1>3, <1>4, RowsKept
<1>6. /\ \A q \in RunId : RowGoesOn(rows[q], rows'[q])
      /\ \A q, p \in RunId :
           rows'[q].status \in Waiting /\ rows'[p].status \in Waiting => q = p
  BY <1>3, <1>4, OneRowGoesOn
<1>7. QED
  BY <1>5, <1>6, CallKeeps

\* What an interrupt does to the jobs.
LEMMA InterruptRowKeeps ==
    ASSUME DoubleInv, NEW r \in RunId, NEW a, NEW e, InterruptRow(r, a, e)
    PROVE  DoubleInv'
<1>1. /\ jobs' = [i \in Title |->
                    IF i \in TitlesOf(r) /\ jobs[i].status \in Waiting
                    THEN [jobs[i] EXCEPT !.status = "FAILED", !.interrupted = TRUE]
                    ELSE jobs[i]]
      /\ UNCHANGED <<issues, tasks, tickets, spent>>
  BY DEF InterruptRow
<1>2. PICK status \in {"SUCCEEDED", "FAILED", "PARTIALLY_SUCCEEDED"} :
         rows' = [rows EXCEPT ![r].status = status]
  BY VerdictIs DEF InterruptRow
<1>3. ASSUME NEW i \in Title
      PROVE  LET new == [jobs[i] EXCEPT !.status = "FAILED", !.interrupted = TRUE]
             IN  new \in TitleJob /\ new.run = jobs[i].run /\ new.status = "FAILED"
  BY DoubleShapes DEF TitleJob
<1>4. jobs' \in [Title -> TitleJob]
  BY <1>1, <1>3, DoubleShapes
<1>5. \A i \in Title : /\ jobs'[i].run = jobs[i].run
                       /\ (jobs'[i].status = "SUCCEEDED") = (jobs[i].status = "SUCCEEDED")
                       /\ (jobs'[i].status = "ABSENT") = (jobs[i].status = "ABSENT")
  BY <1>1, <1>3 DEF Waiting
<1>6. QED
  BY <1>1, <1>2, <1>4, <1>5, EndKeeps

\* A worker ends its run.
LEMMA WorkerEndKeeps ==
    ASSUME DoubleInv, NEW t \in tickets, FailRow(t) \/ CompleteRow(t)
    PROVE  DoubleInv'
<1>1. t.run \in RunId
  BY DEF DoubleInv, DoubleRows, Ticket
<1>2. PICK status \in {"SUCCEEDED", "FAILED", "PARTIALLY_SUCCEEDED"} :
         rows' = [rows EXCEPT ![t.run].status = status]
  BY VerdictIs DEF FailRow, CompleteRow
<1>3. UNCHANGED <<jobs, issues, tasks, tickets, spent>>
  BY DEF FailRow, CompleteRow
<1>4. jobs' \in [Title -> TitleJob]
  BY <1>3 DEF DoubleInv, DoubleRows
<1>5. QED
  BY <1>1, <1>2, <1>3, <1>4, EndKeeps

\* A worker takes a job, or fails it.
LEMMA JobCallKeeps ==
    ASSUME DoubleInv, NEW t \in tickets, NEW i \in Title, TakeJob(t, i) \/ FailJob(t, i)
    PROVE  DoubleInv'
<1>1. PICK status \in {"RUNNING", "FAILED"}, interrupted \in BOOLEAN :
         /\ jobs' = [jobs EXCEPT ![i] = [jobs[i] EXCEPT !.status = status,
                                                        !.interrupted = interrupted]]
         /\ jobs[i].status \in {"QUEUED", "RUNNING"}
         /\ UNCHANGED <<rows, issues, tasks, tickets, spent>>
  <2>1. CASE TakeJob(t, i)
    <3>1. jobs' = [jobs EXCEPT ![i] = [jobs[i] EXCEPT !.status = "RUNNING"]]
      BY <2>1, DoubleShapes DEF TakeJob
    <3>2. [jobs[i] EXCEPT !.status = "RUNNING"]
            = [jobs[i] EXCEPT !.status = "RUNNING", !.interrupted = jobs[i].interrupted]
      BY DoubleShapes DEF TitleJob
    <3>3. jobs[i].interrupted \in BOOLEAN
      BY DoubleShapes DEF TitleJob
    <3>4. QED
      BY <2>1, <3>1, <3>2, <3>3 DEF TakeJob
  <2>2. CASE FailJob(t, i)
    <3>1. jobs' = [jobs EXCEPT ![i] = [jobs[i] EXCEPT !.status = "FAILED",
                                                      !.interrupted = FALSE]]
      BY <2>2, DoubleShapes DEF FailJob
    <3>2. QED
      BY <2>2, <3>1 DEF FailJob
  <2>3. QED
    BY <2>1, <2>2
<1> DEFINE new == [jobs[i] EXCEPT !.status = status, !.interrupted = interrupted]
<1>2. new \in TitleJob /\ new.run = jobs[i].run /\ new.status = status
  BY DoubleShapes DEF TitleJob
<1> HIDE DEF new
<1>3. jobs' = [jobs EXCEPT ![i] = new]
  BY <1>1 DEF new
<1>4. /\ jobs'[i] = new /\ \A j \in Title \ {i} : jobs'[j] = jobs[j]
      /\ jobs' \in [Title -> TitleJob]
  BY <1>2, <1>3, DoubleShapes
<1>5. \A j \in Title : /\ jobs'[j].run = jobs[j].run
                       /\ (jobs'[j].status = "SUCCEEDED") = (jobs[j].status = "SUCCEEDED")
                       /\ (jobs'[j].status = "ABSENT") = (jobs[j].status = "ABSENT")
  BY <1>1, <1>2, <1>4
<1>6. \A r \in RunId : RowGoesOn(rows[r], rows'[r])
  BY <1>1, DoubleAssumption, DoubleShapes DEF RowGoesOn, RowRecord
<1>7. \A r, q \in RunId :
        rows'[r].status \in Waiting /\ rows'[q].status \in Waiting => r = q
  BY <1>1 DEF DoubleInv, OneWaiting
<1>8. rows' \in [RunId -> RowRecord]
  BY <1>1 DEF DoubleInv, DoubleRows
<1>9. QED
  BY <1>1, <1>4, <1>5, <1>6, <1>7, <1>8, CallKeeps

\* A claim begins an execution that no ticket and no row has.
LEMMA ClaimNextKeeps ==
    ASSUME DoubleInv, NEW r \in RunId, ClaimNext(r)
    PROVE  DoubleInv'
<1> DEFINE fresh == Cardinality(tickets) + 1
           new == [rows[r] EXCEPT !.status = "RUNNING", !.execution = fresh]
           ticket == [run |-> r, attempt |-> rows[r].attempt, execution |-> fresh]
<1>1. /\ rows[r] \in RowRecord /\ rows[r].attempt \in Nat /\ rows[r].status = "QUEUED"
      /\ IsFiniteSet(tickets) /\ Cardinality(tickets) \in Nat
  BY DoubleAssumption, DoubleShapes, FS_CardinalityType
  DEF DoubleInv, DoubleRows, RowRecord, ClaimNext
<1>2. /\ rows' = [rows EXCEPT ![r] = new] /\ tickets' = tickets \cup {ticket}
      /\ UNCHANGED <<jobs, issues, tasks, spent>>
  BY DoubleShapes DEF ClaimNext
<1>3. new = [status |-> "RUNNING", attempt |-> rows[r].attempt, execution |-> fresh,
             pending |-> rows[r].pending]
  BY <1>1, RowWithExecution
<1>4. new \in RowRecord
  BY <1>1, <1>3 DEF RowRecord
<1> HIDE DEF new
<1>5. /\ rows' \in [RunId -> RowRecord] /\ rows'[r] = new
      /\ \A q \in RunId \ {r} : rows'[q] = rows[q]
  BY <1>2, <1>4, RowsKept
<1>6. /\ \A t \in tickets : t.execution <= Cardinality(tickets) /\ t \in Ticket
      /\ \A q \in RunId : rows[q].execution <= Cardinality(tickets)
      /\ \A q \in RunId : rows[q].execution \in Nat
  BY DoubleShapes DEF DoubleInv, DoubleRows, RowRecord
<1>7. ticket \in Ticket /\ ticket \notin tickets
  <2>1. ticket \in Ticket
    BY <1>1 DEF Ticket
  <2>2. ~ (ticket.execution <= Cardinality(tickets))
    BY <1>1
  <2>3. QED
    BY <1>6, <2>1, <2>2
<1>8. IsFiniteSet(tickets') /\ Cardinality(tickets') = fresh
  BY <1>1, <1>2, <1>7, FS_AddElement
<1>9. DoubleRows'
  <2>1. \A t \in tickets' : t.execution <= fresh
    <3> SUFFICES ASSUME NEW t \in tickets' PROVE t.execution <= fresh
      OBVIOUS
    <3>1. CASE t \in tickets
      <4>1. t.execution <= Cardinality(tickets) /\ t.execution \in Nat
        BY <1>6, <3>1 DEF Ticket
      <4>2. QED
        BY <1>1, <4>1
    <3>2. CASE t = ticket
      BY <1>1, <3>2
    <3>3. QED
      BY <1>2, <3>1, <3>2
  <2>2. \A q \in RunId : rows'[q].execution <= fresh
    <3> SUFFICES ASSUME NEW q \in RunId PROVE rows'[q].execution <= fresh
      OBVIOUS
    <3>1. CASE q = r
      BY <1>1, <1>3, <1>5, <3>1
    <3>2. CASE q # r
      <4>1. rows'[q].execution <= Cardinality(tickets) /\ rows'[q].execution \in Nat
        BY <1>5, <1>6, <3>2
      <4>2. QED
        BY <1>1, <4>1
    <3>3. QED
      BY <3>1, <3>2
  <2>3. tickets' \in SUBSET Ticket
    BY <1>2, <1>6, <1>7
  <2>4. QED
    BY <1>2, <1>5, <1>8, <2>1, <2>2, <2>3 DEF DoubleInv, DoubleRows
<1>10. OneWaiting'
  <2>1. \A q \in RunId : rows'[q].status \in Waiting => rows[q].status \in Waiting
    BY <1>1, <1>5 DEF Waiting
  <2>2. \A q \in RunId : rows'[q].status = "ABSENT" => rows'[q].attempt = 0
    BY <1>3, <1>5 DEF DoubleInv, OneWaiting
  <2>3. QED
    BY <2>1, <2>2 DEF DoubleInv, OneWaiting
<1>11. TicketsAgree'
  <2> SUFFICES ASSUME NEW t \in tickets'
               PROVE  /\ t.attempt <= rows'[t.run].attempt
                      /\ rows'[t.run].status = "QUEUED" => t.attempt < rows'[t.run].attempt
                      /\ \A q \in RunId :
                           rows'[q].status = "RUNNING" /\ rows'[q].execution = t.execution =>
                              t.run = q /\ t.attempt = rows'[q].attempt
    BY DEF TicketsAgree
  <2>1. \A q \in RunId : rows'[q].attempt = rows[q].attempt
    BY <1>3, <1>5
  <2>2. CASE t \in tickets
    <3>1. t.run \in RunId /\ t.execution <= Cardinality(tickets) /\ t.execution \in Nat
      BY <1>6, <2>2 DEF Ticket
    <3>2. t.execution # fresh
      BY <1>1, <3>1
    <3>3. rows'[t.run].status = "QUEUED" => rows[t.run].status = "QUEUED"
      BY <1>3, <1>5, <3>1
    <3>4. QED
      BY <1>3, <1>5, <2>1, <2>2, <3>1, <3>2, <3>3 DEF DoubleInv, TicketsAgree
  <2>3. CASE t = ticket
    <3>1. t.run = r /\ t.attempt = rows[r].attempt /\ t.execution = fresh
      BY <2>3
    <3>2. \A q \in RunId \ {r} : rows'[q].execution # fresh
      <4> SUFFICES ASSUME NEW q \in RunId \ {r} PROVE rows'[q].execution # fresh
        OBVIOUS
      <4>1. rows'[q].execution <= Cardinality(tickets) /\ rows'[q].execution \in Nat
        BY <1>5, <1>6
      <4>2. QED
        BY <1>1, <4>1
    <3>3. rows'[r].status = "RUNNING"
      BY <1>3, <1>5
    <3>4. t.attempt <= rows'[t.run].attempt
      BY <1>1, <2>1, <3>1
    <3>5. QED
      BY <2>1, <3>1, <3>2, <3>3, <3>4
  <2>4. QED
    BY <1>2, <2>2, <2>3
<1>12. TitlesAgree' /\ TasksOfJobs'
  BY <1>2 DEF DoubleInv, TitlesAgree, TasksOfJobs
<1>13. PendingCounts'
  <2>1. \A q \in RunId : rows'[q].pending = rows[q].pending
    BY <1>3, <1>5
  <2>2. QED
    BY <1>2, <2>1, CountsStay
<1>14. QED
  BY <1>9, <1>10, <1>11, <1>12, <1>13 DEF DoubleInv

\* The rows stay, and issues and jobs go on.
LEMMA TitlesKeep ==
    ASSUME DoubleInv, jobs' \in [Title -> TitleJob],
           issues' \in [Title -> {"NONE", "UNPUBLISHED", "PUBLISHED", "WITHDRAWN"}],
           TitlesAgree',
           \A i \in Title :
              /\ (jobs'[i].status = "SUCCEEDED") = (jobs[i].status = "SUCCEEDED")
              /\ issues'[i] = "PUBLISHED" => issues[i] = "PUBLISHED"
              /\ tasks[i] # Nothing => jobs'[i].run = jobs[i].run,
           UNCHANGED <<rows, tasks, tickets, spent>>
    PROVE  DoubleInv'
<1>1. DoubleRows' /\ OneWaiting' /\ TicketsAgree'
  BY DEF DoubleInv, DoubleRows, OneWaiting, TicketsAgree
<1>2. TasksOfJobs'
  BY DEF DoubleInv, TasksOfJobs
<1>3. PendingCounts'
  BY CountsStay DEF TaskOpen
<1>4. QED
  BY <1>1, <1>2, <1>3 DEF DoubleInv

\* A new title.
LEMMA RegisterTitleKeeps ==
    ASSUME DoubleInv, NEW t \in tickets, NEW i \in Title, RegisterTitle(t, i)
    PROVE  DoubleInv'
<1> DEFINE new == [run |-> t.run, status |-> "QUEUED", attempt |-> t.attempt,
                   interrupted |-> FALSE]
<1>1. /\ t.run \in RunId /\ t.run # Nothing /\ t.attempt \in Nat
      /\ jobs[i].status = "ABSENT" /\ tasks[i] = Nothing
  BY DoubleAssumption
  DEF DoubleInv, DoubleRows, Ticket, TitlesAgree, TasksOfJobs, RegisterTitle
<1>2. /\ issues' = [issues EXCEPT ![i] = "UNPUBLISHED"]
      /\ jobs' = [jobs EXCEPT ![i] = new]
      /\ UNCHANGED <<rows, tasks, tickets, spent>>
  BY DEF RegisterTitle
<1>3. new \in TitleJob
  BY <1>1 DEF TitleJob
<1>4. /\ jobs'[i] = new /\ \A j \in Title \ {i} : jobs'[j] = jobs[j]
      /\ jobs' \in [Title -> TitleJob]
  BY <1>2, <1>3, DoubleShapes
<1>5. /\ issues'[i] = "UNPUBLISHED" /\ \A j \in Title \ {i} : issues'[j] = issues[j]
      /\ issues' \in [Title -> {"NONE", "UNPUBLISHED", "PUBLISHED", "WITHDRAWN"}]
  BY <1>2 DEF DoubleInv, DoubleRows
<1>6. TitlesAgree'
  <2> SUFFICES ASSUME NEW j \in Title
               PROVE  /\ (issues'[j] = "NONE") = (jobs'[j].status = "ABSENT")
                      /\ (jobs'[j].run = Nothing) = (jobs'[j].status = "ABSENT")
                      /\ issues'[j] = "PUBLISHED" => jobs'[j].status = "SUCCEEDED"
    BY DEF TitlesAgree
  <2>1. CASE j = i
    BY <1>1, <1>4, <1>5, <2>1
  <2>2. CASE j # i
    BY <1>4, <1>5, <2>2 DEF DoubleInv, TitlesAgree
  <2>3. QED
    BY <2>1, <2>2
<1>7. \A j \in Title :
        /\ (jobs'[j].status = "SUCCEEDED") = (jobs[j].status = "SUCCEEDED")
        /\ issues'[j] = "PUBLISHED" => issues[j] = "PUBLISHED"
        /\ tasks[j] # Nothing => jobs'[j].run = jobs[j].run
  BY <1>1, <1>4, <1>5
<1>8. QED
  BY <1>2, <1>4, <1>5, <1>6, <1>7, TitlesKeep

\* An issue is withdrawn.
LEMMA SetWithdrawnKeeps ==
    ASSUME DoubleInv, NEW i \in Title, SetWithdrawn(i)
    PROVE  DoubleInv'
<1>1. /\ issues[i] \in {"UNPUBLISHED", "PUBLISHED"}
      /\ issues' = [issues EXCEPT ![i] = "WITHDRAWN"]
      /\ UNCHANGED <<rows, jobs, tasks, tickets, spent>>
  BY DEF SetWithdrawn
<1>2. /\ issues'[i] = "WITHDRAWN" /\ \A j \in Title \ {i} : issues'[j] = issues[j]
      /\ issues' \in [Title -> {"NONE", "UNPUBLISHED", "PUBLISHED", "WITHDRAWN"}]
  BY <1>1 DEF DoubleInv, DoubleRows
<1>3. TitlesAgree'
  BY <1>1, <1>2 DEF DoubleInv, TitlesAgree
<1>4. jobs' \in [Title -> TitleJob]
  BY <1>1 DEF DoubleInv, DoubleRows
<1>5. \A j \in Title :
        /\ (jobs'[j].status = "SUCCEEDED") = (jobs[j].status = "SUCCEEDED")
        /\ issues'[j] = "PUBLISHED" => issues[j] = "PUBLISHED"
        /\ tasks[j] # Nothing => jobs'[j].run = jobs[j].run
  BY <1>1, <1>2
<1>6. QED
  BY <1>1, <1>2, <1>3, <1>4, <1>5, TitlesKeep

\* Tasks that change status and claim.
LEMMA SetTasksKeeps ==
    ASSUME DoubleInv, NEW some \in SUBSET Title,
           \A i \in some : tasks[i] # Nothing,
           NEW status \in {"PENDING", "RUNNING", "SUCCEEDED"},
           NEW token \in ClaimToken \cup {Nothing},
           (token # Nothing) = (status = "RUNNING"),
           SetTasks(some, status, token),
           spent \subseteq spent', spent' \subseteq ClaimToken, token \in spent' \cup {Nothing},
           UNCHANGED <<jobs, issues, tickets>>, Recount
    PROVE  DoubleInv'
<1>1. \A i \in some : /\ [tasks[i] EXCEPT !.status = status, !.token = token] \in TaskRecord
                      /\ tasks'[i] = [tasks[i] EXCEPT !.status = status, !.token = token]
                      /\ tasks'[i].run = tasks[i].run
                      /\ tasks'[i].status = status /\ tasks'[i].token = token
  <2> SUFFICES ASSUME NEW i \in some
               PROVE  LET new == [tasks[i] EXCEPT !.status = status, !.token = token]
                      IN  /\ new \in TaskRecord /\ new.run = tasks[i].run
                          /\ new.status = status /\ new.token = token
    BY DEF SetTasks
  <2>1. tasks[i] \in TaskRecord
    BY DEF DoubleInv, DoubleRows
  <2>2. QED
    BY <2>1 DEF TaskRecord
<1>2. \A i \in Title \ some : tasks'[i] = tasks[i]
  BY DEF SetTasks
<1>3. tasks' \in [Title -> TaskRecord \cup {Nothing}]
  <2>1. \A i \in Title : tasks'[i] \in TaskRecord \cup {Nothing}
    <3> SUFFICES ASSUME NEW i \in Title PROVE tasks'[i] \in TaskRecord \cup {Nothing}
      OBVIOUS
    <3>1. CASE i \in some
      BY <1>1, <3>1
    <3>2. CASE i \notin some
      BY <1>2, <3>2 DEF DoubleInv, DoubleRows
    <3>3. QED
      BY <3>1, <3>2
  <2>2. tasks' = [i \in Title |-> tasks'[i]]
    BY DEF SetTasks
  <2>3. QED
    BY <2>1, <2>2
<1>4. \A i \in some : tasks'[i] # Nothing
  BY <1>1, DoubleAssumption
<1>5. TasksOfJobs'
  <2> SUFFICES ASSUME NEW i \in Title
               PROVE  /\ (tasks'[i] # Nothing) = (jobs'[i].status = "SUCCEEDED")
                      /\ tasks'[i] # Nothing =>
                           /\ tasks'[i].run = jobs'[i].run
                           /\ (tasks'[i].token # Nothing) = (tasks'[i].status = "RUNNING")
                           /\ tasks'[i].token \in spent' \cup {Nothing}
    BY DEF TasksOfJobs
  <2>1. CASE i \in some
    BY <1>1, <1>4, <2>1 DEF DoubleInv, TasksOfJobs
  <2>2. CASE i \notin some
    BY <1>2, <2>2 DEF DoubleInv, TasksOfJobs
  <2>3. QED
    BY <2>1, <2>2
<1>6. TitlesAgree'
  BY DEF DoubleInv, TitlesAgree
<1>7. QED
  BY <1>3, <1>5, <1>6, RecountKeeps DEF DoubleInv, DoubleRows

\* A task in a claim, or in none.
LEMMA TaskTokens ==
    ASSUME DoubleInv, NEW i \in Title, NEW status, NEW token, TaskIs(i, status, token)
    PROVE  tasks[i] # Nothing /\ token \in spent \cup {Nothing}
BY DEF TaskIs, DoubleInv, TasksOfJobs

\* A vector is saved.
LEMMA SaveVectorKeeps ==
    ASSUME DoubleInv, NEW i \in Title, NEW token, SaveVector(i, token)
    PROVE  DoubleInv'
<1>1. tasks[i] # Nothing
  BY TaskTokens DEF SaveVector
<1>2. /\ SetTasks({i}, "SUCCEEDED", Nothing) /\ Recount
      /\ UNCHANGED <<jobs, issues, tickets, spent>>
  BY DEF SaveVector
<1>3. spent' = spent /\ spent \subseteq ClaimToken
  BY <1>2 DEF DoubleInv, DoubleRows
<1>4. {i} \in SUBSET Title /\ \A j \in {i} : tasks[j] # Nothing
  BY <1>1
<1>5. QED
  BY <1>2, <1>3, <1>4, SetTasksKeeps

\* Tasks that are put back.
LEMMA PutBackKeeps ==
    ASSUME DoubleInv, NEW token,
           \/ \E i \in Title : PutTaskBack(i, token)
           \/ \E only \in BOOLEAN : PutTasksBack(token, only)
    PROVE  DoubleInv'
<1>1. PICK some \in SUBSET Title :
        /\ \A i \in some : tasks[i] # Nothing
        /\ SetTasks(some, "PENDING", Nothing) /\ Recount
        /\ UNCHANGED <<jobs, issues, tickets, spent>>
  <2>1. ASSUME NEW i \in Title, PutTaskBack(i, token)
        PROVE  \E some \in SUBSET Title :
                 /\ \A j \in some : tasks[j] # Nothing
                 /\ SetTasks(some, "PENDING", Nothing) /\ Recount
                 /\ UNCHANGED <<jobs, issues, tickets, spent>>
    <3>1. {i} \in SUBSET Title /\ \A j \in {i} : tasks[j] # Nothing
      BY <2>1, TaskTokens DEF PutTaskBack
    <3>2. QED
      BY <2>1, <3>1 DEF PutTaskBack
  <2>2. ASSUME NEW only \in BOOLEAN, PutTasksBack(token, only)
        PROVE  \E some \in SUBSET Title :
                 /\ \A j \in some : tasks[j] # Nothing
                 /\ SetTasks(some, "PENDING", Nothing) /\ Recount
                 /\ UNCHANGED <<jobs, issues, tickets, spent>>
    <3> DEFINE held == {i \in Title : TaskIs(i, "RUNNING", token)
                                       /\ (only => issues[i] = "PUBLISHED")}
    <3>1. held \in SUBSET Title /\ \A j \in held : tasks[j] # Nothing
      BY TaskTokens
    <3>2. /\ SetTasks(held, "PENDING", Nothing) /\ Recount
          /\ UNCHANGED <<jobs, issues, tickets, spent>>
      BY <2>2 DEF PutTasksBack
    <3> HIDE DEF held
    <3>3. QED
      BY <3>1, <3>2
  <2>3. QED
    BY <2>1, <2>2
<1>2. spent' = spent /\ spent \subseteq ClaimToken
  BY <1>1 DEF DoubleInv, DoubleRows
<1>3. QED
  BY <1>1, <1>2, SetTasksKeeps

\* Tasks that are claimed.
LEMMA ClaimTasksKeeps ==
    ASSUME DoubleInv, NEW token \in ClaimToken, NEW limit, ClaimTasks(token, limit)
    PROVE  DoubleInv'
<1>1. PICK some : /\ some \subseteq {i \in Title : issues[i] = "PUBLISHED"
                                                    /\ TaskIs(i, "PENDING", Nothing)}
                  /\ SetTasks(some, "RUNNING", token)
  BY DEF ClaimTasks
<1>2. /\ spent' = spent \cup {token} /\ Recount
      /\ UNCHANGED <<jobs, issues, tickets>>
  BY DEF ClaimTasks
<1>3. some \in SUBSET Title /\ \A i \in some : tasks[i] # Nothing
  BY <1>1, TaskTokens
<1>4. token # Nothing
  BY DoubleAssumption
<1>5. spent \subseteq spent' /\ spent' \subseteq ClaimToken /\ token \in spent' \cup {Nothing}
  BY <1>2 DEF DoubleInv, DoubleRows
<1>6. QED
  BY <1>1, <1>2, <1>3, <1>4, <1>5, SetTasksKeeps

\* A worker that has no vector.
LEMMA MarkPendingKeeps ==
    ASSUME DoubleInv, NEW t, NEW i \in Title, MarkPending(t, i)
    PROVE  DoubleInv'
<1>1. UNCHANGED <<jobs, issues, tasks, tickets, spent>> /\ Recount
  BY DEF MarkPending
<1>2. TitlesAgree' /\ TasksOfJobs'
  BY <1>1 DEF DoubleInv, TitlesAgree, TasksOfJobs
<1>3. QED
  BY <1>1, <1>2, RecountKeeps DEF DoubleInv, DoubleRows

\* A title is published with a task.
LEMMA PublishTitleKeeps ==
    ASSUME DoubleInv, NEW t, NEW i \in Title, PublishTitle(t, i)
    PROVE  DoubleInv'
<1> DEFINE new == [jobs[i] EXCEPT !.status = "SUCCEEDED", !.interrupted = FALSE]
           task == [run |-> jobs[i].run, status |-> "PENDING", token |-> Nothing]
<1>1. /\ jobs' = [jobs EXCEPT ![i] = new]
      /\ issues' = [issues EXCEPT ![i] = "PUBLISHED"]
      /\ tasks' = [tasks EXCEPT ![i] = task]
      /\ tickets' = tickets /\ spent' = spent /\ Recount
  BY DoubleShapes DEF PublishTitle
<1>2. jobs[i].run # Nothing /\ jobs[i].run \in RunId
  BY DoubleShapes DEF PublishTitle, OwnsTitle, TitleJob
<1>3. new \in TitleJob /\ new.run = jobs[i].run /\ new.status = "SUCCEEDED"
  BY DoubleShapes DEF TitleJob
<1>4. task \in TaskRecord /\ task # Nothing
  BY <1>2, DoubleAssumption DEF TaskRecord
<1> HIDE DEF new
<1>5. /\ jobs'[i] = new /\ \A j \in Title \ {i} : jobs'[j] = jobs[j]
      /\ jobs' \in [Title -> TitleJob]
  BY <1>1, <1>3, DoubleShapes
<1>6. /\ issues'[i] = "PUBLISHED" /\ \A j \in Title \ {i} : issues'[j] = issues[j]
      /\ issues' \in [Title -> {"NONE", "UNPUBLISHED", "PUBLISHED", "WITHDRAWN"}]
  BY <1>1 DEF DoubleInv, DoubleRows
<1>7. /\ tasks'[i] = task /\ \A j \in Title \ {i} : tasks'[j] = tasks[j]
      /\ tasks' \in [Title -> TaskRecord \cup {Nothing}]
  BY <1>1, <1>4 DEF DoubleInv, DoubleRows
<1>8. TitlesAgree'
  <2> SUFFICES ASSUME NEW j \in Title
               PROVE  /\ (issues'[j] = "NONE") = (jobs'[j].status = "ABSENT")
                      /\ (jobs'[j].run = Nothing) = (jobs'[j].status = "ABSENT")
                      /\ issues'[j] = "PUBLISHED" => jobs'[j].status = "SUCCEEDED"
    BY DEF TitlesAgree
  <2>1. CASE j = i
    BY <1>2, <1>3, <1>5, <1>6, <2>1
  <2>2. CASE j # i
    BY <1>5, <1>6, <2>2 DEF DoubleInv, TitlesAgree
  <2>3. QED
    BY <2>1, <2>2
<1>9. TasksOfJobs'
  <2> SUFFICES ASSUME NEW j \in Title
               PROVE  /\ (tasks'[j] # Nothing) = (jobs'[j].status = "SUCCEEDED")
                      /\ tasks'[j] # Nothing =>
                           /\ tasks'[j].run = jobs'[j].run
                           /\ (tasks'[j].token # Nothing) = (tasks'[j].status = "RUNNING")
                           /\ tasks'[j].token \in spent' \cup {Nothing}
    BY DEF TasksOfJobs
  <2>1. CASE j = i
    BY <1>3, <1>4, <1>5, <1>7, <2>1
  <2>2. CASE j # i
    BY <1>1, <1>5, <1>7, <2>2 DEF DoubleInv, TasksOfJobs
  <2>3. QED
    BY <2>1, <2>2
<1>10. QED
  BY <1>1, <1>5, <1>6, <1>7, <1>8, <1>9, RecountKeeps DEF DoubleInv, DoubleRows

\* The invariant is inductive.
LEMMA DoubleInductive == DoubleInv /\ [DoubleNext]_doubleVars => DoubleInv'
<1> SUFFICES ASSUME DoubleInv, [DoubleNext]_doubleVars PROVE DoubleInv'
  OBVIOUS
<1>1. CASE UNCHANGED doubleVars
  <2>1. UNCHANGED <<rows, jobs, issues, tasks, tickets, spent>>
    BY <1>1 DEF doubleVars
  <2>2. jobs' \in [Title -> TitleJob] /\ TitlesAgree'
        /\ issues' \in [Title -> {"NONE", "UNPUBLISHED", "PUBLISHED", "WITHDRAWN"}]
    BY <2>1 DEF DoubleInv, DoubleRows, TitlesAgree
  <2>3. QED
    BY <2>1, <2>2, TitlesKeep
<1>2. ASSUME NEW r \in RunId, EnqueueRow(r) \/ ClaimNext(r) PROVE DoubleInv'
  BY <1>2, EnqueueRowKeeps, ClaimNextKeeps
<1>3. ASSUME NEW r \in RunId, NEW a \in 1 .. LastAttempt,
             NEW scope \in {"DISCOVERY", "CONTENT"}, NEW some \in SUBSET TitlesOf(r),
             RetryRow(r, a, scope, some)
      PROVE  DoubleInv'
  BY <1>3, RetryRowKeeps
<1>4. ASSUME NEW r \in RunId, NEW a \in 1 .. LastAttempt, NEW t \in tickets,
             InterruptRow(r, a, t.execution)
      PROVE  DoubleInv'
  BY <1>4, InterruptRowKeeps
<1>5. ASSUME NEW t \in tickets, FailRow(t) \/ CompleteRow(t) PROVE DoubleInv'
  BY <1>5, WorkerEndKeeps
<1>6. ASSUME NEW t \in tickets, NEW i \in Title,
             \/ RegisterTitle(t, i) \/ TakeJob(t, i)
             \/ PublishTitle(t, i) \/ FailJob(t, i) \/ MarkPending(t, i)
      PROVE  DoubleInv'
  BY <1>6, RegisterTitleKeeps, JobCallKeeps, PublishTitleKeeps, MarkPendingKeeps
<1>7. ASSUME NEW i \in Title, SaveVector(i, Nothing) \/ SetWithdrawn(i) PROVE DoubleInv'
  BY <1>7, SaveVectorKeeps, SetWithdrawnKeeps
<1>8. ASSUME NEW k \in ClaimToken,
             \/ \E limit \in 1..Cardinality(Title) : ClaimTasks(k, limit)
             \/ \E i \in Title : SaveVector(i, k) \/ PutTaskBack(i, k)
             \/ \E only \in BOOLEAN : PutTasksBack(k, only)
      PROVE  DoubleInv'
  BY <1>8, ClaimTasksKeeps, SaveVectorKeeps, PutBackKeeps
<1>9. QED
  BY <1>1, <1>2, <1>3, <1>4, <1>5, <1>6, <1>7, <1>8 DEF DoubleNext

-----------------------------------------------------------------------------
(* The double as a publication gate.                                       *)

RowTickets == [i \in Title |-> [run |-> jobs[i].run, attempt |-> jobs[i].attempt]]
RowAttempts == [r \in RunId |-> rows[r].attempt]

OneWaits ==
    \A r, q \in RunId : rows[r].status \in Waiting /\ rows[q].status \in Waiting => r = q

\* What the slot is, with and without a run that waits.
RowSlotMeans ==
    OneWaits =>
        /\ (\A r \in RunId : rows[r].status \notin Waiting) => DoubleSlot = DoubleGate!Free
        /\ \A r \in RunId : rows[r].status \in Waiting =>
              DoubleSlot = [run |-> r, attempt |-> rows[r].attempt,
                            live |-> rows[r].status = "RUNNING"]

\* The run that CHOOSE finds is the only one that waits.
LEMMA SlotOfRow == RowSlotMeans
<1> SUFFICES ASSUME OneWaits PROVE RowSlotMeans!2
  BY DEF RowSlotMeans
<1>1. (\A r \in RunId : rows[r].status \notin Waiting) => DoubleSlot = DoubleGate!Free
  BY DEF DoubleSlot, DoubleGate!Free
<1>2. ASSUME NEW r \in RunId, rows[r].status \in Waiting
      PROVE  DoubleSlot = [run |-> r, attempt |-> rows[r].attempt,
                           live |-> rows[r].status = "RUNNING"]
  <2> DEFINE found == CHOOSE q \in RunId : rows[q].status \in Waiting
  <2>1. found \in RunId /\ rows[found].status \in Waiting
    BY <1>2
  <2>2. found = r
    BY <1>2, <2>1 DEF OneWaits
  <2>3. DoubleSlot = [run |-> found, attempt |-> rows[found].attempt,
                      live |-> rows[found].status = "RUNNING"]
    BY <1>2 DEF DoubleSlot
  <2>4. QED
    BY <2>2, <2>3
<1>3. QED
  BY <1>1, <1>2

\* The same of the next state.
LEMMA SlotOfRowNext == RowSlotMeans'
BY SlotOfRow, PTL

\* What the gate says of a state of the double.
LEMMA GateOfDouble ==
    ASSUME DoubleInv
    PROVE  /\ OneWaits
           /\ \A r \in RunId : rows[r] \in RowRecord
           /\ \A i \in Title : jobs[i] \in TitleJob
           /\ rows \in [RunId -> RowRecord] /\ jobs \in [Title -> TitleJob]
BY DEF DoubleInv, DoubleRows, OneWaiting, OneWaits

\* A run enters the free slot under its next attempt, with some drafts renewed.
LEMMA RowTakesSlot ==
    ASSUME DoubleInv, DoubleInv', NEW r \in RunId, NEW renewed \in SUBSET Title,
           NobodyElse(r), rows[r].status \notin Waiting,
           rows'[r].status = "QUEUED", rows'[r].attempt = rows[r].attempt + 1,
           \A q \in RunId \ {r} : rows'[q] = rows[q],
           \A i \in renewed : jobs[i].run = r /\ issues[i] = "UNPUBLISHED",
           \A i \in renewed : jobs'[i].run = r /\ jobs'[i].attempt = rows[r].attempt + 1,
           \A i \in Title \ renewed : jobs'[i] = jobs[i],
           issues' = issues
    PROVE  DoubleGate!Admit(r, renewed)
<1>0. OneWaits /\ OneWaits'
  BY DEF DoubleInv, OneWaiting, OneWaits
<1>1. DoubleSlot = DoubleGate!Free
  BY <1>0, SlotOfRow DEF RowSlotMeans, NobodyElse
<1>2. DoubleSlot' = [run |-> r, attempt |-> rows[r].attempt + 1, live |-> FALSE]
  <2>1. DoubleSlot' = [run |-> r, attempt |-> rows'[r].attempt,
                       live |-> rows'[r].status = "RUNNING"]
    BY <1>0, SlotOfRowNext DEF RowSlotMeans, Waiting
  <2>2. (rows'[r].status = "RUNNING") = FALSE
    OBVIOUS
  <2>3. QED
    BY <2>1, <2>2
<1>3. RowAttempts' = [RowAttempts EXCEPT ![r] = RowAttempts[r] + 1]
  BY DEF RowAttempts
<1>4. RowTickets' = [i \in Title |->
                       IF i \in renewed THEN [run |-> r, attempt |-> RowAttempts[r] + 1]
                       ELSE RowTickets[i]]
  BY DEF RowTickets, RowAttempts
<1>5. renewed \subseteq DoubleGate!Drafts(r)
  BY DEF DoubleGate!Drafts
<1>6. QED
  BY <1>1, <1>2, <1>3, <1>4, <1>5 DEF DoubleGate!Admit, RowAttempts, RowTickets

\* The run that is RUNNING gives up the slot.
LEMMA RowLeavesSlot ==
    ASSUME DoubleInv, DoubleInv', NEW r \in RunId, NEW status,
           rows[r].status = "RUNNING", status \notin Waiting,
           rows' = [rows EXCEPT ![r].status = status],
           RowTickets' = RowTickets, issues' = issues
    PROVE  DoubleGate!Leave
<1>0. /\ OneWaits /\ OneWaits' /\ rows[r] \in RowRecord
      /\ rows \in [RunId -> RowRecord]
  BY DEF DoubleInv, DoubleRows, OneWaiting, OneWaits
<1>1. DoubleSlot = [run |-> r, attempt |-> rows[r].attempt,
                    live |-> rows[r].status = "RUNNING"]
  BY <1>0, SlotOfRow DEF RowSlotMeans, Waiting
<1>2. /\ rows'[r].status = status /\ rows'[r].attempt = rows[r].attempt
      /\ \A q \in RunId \ {r} : rows'[q] = rows[q]
  BY <1>0 DEF RowRecord
<1>3. \A q \in RunId : rows'[q].status \notin Waiting
  <2>1. \A q \in RunId \ {r} : rows[q].status \notin Waiting
    BY <1>0 DEF OneWaits, Waiting
  <2>2. QED
    BY <1>2, <2>1
<1>4. DoubleSlot' = DoubleGate!Free
  BY <1>0, <1>3, SlotOfRowNext DEF RowSlotMeans, DoubleGate!Free
<1>5. RowAttempts' = RowAttempts
  BY <1>2 DEF RowAttempts
<1>6. DoubleSlot.live
  BY <1>1
<1>7. QED
  BY <1>4, <1>5, <1>6 DEF DoubleGate!Leave, RowAttempts, RowTickets

\* Runs that keep their status and attempt keep the slot as it is.
LEMMA RowKeepsSlot ==
    ASSUME DoubleInv, DoubleInv',
           \A q \in RunId : /\ rows'[q].status = rows[q].status
                            /\ rows'[q].attempt = rows[q].attempt
    PROVE  DoubleSlot' = DoubleSlot /\ RowAttempts' = RowAttempts
<1>0. OneWaits /\ OneWaits'
  BY DEF DoubleInv, OneWaiting, OneWaits
<1>1. RowAttempts' = RowAttempts
  BY DEF RowAttempts
<1>2. CASE \A r \in RunId : rows[r].status \notin Waiting
  <2>1. DoubleSlot = DoubleGate!Free
    BY <1>0, <1>2, SlotOfRow DEF RowSlotMeans
  <2>2. DoubleSlot' = DoubleGate!Free
    BY <1>0, <1>2, SlotOfRowNext DEF RowSlotMeans, Waiting, DoubleGate!Free
  <2>3. QED
    BY <1>1, <2>1, <2>2
<1>3. CASE \E r \in RunId : rows[r].status \in Waiting
  <2>1. PICK r \in RunId : rows[r].status \in Waiting
    BY <1>3
  <2>2. DoubleSlot = [run |-> r, attempt |-> rows[r].attempt,
                      live |-> rows[r].status = "RUNNING"]
    BY <1>0, <2>1, SlotOfRow DEF RowSlotMeans
  <2>3. DoubleSlot' = [run |-> r, attempt |-> rows'[r].attempt,
                       live |-> rows'[r].status = "RUNNING"]
    BY <1>0, <2>1, SlotOfRowNext DEF RowSlotMeans, Waiting
  <2>4. (rows'[r].status = "RUNNING") = (rows[r].status = "RUNNING")
    OBVIOUS
  <2>5. QED
    BY <1>1, <2>2, <2>3, <2>4
<1>4. QED
  BY <1>2, <1>3

\* A recount changes no status and no attempt.
LEMMA RecountedRows ==
    ASSUME DoubleInv, rows' = rows \/ Recount
    PROVE  \A q \in RunId : /\ rows'[q].status = rows[q].status
                            /\ rows'[q].attempt = rows[q].attempt
<1>1. CASE Recount
  <2> SUFFICES ASSUME NEW q \in RunId
               PROVE  rows'[q].status = rows[q].status /\ rows'[q].attempt = rows[q].attempt
    OBVIOUS
  <2>1. PICK n : rows'[q] = [rows[q] EXCEPT !.pending = n]
    BY <1>1 DEF Recount
  <2>2. rows[q] \in RowRecord
    BY GateOfDouble
  <2>3. QED
    BY <2>1, <2>2 DEF RowRecord
<1>2. QED
  BY <1>1

\* A job that is taken or failed keeps run and attempt.
LEMMA QuietTitleCalls ==
    ASSUME DoubleInv, NEW t, NEW i \in Title,
           TakeJob(t, i) \/ FailJob(t, i) \/ MarkPending(t, i)
    PROVE  /\ rows' = rows \/ Recount
           /\ issues' = issues
           /\ \A j \in Title : /\ jobs'[j].run = jobs[j].run
                                /\ jobs'[j].attempt = jobs[j].attempt
<1>1. jobs \in [Title -> TitleJob] /\ jobs[i] \in TitleJob
  BY GateOfDouble
<1>2. CASE TakeJob(t, i)
  <2>1. jobs' = [jobs EXCEPT ![i] = [jobs[i] EXCEPT !.status = "RUNNING"]]
    BY <1>1, <1>2 DEF TakeJob
  <2>2. LET new == [jobs[i] EXCEPT !.status = "RUNNING"]
        IN  new.run = jobs[i].run /\ new.attempt = jobs[i].attempt
    BY <1>1 DEF TitleJob
  <2>3. QED
    BY <1>1, <1>2, <2>1, <2>2 DEF TakeJob
<1>3. CASE FailJob(t, i)
  <2>1. jobs' = [jobs EXCEPT ![i] = [jobs[i] EXCEPT !.status = "FAILED",
                                                    !.interrupted = FALSE]]
    BY <1>1, <1>3 DEF FailJob
  <2>2. LET new == [jobs[i] EXCEPT !.status = "FAILED", !.interrupted = FALSE]
        IN  new.run = jobs[i].run /\ new.attempt = jobs[i].attempt
    BY <1>1 DEF TitleJob
  <2>3. QED
    BY <1>1, <1>3, <2>1, <2>2 DEF FailJob
<1>4. CASE MarkPending(t, i)
  BY <1>4 DEF MarkPending
<1>5. QED
  BY <1>2, <1>3, <1>4

\* What the invariant says of counts.
LEMMA DoubleCounts ==
    ASSUME DoubleInv
    PROVE  DoubleTypeOK /\ TasksCounted
<1>1. ASSUME NEW r \in RunId
      PROVE  /\ rows[r].attempt \in 0..LastAttempt
             /\ rows[r].execution \in 0..Cardinality(tickets)
             /\ rows[r].pending \in 0..Cardinality(Title)
  <2>1. rows[r] \in RowRecord /\ rows[r].execution <= Cardinality(tickets)
        /\ Cardinality(tickets) \in Nat
    BY FS_CardinalityType DEF DoubleInv, DoubleRows
  <2>2. OpenOf(r) \in SUBSET Title /\ SeenOf(r) \in SUBSET Title
    BY DEF OpenOf, SeenOf, TitlesOf
  <2>3. /\ Cardinality(OpenOf(r)) <= Cardinality(Title) /\ Cardinality(Title) \in Nat
        /\ Cardinality(OpenOf(r)) \in Nat /\ Cardinality(SeenOf(r)) \in Nat
    BY <2>2, CountsAre
  <2>4. rows[r].pending \in Cardinality(SeenOf(r)) .. Cardinality(OpenOf(r))
    BY DEF DoubleInv, PendingCounts
  <2>5. rows[r].pending \in 0..Cardinality(Title)
    BY <2>3, <2>4
  <2>6. QED
    BY <2>1, <2>5 DEF RowRecord
<1>2. \A i \in Title : jobs[i].run \in RunId \cup {Nothing}
  BY GateOfDouble DEF TitleJob
<1>3. DoubleTypeOK
  BY <1>1, <1>2 DEF DoubleTypeOK, DoubleInv, DoubleRows
<1>4. TasksCounted
  BY DEF DoubleInv, TasksOfJobs, PendingCounts, OpenOf, SeenOf, TasksCounted
<1>5. QED
  BY <1>3, <1>4

\* A new run is admitted without drafts.
LEMMA EnqueueRowAdmits ==
    ASSUME DoubleInv, DoubleInv', NEW r \in RunId, EnqueueRow(r)
    PROVE  DoubleGate!Admit(r, {})
<1>1. rows[r] \in RowRecord /\ rows[r].attempt = 0 /\ rows \in [RunId -> RowRecord]
  BY GateOfDouble DEF DoubleInv, OneWaiting, EnqueueRow
<1>2. /\ rows' = [rows EXCEPT ![r] = [rows[r] EXCEPT !.status = "QUEUED", !.attempt = 1]]
      /\ NobodyElse(r) /\ rows[r].status \notin Waiting
      /\ jobs' = jobs /\ issues' = issues
  BY <1>1 DEF EnqueueRow, Waiting
<1>3. [rows[r] EXCEPT !.status = "QUEUED", !.attempt = 1]
        = [status |-> "QUEUED", attempt |-> 1, execution |-> rows[r].execution,
           pending |-> rows[r].pending]
  BY <1>1, RowWithAttempt
<1>4. /\ rows'[r].status = "QUEUED" /\ rows'[r].attempt = rows[r].attempt + 1
      /\ \A q \in RunId \ {r} : rows'[q] = rows[q]
  BY <1>1, <1>2, <1>3
<1>5. QED
  BY <1>2, <1>4, RowTakesSlot

\* A retry renews the tickets of jobs that are drafts.
LEMMA RetryRowAdmits ==
    ASSUME DoubleInv, DoubleInv', NEW r \in RunId, NEW a \in 1 .. LastAttempt,
           NEW scope, NEW selected, RetryRow(r, a, scope, selected)
    PROVE  \E renewed \in SUBSET Title : DoubleGate!Admit(r, renewed)
<1>0. PICK again \in SUBSET Title : again = BackInQueue(r, scope, selected)
  BY DEF BackInQueue, TitlesOf
<1>1. rows[r] \in RowRecord /\ rows[r].attempt = a /\ rows \in [RunId -> RowRecord]
  BY GateOfDouble DEF RetryRow
<1>2. /\ rows' = [rows EXCEPT ![r] = [rows[r] EXCEPT !.status = "QUEUED", !.execution = 0,
                                                     !.attempt = a + 1]]
      /\ jobs' = [i \in Title |->
                    IF i \in again
                    THEN [run |-> r, status |-> "QUEUED", attempt |-> a + 1,
                          interrupted |-> FALSE]
                    ELSE jobs[i]]
      /\ NobodyElse(r) /\ rows[r].status \notin Waiting
      /\ issues' = issues
  BY <1>0 DEF RetryRow, Waiting
<1>3. [rows[r] EXCEPT !.status = "QUEUED", !.execution = 0, !.attempt = a + 1]
        = [status |-> "QUEUED", attempt |-> a + 1, execution |-> 0,
           pending |-> rows[r].pending]
  BY <1>1, RowAgain
<1>4. /\ rows'[r].status = "QUEUED" /\ rows'[r].attempt = rows[r].attempt + 1
      /\ \A q \in RunId \ {r} : rows'[q] = rows[q]
  BY <1>1, <1>2, <1>3
<1>5. ASSUME NEW i \in again
      PROVE  jobs[i].run = r /\ issues[i] = "UNPUBLISHED"
  <2>1. i \in Title /\ jobs[i].run = r /\ issues[i] # "WITHDRAWN"
        /\ jobs[i].status # "SUCCEEDED"
    BY <1>0 DEF BackInQueue, TitlesOf
  <2>2. issues[i] # "NONE" /\ issues[i] # "PUBLISHED"
    BY <2>1, DoubleAssumption DEF DoubleInv, TitlesAgree
  <2>3. QED
    BY <2>1, <2>2 DEF DoubleInv, DoubleRows
<1>6. /\ \A i \in again : jobs'[i].run = r /\ jobs'[i].attempt = rows[r].attempt + 1
      /\ \A i \in Title \ again : jobs'[i] = jobs[i]
  BY <1>1, <1>2
<1>7. DoubleGate!Admit(r, again)
  BY <1>2, <1>4, <1>5, <1>6, RowTakesSlot
<1>8. QED
  BY <1>7

\* Jobs that keep run and attempt keep their tickets.
LEMMA RowTicketsKept ==
    ASSUME \A i \in Title : jobs'[i].run = jobs[i].run /\ jobs'[i].attempt = jobs[i].attempt
    PROVE  RowTickets' = RowTickets
BY DEF RowTickets

\* A status that ends a run.
LEMMA VerdictEnds ==
    ASSUME NEW mine, NEW empty \in {"SUCCEEDED", "FAILED"}
    PROVE  Verdict(mine, empty) \notin Waiting
BY VerdictIs DEF Waiting

\* An interrupt, a failure and the completion of a run free the slot.
LEMMA RowEndLeaves ==
    ASSUME DoubleInv, DoubleInv',
           \/ \E r \in RunId, a \in 1 .. LastAttempt, t \in tickets :
                InterruptRow(r, a, t.execution)
           \/ \E t \in tickets : FailRow(t) \/ CompleteRow(t)
    PROVE  DoubleGate!Leave
<1>1. ASSUME NEW r \in RunId, NEW a, NEW e, InterruptRow(r, a, e)
      PROVE  DoubleGate!Leave
  <2>1. PICK status : /\ rows' = [rows EXCEPT ![r].status = status]
                      /\ status \notin Waiting
    BY <1>1, VerdictEnds DEF InterruptRow
  <2>2. rows[r].status = "RUNNING" /\ issues' = issues
    BY <1>1 DEF InterruptRow
  <2>3. \A i \in Title : jobs'[i].run = jobs[i].run /\ jobs'[i].attempt = jobs[i].attempt
    BY <1>1, GateOfDouble DEF InterruptRow, TitleJob
  <2>4. QED
    BY <2>1, <2>2, <2>3, RowTicketsKept, RowLeavesSlot
<1>2. ASSUME NEW t \in tickets, FailRow(t) \/ CompleteRow(t)
      PROVE  DoubleGate!Leave
  <2>1. PICK status : /\ rows' = [rows EXCEPT ![t.run].status = status]
                      /\ status \notin Waiting
    <3>1. "FAILED" \notin Waiting
      BY DEF Waiting
    <3>2. QED
      BY <1>2, <3>1, VerdictEnds DEF FailRow, CompleteRow
  <2>2. t.run \in RunId /\ rows[t.run].status = "RUNNING" /\ issues' = issues /\ jobs' = jobs
    BY <1>2 DEF FailRow, CompleteRow, HoldsRow, DoubleInv, DoubleRows, Ticket
  <2>3. RowTickets' = RowTickets
    BY <2>2 DEF RowTickets
  <2>4. QED
    BY <2>1, <2>2, <2>3, RowLeavesSlot
<1>3. QED
  BY <1>1, <1>2

\* A slot that goes live.
LEMMA RowLive ==
    ASSUME NEW r, NEW n, NEW old, NEW new
    PROVE  [[run |-> r, attempt |-> n, live |-> old] EXCEPT !.live = new]
             = [run |-> r, attempt |-> n, live |-> new]
OBVIOUS

\* A claim starts the run that waits in the slot.
LEMMA ClaimNextStarts ==
    ASSUME DoubleInv, DoubleInv', NEW r \in RunId, ClaimNext(r)
    PROVE  DoubleGate!Start
<1>0. /\ OneWaits /\ OneWaits' /\ rows[r] \in RowRecord
      /\ rows \in [RunId -> RowRecord]
  BY DEF DoubleInv, DoubleRows, OneWaiting, OneWaits
<1>1. PICK e : rows' = [rows EXCEPT ![r] = [rows[r] EXCEPT !.status = "RUNNING",
                                                           !.execution = e]]
  BY <1>0 DEF ClaimNext
<1>2. [rows[r] EXCEPT !.status = "RUNNING", !.execution = e]
        = [status |-> "RUNNING", attempt |-> rows[r].attempt, execution |-> e,
           pending |-> rows[r].pending]
  BY <1>0, RowWithExecution
<1>3. /\ rows[r].status = "QUEUED" /\ rows'[r].status = "RUNNING"
      /\ rows'[r].attempt = rows[r].attempt
      /\ \A q \in RunId \ {r} : rows'[q] = rows[q]
      /\ issues' = issues /\ jobs' = jobs
  BY <1>0, <1>1, <1>2 DEF ClaimNext
<1>4. DoubleSlot = [run |-> r, attempt |-> rows[r].attempt, live |-> FALSE]
  <2>1. DoubleSlot = [run |-> r, attempt |-> rows[r].attempt,
                      live |-> rows[r].status = "RUNNING"]
    BY <1>0, <1>3, SlotOfRow DEF RowSlotMeans, Waiting
  <2>2. (rows[r].status = "RUNNING") = FALSE
    BY <1>3
  <2>3. QED
    BY <2>1, <2>2
<1>5. DoubleSlot' = [run |-> r, attempt |-> rows[r].attempt, live |-> TRUE]
  <2>1. DoubleSlot' = [run |-> r, attempt |-> rows'[r].attempt,
                       live |-> rows'[r].status = "RUNNING"]
    BY <1>0, <1>3, SlotOfRowNext DEF RowSlotMeans, Waiting
  <2>2. (rows'[r].status = "RUNNING") = TRUE
    BY <1>3
  <2>3. QED
    BY <1>3, <2>1, <2>2
<1>6. DoubleSlot # DoubleGate!Free
  <2>1. r # Nothing
    BY DoubleAssumption
  <2>2. DoubleSlot.run # DoubleGate!Free.run
    BY <1>4, <2>1 DEF DoubleGate!Free
  <2>3. QED
    BY <2>2
<1>7. DoubleSlot' = [DoubleSlot EXCEPT !.live = TRUE]
  <2>1. [[run |-> r, attempt |-> rows[r].attempt, live |-> FALSE] EXCEPT !.live = TRUE]
          = [run |-> r, attempt |-> rows[r].attempt, live |-> TRUE]
    BY RowLive
  <2>2. QED
    BY <1>4, <1>5, <2>1
<1>8. RowAttempts' = RowAttempts /\ RowTickets' = RowTickets
  BY <1>3 DEF RowAttempts, RowTickets
<1>9. ~DoubleSlot.live
  BY <1>4
<1>10. QED
  BY <1>3, <1>6, <1>7, <1>8, <1>9 DEF DoubleGate!Start, RowAttempts, RowTickets

\* registerTitle does not compare executions; a queued row is of a later attempt
\* than every ticket, so that the attempt is enough.
LEMMA RegisterTitleDrafts ==
    ASSUME DoubleInv, DoubleInv', NEW t \in tickets, NEW i \in Title, RegisterTitle(t, i)
    PROVE  DoubleGate!Draft(i)
<1>1. /\ OneWaits /\ t.run \in RunId /\ t.attempt \in Nat
      /\ jobs \in [Title -> TitleJob]
  BY DEF DoubleInv, DoubleRows, OneWaiting, OneWaits, Ticket
<1>2. /\ rows[t.run].attempt = t.attempt /\ rows[t.run].status \in Waiting
      /\ issues[i] = "NONE" /\ issues' = [issues EXCEPT ![i] = "UNPUBLISHED"]
      /\ jobs' = [jobs EXCEPT ![i] = [run |-> t.run, status |-> "QUEUED",
                                      attempt |-> t.attempt, interrupted |-> FALSE]]
      /\ rows' = rows
  BY DEF RegisterTitle, Admits
<1>3. rows[t.run].status = "RUNNING"
  <2>1. rows[t.run].status # "QUEUED"
    BY <1>1, <1>2 DEF DoubleInv, TicketsAgree
  <2>2. QED
    BY <1>2, <2>1 DEF Waiting
<1>4. DoubleSlot = [run |-> t.run, attempt |-> rows[t.run].attempt,
                    live |-> rows[t.run].status = "RUNNING"]
  BY <1>1, <1>2, SlotOfRow DEF RowSlotMeans
<1>5. DoubleSlot.live /\ DoubleSlot.run = t.run /\ DoubleSlot.attempt = t.attempt
  BY <1>2, <1>3, <1>4
<1>6. DoubleSlot' = DoubleSlot /\ RowAttempts' = RowAttempts
  BY <1>2, RowKeepsSlot
<1>7. RowTickets' = [RowTickets EXCEPT ![i] = [run |-> DoubleSlot.run,
                                               attempt |-> DoubleSlot.attempt]]
  BY <1>1, <1>2, <1>5 DEF RowTickets
<1>8. QED
  BY <1>2, <1>5, <1>6, <1>7 DEF DoubleGate!Draft, RowTickets, RowAttempts

\* A title is published by the attempt in the slot, whose ticket it carries.
LEMMA PublishTitlePublishes ==
    ASSUME DoubleInv, DoubleInv', NEW t \in tickets, NEW i \in Title, PublishTitle(t, i)
    PROVE  DoubleGate!Publish(i)
<1>1. /\ OneWaits /\ jobs \in [Title -> TitleJob] /\ jobs[i] \in TitleJob
      /\ issues[i] \in {"NONE", "UNPUBLISHED", "PUBLISHED", "WITHDRAWN"}
  BY DEF DoubleInv, DoubleRows, OneWaiting, OneWaits
<1>2. PICK r \in RunId : /\ r = jobs[i].run /\ rows[r].execution = t.execution
                         /\ rows[r].status = "RUNNING" /\ jobs[i].attempt = t.attempt
  BY <1>1 DEF PublishTitle, OwnsTitle, TitleJob
<1>3. t.attempt = rows[r].attempt
  BY <1>2 DEF DoubleInv, TicketsAgree
<1>4. DoubleSlot = [run |-> r, attempt |-> rows[r].attempt,
                    live |-> rows[r].status = "RUNNING"]
  BY <1>1, <1>2, SlotOfRow DEF RowSlotMeans, Waiting
<1>5. /\ DoubleSlot.live /\ DoubleSlot.run = jobs[i].run
      /\ DoubleSlot.attempt = jobs[i].attempt
  BY <1>2, <1>3, <1>4
<1>6. RowTickets[i] = [run |-> DoubleSlot.run, attempt |-> DoubleSlot.attempt]
  BY <1>5 DEF RowTickets
<1>7. issues[i] = "UNPUBLISHED"
  <2>1. jobs[i].status = "RUNNING" /\ issues[i] # "WITHDRAWN"
    BY DEF PublishTitle
  <2>2. QED
    BY <1>1, <2>1 DEF DoubleInv, TitlesAgree
<1>8. /\ jobs' = [jobs EXCEPT ![i] = [jobs[i] EXCEPT !.status = "SUCCEEDED",
                                                     !.interrupted = FALSE]]
      /\ issues' = [issues EXCEPT ![i] = "PUBLISHED"]
      /\ Recount
  BY <1>1 DEF PublishTitle
<1>9. RowTickets' = RowTickets
  <2>1. LET new == [jobs[i] EXCEPT !.status = "SUCCEEDED", !.interrupted = FALSE]
        IN  new.run = jobs[i].run /\ new.attempt = jobs[i].attempt
    BY <1>1 DEF TitleJob
  <2>2. \A j \in Title : jobs'[j].run = jobs[j].run /\ jobs'[j].attempt = jobs[j].attempt
    BY <1>1, <1>8, <2>1
  <2>3. QED
    BY <2>2, RowTicketsKept
<1>10. DoubleSlot' = DoubleSlot /\ RowAttempts' = RowAttempts
  BY <1>8, RecountedRows, RowKeepsSlot
<1>11. QED
  BY <1>5, <1>6, <1>7, <1>8, <1>9, <1>10 DEF DoubleGate!Publish, RowTickets, RowAttempts

\* The tests withdraw an issue.
LEMMA SetWithdrawnWithdraws ==
    ASSUME DoubleInv, DoubleInv', NEW i \in Title, SetWithdrawn(i)
    PROVE  DoubleGate!Withdraw(i)
<1>1. rows' = rows /\ jobs' = jobs
  BY DEF SetWithdrawn
<1>2. DoubleSlot' = DoubleSlot /\ RowAttempts' = RowAttempts
  BY <1>1, RowKeepsSlot
<1>3. QED
  BY <1>1, <1>2 DEF SetWithdrawn, DoubleGate!Withdraw, RowAttempts

\* Calls that count tasks again, or take and fail a job, are no step of the gate.
LEMMA QuietCalls ==
    ASSUME DoubleInv, DoubleInv', rows' = rows \/ Recount, issues' = issues,
           \A i \in Title : jobs'[i].run = jobs[i].run /\ jobs'[i].attempt = jobs[i].attempt
    PROVE  UNCHANGED DoubleGate!gateVars
<1>1. DoubleSlot' = DoubleSlot /\ RowAttempts' = RowAttempts
  BY RecountedRows, RowKeepsSlot
<1>2. RowTickets' = RowTickets
  BY RowTicketsKept
<1>3. QED
  BY <1>1, <1>2 DEF DoubleGate!gateVars, RowAttempts, RowTickets

-----------------------------------------------------------------------------
\* The double of the tests is a publication gate as the database repository is,
\* and counts its tasks, whoever calls it in whatever order
\* (InMemoryPipelineRepository).
THEOREM DoubleIsGateCorrect == DoubleSpec => DoubleIsGate
<1>1. DoubleInit => DoubleGate!Init
  BY DEF DoubleInit, DoubleGate!Init, DoubleGate!Free, DoubleSlot, Waiting
<1>2. DoubleInv /\ DoubleInv' /\ [DoubleNext]_doubleVars
        => [DoubleGate!Next]_(DoubleGate!gateVars)
  <2> SUFFICES ASSUME DoubleInv, DoubleInv', [DoubleNext]_doubleVars
               PROVE  DoubleGate!Next \/ UNCHANGED DoubleGate!gateVars
    OBVIOUS
  <2>1. CASE UNCHANGED doubleVars
    BY <2>1, QuietCalls DEF doubleVars
  <2>2. ASSUME NEW r \in RunId, EnqueueRow(r) \/ ClaimNext(r) PROVE DoubleGate!Next
    BY <2>2, EnqueueRowAdmits, ClaimNextStarts DEF DoubleGate!Next
  <2>3. ASSUME NEW r \in RunId, NEW a \in 1 .. LastAttempt,
               NEW scope, NEW some, RetryRow(r, a, scope, some)
        PROVE  DoubleGate!Next
    BY <2>3, RetryRowAdmits DEF DoubleGate!Next
  <2>4. CASE \/ \E r \in RunId, a \in 1 .. LastAttempt, t \in tickets :
                  InterruptRow(r, a, t.execution)
             \/ \E t \in tickets : FailRow(t) \/ CompleteRow(t)
    BY <2>4, RowEndLeaves DEF DoubleGate!Next
  <2>5. ASSUME NEW t \in tickets, NEW i \in Title,
               \/ RegisterTitle(t, i) \/ PublishTitle(t, i) \/ SetWithdrawn(i)
        PROVE  DoubleGate!Next
    BY <2>5, RegisterTitleDrafts, PublishTitlePublishes, SetWithdrawnWithdraws
    DEF DoubleGate!Next
  <2>6. ASSUME NEW i \in Title, SetWithdrawn(i) PROVE DoubleGate!Next
    BY <2>6, SetWithdrawnWithdraws DEF DoubleGate!Next
  <2>7. ASSUME NEW t \in tickets, NEW i \in Title,
               TakeJob(t, i) \/ FailJob(t, i) \/ MarkPending(t, i)
        PROVE  UNCHANGED DoubleGate!gateVars
    BY <2>7, QuietTitleCalls, QuietCalls
  <2>8. ASSUME NEW k, \/ \E limit \in 1..Cardinality(Title) : ClaimTasks(k, limit)
                      \/ \E i \in Title : SaveVector(i, k) \/ PutTaskBack(i, k)
                      \/ \E only \in BOOLEAN : PutTasksBack(k, only)
        PROVE  UNCHANGED DoubleGate!gateVars
    <3>1. jobs' = jobs /\ issues' = issues /\ Recount
      BY <2>8 DEF ClaimTasks, SaveVector, PutTaskBack, PutTasksBack
    <3>2. QED
      BY <3>1, QuietCalls
  <2>9. QED
    BY <2>1, <2>2, <2>3, <2>4, <2>5, <2>6, <2>7, <2>8 DEF DoubleNext
<1>3. DoubleInv => DoubleTypeOK /\ TasksCounted
  BY DoubleCounts
<1>4. QED
  BY <1>1, <1>2, <1>3, DoubleInvInit, DoubleInductive, PTL
  DEF DoubleSpec, DoubleIsGate, DoubleGate!Spec
=============================================================================
