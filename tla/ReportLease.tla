---------------------------- MODULE ReportLease ----------------------------
(***************************************************************************)
(* The diagnostic report: members request and retry reports, report        *)
(* workers claim them under a lease, and one execution per claim captures  *)
(* the candidates, calls the provider twice and stores the result.         *)
(*                                                                         *)
(* A worker gives an execution up at its deadline, but the execution then  *)
(* still runs to its next check of the abort signal: both may write.       *)
(*                                                                         *)
(* Time is one flag per report, elapsed: a QUEUED report is due, the lease *)
(* of a RUNNING one has run out, a FAILED one has cooled down (these are   *)
(* the only timestamps the code compares in each status).  A statement     *)
(* takes its "now" before it is executed, so one that requires a live      *)
(* lease may still pass for a while after the lease ran out; only          *)
(* beginReport asks the database for the time.                             *)
(*                                                                         *)
(* Left out: what a report says, error codes, candidates that disappear,   *)
(* the calendar and size limits that may refuse a request or a retry.      *)
(* Each report is a (member, week) slot; every member has one.             *)
(***************************************************************************)
EXTENDS Naturals

CONSTANTS
    Report,              \* the (member, week) slots
    Worker,              \* reportWorker processes
    AutoLimit,           \* AUTO_ATTEMPT_LIMIT
    TotalLimit,          \* TOTAL_ATTEMPT_LIMIT
    Calls,               \* provider calls per execution: 2, generation and
                         \* validation; fewer only to bound a run
    NoClaim, NoWorker    \* null references

Attempt == 1 .. TotalLimit
Claim == Report \X Attempt    \* a claim is made once per report and attempt

ASSUME ReportAssumption ==
    /\ AutoLimit \in Nat
    /\ TotalLimit \in Nat \ {0}
    /\ AutoLimit =< TotalLimit
    /\ Calls \in Nat \ {0}
    /\ NoClaim \notin Claim
    /\ NoWorker \notin Worker

VARIABLES
    report,      \* weekly_reports
    usage,       \* ai_usage_records, by claim and purpose
    public,      \* all input issues of the report are PUBLISHED
    exec,        \* the execution of each claim
    worker,      \* what each worker process is doing
    nextToken    \* the next fresh lease token (0 is SQL null)

vars == <<report, usage, public, exec, worker, nextToken>>

Purpose == 1 .. Calls
Known == {"SUCCEEDED", "FAILED"}
UsageStatus == {"NONE", "RUNNING", "UNKNOWN"} \cup Known
Ended == {"SUCCEEDED", "FAILED", "DELETED"}
ReportStatus == {"ABSENT", "QUEUED", "RUNNING"} \cup Ended

\* cand and content hold the token under which they were captured: content is
\* the candidates the report was written from.
ReportRecord == [status : ReportStatus, attempt : 0 .. TotalLimit, token : Nat,
                 elapsed : BOOLEAN, retryable : BOOLEAN, cand : Nat,
                 content : Nat]
ExecRecord == [pc : {"None", "Capture", "Filter", "Begin", "Await", "Settle",
                     "Recheck", "Complete", "Ended"},
               token : Nat, host : Worker \cup {NoWorker}, cand : Nat,
               call : Purpose, result : UsageStatus \ {"RUNNING"}, lost : BOOLEAN,
               dropped : BOOLEAN, late : SUBSET Purpose]
WorkerRecord == [pc : {"Idle", "Run", "Fail", "Down"},
                 claim : Claim \cup {NoClaim}, retryable : BOOLEAN]

NoReport == [status |-> "ABSENT", attempt |-> 0, token |-> 0, elapsed |-> FALSE,
             retryable |-> FALSE, cand |-> 0, content |-> 0]
NoExec == [pc |-> "None", token |-> 0, host |-> NoWorker, cand |-> 0,
           call |-> 1, result |-> "NONE", lost |-> FALSE,
           dropped |-> FALSE, late |-> {}]
IdleWorker == [pc |-> "Idle", claim |-> NoClaim, retryable |-> FALSE]

Init ==
    /\ report = [r \in Report |-> NoReport]
    /\ usage = [k \in Claim |-> [p \in Purpose |-> "NONE"]]
    /\ public = [r \in Report |-> TRUE]
    /\ exec = [k \in Claim |-> NoExec]
    /\ worker = [w \in Worker |-> IdleWorker]
    /\ nextToken = 1

-----------------------------------------------------------------------------
(* Requests.                                                               *)

\* The unique index makes a second request return the first one's row.
Request(r) ==
    /\ report[r].status = "ABSENT"
    /\ report' = [report EXCEPT ![r] = [NoReport EXCEPT !.status = "QUEUED",
                                                      !.elapsed = TRUE]]
    /\ UNCHANGED <<usage, public, exec, worker, nextToken>>

\* Faulty variant: a retry starts to count attempts again.
RetriedFromZero(row) ==
    [row EXCEPT !.status = "QUEUED", !.retryable = FALSE, !.attempt = 0]

\* Due at once: elapsed stays TRUE.
Retried(row) == [row EXCEPT !.status = "QUEUED", !.retryable = FALSE]

Retry(r) ==
    /\ report[r].status = "FAILED"
    /\ report[r].retryable
    /\ report[r].attempt < TotalLimit
    /\ report[r].elapsed
    /\ report' = [report EXCEPT ![r] = Retried(report[r])]
    /\ UNCHANGED <<usage, public, exec, worker, nextToken>>

\* The member deletes the account: the report goes, its usage rows stay.
DeleteUser(r) ==
    /\ report[r].status \notin {"ABSENT", "DELETED"}
    /\ report' = [report EXCEPT ![r] = [NoReport EXCEPT !.status = "DELETED"]]
    /\ UNCHANGED <<usage, public, exec, worker, nextToken>>

\* External: an administrator withdraws an input issue.
Withdraw(r) ==
    /\ report[r].status \notin {"ABSENT", "DELETED"}
    /\ public[r]
    /\ public' = [public EXCEPT ![r] = FALSE]
    /\ UNCHANGED <<report, usage, exec, worker, nextToken>>

Elapse(r) ==
    /\ report[r].status \in {"QUEUED", "RUNNING", "FAILED"}
    /\ ~report[r].elapsed
    /\ report' = [report EXCEPT ![r].elapsed = TRUE]
    /\ UNCHANGED <<usage, public, exec, worker, nextToken>>

-----------------------------------------------------------------------------
(* Claiming.                                                               *)

Expired == {r \in Report : report[r].status = "RUNNING" /\ report[r].elapsed}

\* Faulty variant: an expired report is queued again at every attempt.
SweptAlwaysQueued(row) ==
    [row EXCEPT !.status = "QUEUED", !.token = 0,
                !.retryable = row.attempt < TotalLimit]

\* The row that the sweep leaves: queued and due, or failed and cooling down.
Swept(row) ==
    IF row.attempt < AutoLimit
    THEN [row EXCEPT !.status = "QUEUED", !.token = 0, !.retryable = TRUE]
    ELSE [row EXCEPT !.status = "FAILED", !.token = 0, !.elapsed = FALSE,
                     !.retryable = row.attempt < TotalLimit]

AfterSweep(S) == [r \in Report |-> IF r \in S THEN Swept(report[r]) ELSE report[r]]

\* The unfinished calls of the expired reports end UNKNOWN.
ClosedCalls(S) ==
    [k \in Claim |-> [p \in Purpose |->
        IF k[1] \in S /\ usage[k][p] = "RUNNING" THEN "UNKNOWN" ELSE usage[k][p]]]

\* claim, its second transaction: sweep, then pick.  S is smaller than Expired
\* when the worker's "now" is older than some of the expiries.
ClaimReport(w, r, S) ==
    LET row == AfterSweep(S)[r]
        k == <<r, row.attempt + 1>>
    IN  /\ worker[w].pc = "Idle"
        /\ S \subseteq Expired
        /\ row.status = "QUEUED"
        /\ row.elapsed
        /\ row.attempt < TotalLimit
        /\ report' = [AfterSweep(S) EXCEPT
                        ![r] = [row EXCEPT !.status = "RUNNING",
                                           !.attempt = row.attempt + 1,
                                           !.token = nextToken,
                                           !.elapsed = FALSE,
                                           !.retryable = FALSE]]
        /\ usage' = ClosedCalls(S)
        /\ exec' = [exec EXCEPT
                      ![k] = [NoExec EXCEPT
                                !.pc = IF row.cand = 0 THEN "Capture" ELSE "Filter",
                                !.token = nextToken, !.host = w,
                                !.cand = row.cand]]
        /\ worker' = [worker EXCEPT ![w] = [pc |-> "Run", claim |-> k,
                                            retryable |-> FALSE]]
        /\ nextToken' = nextToken + 1
        /\ UNCHANGED public

\* Nothing is due, or what is due is locked by another transaction.
SweepOnly(w, S) ==
    /\ worker[w].pc = "Idle"
    /\ S # {}
    /\ S \subseteq Expired
    /\ report' = AfterSweep(S)
    /\ usage' = ClosedCalls(S)
    /\ UNCHANGED <<public, exec, worker, nextToken>>

\* Faulty variant: the calls of deleted reports are forgotten.
AbandonedEndedOnly ==
    {c \in Claim \X Purpose : /\ usage[c[1]][c[2]] = "RUNNING"
                              /\ report[c[1][1]].status \in Known}

\* Calls that their executions left RUNNING and no sweep will ever reach.
Abandoned ==
    {c \in Claim \X Purpose : /\ usage[c[1]][c[2]] = "RUNNING"
                              /\ report[c[1][1]].status \in Ended}

\* recoverFinishedUsage, the first transaction of claim.  S is smaller than
\* Abandoned when some of the calls began less than a lease ago.
RecoverUsage(w, S) ==
    /\ worker[w].pc = "Idle"
    /\ S # {}
    /\ S \subseteq Abandoned
    /\ usage' = [k \in Claim |-> [p \in Purpose |->
                    IF <<k, p>> \in S THEN "UNKNOWN" ELSE usage[k][p]]]
    /\ UNCHANGED <<report, public, exec, worker, nextToken>>

-----------------------------------------------------------------------------
(* One execution.                                                          *)

\* "where id = $1 and status = RUNNING and attempt_count = $2 and lease_token = $3"
Holds(k) ==
    /\ report[k[1]].status = "RUNNING"
    /\ report[k[1]].attempt = k[2]
    /\ report[k[1]].token = exec[k].token

\* The statement changes no row: "and lease_expires_at > now" may say so too.
Refused(k) == ~Holds(k) \/ report[k[1]].elapsed

\* The promise of processClaim is settled.  Its worker, unless it gave the
\* execution up, is idle again or records the failure.
End(k, verdict) ==
    /\ exec' = [exec EXCEPT ![k] =
                  [NoExec EXCEPT !.pc = "Ended",
                                 !.token = exec[k].token,
                                 !.late = exec[k].late,
                                 !.host = IF exec[k].late = {} THEN NoWorker
                                          ELSE exec[k].host]]
    /\ worker' = IF exec[k].dropped THEN worker
                 ELSE [worker EXCEPT ![exec[k].host] =
                         IF verdict = "ok" THEN IdleWorker
                         ELSE [pc |-> "Fail", claim |-> k,
                               retryable |-> verdict = "retry"]]

Goto(k, pc) == exec' = [exec EXCEPT ![k].pc = pc] /\ worker' = worker

\* captureCandidates returns what is stored and selects only when nothing is.
Snapshot(k) ==
    IF report[k[1]].cand = 0 THEN exec[k].token ELSE report[k[1]].cand

\* Faulty variant: the candidates are stored "where id = $1".
CaptureUnfenced(k) ==
    /\ exec[k].pc = "Capture"
    /\ report' = [report EXCEPT ![k[1]].cand = exec[k].token]
    /\ exec' = [exec EXCEPT ![k] = [exec[k] EXCEPT !.pc = "Filter",
                                                 !.cand = exec[k].token]]
    /\ UNCHANGED <<usage, public, worker, nextToken>>

\* Here and in BeginCall and Complete the reply of a committed statement may be
\* lost: the row is written and the execution throws.
Capture(k) ==
    /\ exec[k].pc = "Capture"
    /\ \/ /\ Holds(k)
          /\ report' = [report EXCEPT ![k[1]].cand = Snapshot(k)]
          /\ \/ exec' = [exec EXCEPT ![k] = [exec[k] EXCEPT !.pc = "Filter",
                                                          !.cand = Snapshot(k)]]
                /\ worker' = worker
             \/ End(k, "retry")
       \/ /\ Refused(k)
          /\ report' = report
          /\ End(k, "retry")
    /\ UNCHANGED <<usage, public, nextToken>>

\* Whether the provider is called depends on the number of inputs and
\* candidates.
Filter(k) ==
    /\ exec[k].pc = "Filter"
    /\ \/ public[k[1]] /\ ~exec[k].dropped /\ Goto(k, "Begin")
       \/ public[k[1]] /\ ~exec[k].dropped /\ Goto(k, "Recheck")
       \/ public[k[1]] /\ exec[k].dropped /\ End(k, "retry")
       \/ ~public[k[1]] /\ End(k, "final")
    /\ UNCHANGED <<report, usage, public, nextToken>>

\* Faulty variant: a usage row is begun whatever has become of the report.
LeaseLiveUnchecked(k) == exec[k].token # 0

\* beginReport asks the database for the time.
LeaseLive(k) == Holds(k) /\ ~report[k[1]].elapsed

\* No provider call without a usage row, and no usage row without the lease.
BeginCall(k) ==
    /\ exec[k].pc = "Begin"
    /\ \/ /\ LeaseLive(k)
          /\ usage' = [usage EXCEPT ![k][exec[k].call] = "RUNNING"]
          /\ \/ exec' = [exec EXCEPT ![k] = [exec[k] EXCEPT !.pc = "Await",
                                                          !.lost = FALSE]]
                /\ worker' = worker
             \/ End(k, "retry")
       \/ /\ ~LeaseLive(k)
          /\ usage' = usage
          /\ End(k, "retry")
    /\ UNCHANGED <<report, public, nextToken>>

\* A beat sent during a call may arrive when the call is over.
Heartbeat(k) ==
    /\ exec[k].pc \in {"Await", "Settle", "Begin", "Recheck", "Complete"}
    /\ \E p \in Purpose : usage[k][p] # "NONE"
    /\ Holds(k)
    /\ report[k[1]].elapsed
    /\ report' = [report EXCEPT ![k[1]].elapsed = FALSE]
    /\ UNCHANGED <<usage, public, exec, worker, nextToken>>

\* A beat was refused, or could not be sent: the lease is believed lost.
HeartbeatLost(k) ==
    /\ exec[k].pc \in {"Await", "Settle"}
    /\ ~exec[k].lost
    /\ exec' = [exec EXCEPT ![k].lost = TRUE]
    /\ UNCHANGED <<report, usage, public, worker, nextToken>>

\* The provider answers, fails, or is not waited for any longer; in the last
\* case its answer may still come.
Answer(k, result) ==
    /\ exec[k].pc = "Await"
    /\ exec[k].dropped => result = "UNKNOWN"
    /\ exec' = [exec EXCEPT ![k] =
                  [exec[k] EXCEPT !.pc = "Settle", !.result = result,
                     !.late = IF result = "UNKNOWN" THEN @ \cup {exec[k].call}
                              ELSE @]]
    /\ UNCHANGED <<report, usage, public, worker, nextToken>>

\* Faulty variant: the last writer wins.
FinishedAlways(k, p, result) == [usage EXCEPT ![k][p] = result]

\* "where id = $1 and status in (RUNNING, UNKNOWN)"
Finished(k, p, result) ==
    IF usage[k][p] \in {"RUNNING", "UNKNOWN"}
    THEN [usage EXCEPT ![k][p] = result] ELSE usage

\* Faulty variant: one call too many.
AnotherCallOffByOne(k) == exec[k].call =< Calls

AnotherCall(k) == exec[k].call < Calls

\* finishUsage (its failure is swallowed), then what becomes of the answer.
Settle(k) ==
    /\ exec[k].pc = "Settle"
    /\ usage' \in {usage, Finished(k, exec[k].call, exec[k].result)}
    /\ \/ exec[k].lost /\ End(k, "ok")
       \/ ~exec[k].lost /\ End(k, "retry")
       \/ ~exec[k].lost /\ End(k, "final")
       \/ /\ ~exec[k].lost /\ ~exec[k].dropped
          /\ exec[k].result = "SUCCEEDED"
          /\ exec' = [exec EXCEPT ![k] =
                        [exec[k] EXCEPT
                           !.pc = IF AnotherCall(k) THEN "Begin" ELSE "Recheck",
                           !.call = IF AnotherCall(k) THEN @ + 1 ELSE @,
                           !.result = "NONE"]]
          /\ worker' = worker
    /\ UNCHANGED <<report, public, nextToken>>

\* The provider answers after all: only the usage row is corrected.
LateAnswer(k, p) ==
    /\ p \in exec[k].late
    /\ usage' = Finished(k, p, "SUCCEEDED")
    /\ exec' = [exec EXCEPT ![k] =
                  [exec[k] EXCEPT
                     !.late = @ \ {p},
                     !.host = IF exec[k].pc = "Ended" /\ exec[k].late = {p}
                              THEN NoWorker ELSE @]]
    /\ UNCHANGED <<report, public, worker, nextToken>>

Recheck(k) ==
    /\ exec[k].pc = "Recheck"
    /\ \/ public[k[1]] /\ Goto(k, "Complete")
       \/ ~public[k[1]] /\ End(k, "final")
    /\ UNCHANGED <<report, usage, public, nextToken>>

\* Faulty variant: complete trusts the worker's second look.
SourcesPublicTrusted(k) == k \in Claim

\* complete reads the input issues FOR SHARE before it writes.
SourcesPublic(k) == public[k[1]]

Complete(k) ==
    /\ exec[k].pc = "Complete"
    /\ \/ /\ Holds(k)
          /\ SourcesPublic(k)
          /\ report' = [report EXCEPT ![k[1]] =
                          [report[k[1]] EXCEPT !.status = "SUCCEEDED",
                              !.token = 0, !.retryable = FALSE,
                              !.elapsed = FALSE, !.content = exec[k].cand]]
          /\ End(k, "ok") \/ End(k, "retry")
       \/ /\ Holds(k)
          /\ ~SourcesPublic(k)
          /\ report' = report
          /\ End(k, "final")
       \/ /\ Refused(k)
          /\ report' = report
          /\ End(k, "ok")
    /\ UNCHANGED <<usage, public, nextToken>>

\* A read or a statement fails before it changes anything.
ExecError(k) ==
    /\ exec[k].pc \in {"Capture", "Filter", "Begin", "Recheck", "Complete"}
    /\ End(k, "retry")
    /\ UNCHANGED <<report, usage, public, nextToken>>

-----------------------------------------------------------------------------
(* The worker around its execution.                                        *)

\* The execution takes too long, or the process is asked to stop.
Deadline(w) ==
    /\ worker[w].pc = "Run"
    /\ exec' = [exec EXCEPT ![worker[w].claim].dropped = TRUE]
    /\ worker' = [worker EXCEPT ![w] = [worker[w] EXCEPT !.pc = "Fail",
                                                       !.retryable = TRUE]]
    /\ UNCHANGED <<report, usage, public, nextToken>>

\* Faulty variant: a failed report may be retried at any attempt.
FailedRowAlwaysRetryable(row, retryable) ==
    [row EXCEPT !.status = IF retryable /\ row.attempt < AutoLimit THEN "QUEUED"
                           ELSE "FAILED",
                !.token = 0, !.elapsed = FALSE, !.retryable = retryable]

\* Faulty variant: the lease is not released.
FailedRowKeepsLease(row, retryable) ==
    [row EXCEPT !.status = IF retryable /\ row.attempt < AutoLimit THEN "QUEUED"
                           ELSE "FAILED",
                !.elapsed = FALSE,
                !.retryable = retryable /\ row.attempt < TotalLimit]

FailedRow(row, retryable) ==
    [row EXCEPT !.status = IF retryable /\ row.attempt < AutoLimit THEN "QUEUED"
                           ELSE "FAILED",
                !.token = 0, !.elapsed = FALSE,
                !.retryable = retryable /\ row.attempt < TotalLimit]

\* fail, with the claim that the worker took.
Fail(w) ==
    /\ worker[w].pc = "Fail"
    /\ LET k == worker[w].claim
       IN  \/ /\ Holds(k)
              /\ report' = [report EXCEPT
                              ![k[1]] = FailedRow(report[k[1]], worker[w].retryable)]
           \/ Refused(k) /\ report' = report
    /\ worker' = [worker EXCEPT ![w] = IdleWorker]
    /\ UNCHANGED <<usage, public, exec, nextToken>>

\* The process dies, or exits because fail threw; with it every execution and
\* every late answer it still hosts.
Crash(w) ==
    /\ worker[w].pc # "Down"
    /\ worker[w].pc # "Idle" \/ \E k \in Claim : exec[k].host = w
    /\ worker' = [worker EXCEPT ![w] = [IdleWorker EXCEPT !.pc = "Down"]]
    /\ exec' = [k \in Claim |->
                  IF exec[k].host = w
                  THEN [NoExec EXCEPT !.pc = "Ended", !.token = exec[k].token]
                  ELSE exec[k]]
    /\ UNCHANGED <<report, usage, public, nextToken>>

Restart(w) ==
    /\ worker[w].pc = "Down"
    /\ worker' = [worker EXCEPT ![w] = IdleWorker]
    /\ UNCHANGED <<report, usage, public, exec, nextToken>>

-----------------------------------------------------------------------------

Environment ==
    \E r \in Report :
        Request(r) \/ Retry(r) \/ DeleteUser(r) \/ Withdraw(r) \/ Elapse(r)

\* What an execution does on its own; every await in it is bounded.
Progress(k) ==
    \/ Capture(k) \/ Filter(k) \/ BeginCall(k)
    \/ \E result \in Known \cup {"UNKNOWN"} : Answer(k, result)
    \/ Settle(k) \/ Recheck(k) \/ Complete(k) \/ ExecError(k)

ExecStep(k) ==
    \/ Progress(k) \/ Heartbeat(k) \/ HeartbeatLost(k)
    \/ \E p \in Purpose : LateAnswer(k, p)

Poll(w, S, T) ==
    \/ \E r \in Report : ClaimReport(w, r, S)
    \/ SweepOnly(w, S)
    \/ RecoverUsage(w, T)

WorkerStep(w) ==
    \/ \E S \in SUBSET Expired, T \in SUBSET Abandoned : Poll(w, S, T)
    \/ Deadline(w) \/ Fail(w) \/ Crash(w) \/ Restart(w)

Next ==
    \/ Environment
    \/ \E k \in Claim : ExecStep(k)
    \/ \E w \in Worker : WorkerStep(w)

Spec == Init /\ [][Next]_vars

\* Time passes, executions run, workers poll with a clock that advances (so a
\* poll eventually sees all that has expired) and are restarted.
Fairness ==
    /\ \A r \in Report : WF_vars(Elapse(r))
    /\ \A k \in Claim : WF_vars(Progress(k))
    /\ \A w \in Worker :
          /\ WF_vars(\E r \in Report : ClaimReport(w, r, Expired))
          /\ WF_vars(SweepOnly(w, Expired))
          /\ WF_vars(RecoverUsage(w, Abandoned))
          /\ WF_vars(Fail(w))
          /\ WF_vars(Restart(w))

FairSpec == Spec /\ Fairness

-----------------------------------------------------------------------------
(* What a state may be.                                                    *)

\* Every column and every field an execution or a worker holds has its type.
TypeOK ==
    /\ report \in [Report -> ReportRecord]
    /\ usage \in [Claim -> [Purpose -> UsageStatus]]
    /\ public \in [Report -> BOOLEAN]
    /\ exec \in [Claim -> ExecRecord]
    /\ worker \in [Worker -> WorkerRecord]
    /\ nextToken \in Nat \ {0}

\* No write, in whatever order, runs into the CHECK constraints of
\* weekly_reports: a lease exactly while RUNNING, content exactly when
\* SUCCEEDED, and at most TotalLimit attempts.
ChecksNeverFire ==
    \A r \in Report :
        /\ report[r].status = "RUNNING" <=> report[r].token # 0
        /\ report[r].status = "SUCCEEDED" <=> report[r].content # 0
        /\ report[r].attempt =< TotalLimit

\* A report in the queue can be claimed and a retryable one retried: no
\* sequence of failures, sweeps and retries strands a report at the limit
\* (claim filters on attempt_count, retry refuses at the limit).
NoStrandedReport ==
    \A r \in Report :
        report[r].status = "QUEUED" \/ report[r].retryable
        => report[r].attempt < TotalLimit

\* A finished report was written from the candidates that its row keeps,
\* whichever of its executions captured them and whichever completed it.
ContentFromSnapshot ==
    \A r \in Report :
        report[r].status = "SUCCEEDED" => report[r].content = report[r].cand

\* A claim is never made twice and its lease is never anybody else's: the row of
\* a RUNNING report carries the token of the execution of its attempt, tokens of
\* different claims differ, and no two workers have the same claim in hand.
ExclusiveClaims ==
    /\ \A k \in Claim :
          report[k[1]].status = "RUNNING" /\ report[k[1]].attempt = k[2]
          => report[k[1]].token = exec[k].token
    /\ \A j, k \in Claim :
          j # k /\ exec[j].token # 0 => exec[j].token # exec[k].token
    /\ \A v, w \in Worker :
          v # w /\ worker[v].claim # NoClaim => worker[v].claim # worker[w].claim
    /\ \A w \in Worker :
          worker[w].pc = "Run" =>
             /\ exec[worker[w].claim].host = w
             /\ exec[worker[w].claim].pc \notin {"None", "Ended"}
             /\ ~exec[worker[w].claim].dropped

-----------------------------------------------------------------------------
(* What a step may never do.                                               *)

\* Candidates are chosen once per report: a later attempt, or the execution
\* that an earlier attempt left behind, never replaces them.
SnapshotFixed ==
    [][\A r \in Report :
         report[r].cand # 0 /\ report'[r].status # "DELETED"
         => report'[r].cand = report[r].cand]_vars

\* The outcome of a call, once known, is never overwritten: not by the sweep,
\* not by the recovery, not by a late answer.
KnownUsageKept ==
    [][\A k \in Claim, p \in Purpose :
         usage[k][p] \in Known => usage'[k][p] = usage[k][p]]_vars

\* A deleted member's report never comes back and no call is begun for it.
DeletedStaysGone ==
    [][\A r \in Report :
         report[r].status = "DELETED" =>
            /\ report'[r] = report[r]
            /\ \A k \in {r} \X Attempt, p \in Purpose :
                  usage'[k][p] = "RUNNING" => usage[k][p] = "RUNNING"]_vars

-----------------------------------------------------------------------------
(* What eventually happens.                                                *)

\* A requested report ends, through crashes, lost leases and lost replies.
ReportEnds ==
    \A r \in Report : report[r].status \in {"QUEUED", "RUNNING"}
                      ~> report[r].status \in Ended

\* No call stays RUNNING in the ledger, not even when the report is deleted or
\* finished under it.
UsageEnds ==
    \A k \in Claim, p \in Purpose :
        usage[k][p] = "RUNNING" ~> usage[k][p] # "RUNNING"

-----------------------------------------------------------------------------
(* The lease protocol implements the promise to the member.                *)

Promise == INSTANCE ReportPromise
    WITH phase <- [r \in Report |-> report[r].status],
         tries <- [r \in Report |-> report[r].attempt],
         open <- public

\* Whatever the workers do, members see reports that are tried a bounded number
\* of times, delivered once, from public sources.
PromiseSpec == Promise!Spec
=============================================================================
