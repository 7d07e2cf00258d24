---------------------------- MODULE ReportProofs ----------------------------
(***************************************************************************)
(* Proofs about ReportLease, for every number of reports, workers, attempts*)
(* and provider calls.                                                     *)
(***************************************************************************)
EXTENDS ReportLease, SetLemmas

\* Functions updated within their types keep them.
LEMMA UpdateType ==
    ASSUME NEW D, NEW R, NEW f \in [D -> R], NEW x, NEW y, x \in D => y \in R
    PROVE  [f EXCEPT ![x] = y] \in [D -> R]
OBVIOUS

\* The values that stand for nothing have the types.
LEMMA NothingType ==
    /\ NoReport \in ReportRecord
    /\ NoExec \in ExecRecord
    /\ IdleWorker \in WorkerRecord
<1> USE ReportAssumption
<1>1. NoReport \in ReportRecord
  BY DEF NoReport, ReportRecord, ReportStatus, Ended
<1>2. NoExec \in ExecRecord
  BY DEF NoExec, ExecRecord, Purpose, UsageStatus, Known
<1>3. IdleWorker \in WorkerRecord
  BY DEF IdleWorker, WorkerRecord
<1>4. QED
  BY <1>1, <1>2, <1>3

\* The initial state has the types.
LEMMA TypeInit == Init => TypeOK
BY NothingType DEF Init, TypeOK, UsageStatus

\* A sweep leaves rows of the right type.
LEMMA SweptType ==
    ASSUME TypeOK, NEW r \in Report
    PROVE  Swept(report[r]) \in ReportRecord
<1>1. report[r] \in ReportRecord
  BY DEF TypeOK
<1>2. [report[r] EXCEPT !.status = "QUEUED", !.token = 0, !.retryable = TRUE]
        \in ReportRecord
  BY <1>1, ReportAssumption DEF ReportRecord, ReportStatus
<1>3. (report[r].attempt < TotalLimit) \in BOOLEAN
  OBVIOUS
<1>4. [report[r] EXCEPT !.status = "FAILED", !.token = 0, !.elapsed = FALSE,
                        !.retryable = report[r].attempt < TotalLimit]
        \in ReportRecord
  BY <1>1, <1>3, ReportAssumption DEF ReportRecord, ReportStatus, Ended
<1>5. QED
  BY <1>2, <1>4 DEF Swept

\* A sweep as a whole keeps reports and usage rows in their types.
LEMMA SweepType ==
    ASSUME TypeOK, NEW S
    PROVE  /\ AfterSweep(S) \in [Report -> ReportRecord]
           /\ ClosedCalls(S) \in [Claim -> [Purpose -> UsageStatus]]
<1>1. AfterSweep(S) \in [Report -> ReportRecord]
  BY SweptType DEF AfterSweep, TypeOK
<1>2. ClosedCalls(S) \in [Claim -> [Purpose -> UsageStatus]]
  BY DEF ClosedCalls, TypeOK, UsageStatus
<1>3. QED
  BY <1>1, <1>2

\* An execution that ends leaves execution and worker of the right type.
LEMMA EndType ==
    ASSUME TypeOK, NEW k \in Claim, NEW verdict, End(k, verdict)
    PROVE  /\ exec' \in [Claim -> ExecRecord]
           /\ worker' \in [Worker -> WorkerRecord]
<1>0. exec[k] \in ExecRecord
  BY DEF TypeOK
<1>1. exec' \in [Claim -> ExecRecord]
  <2>1. [NoExec EXCEPT !.pc = "Ended", !.token = exec[k].token,
                       !.late = exec[k].late,
                       !.host = IF exec[k].late = {} THEN NoWorker
                                ELSE exec[k].host] \in ExecRecord
    BY <1>0, NothingType DEF ExecRecord
  <2>2. QED
    BY <2>1 DEF End, TypeOK
<1>2. worker' \in [Worker -> WorkerRecord]
  <2>1. (IF verdict = "ok" THEN IdleWorker
         ELSE [pc |-> "Fail", claim |-> k, retryable |-> verdict = "retry"])
          \in WorkerRecord
    BY NothingType DEF WorkerRecord
  <2>2. QED
    BY <2>1, UpdateType DEF End, TypeOK
<1>3. QED
  BY <1>1, <1>2

\* A finished call leaves usage rows of the right type.
LEMMA FinishedType ==
    ASSUME TypeOK, NEW k \in Claim, NEW p \in Purpose, NEW result \in UsageStatus
    PROVE  Finished(k, p, result) \in [Claim -> [Purpose -> UsageStatus]]
<1>1. [usage[k] EXCEPT ![p] = result] \in [Purpose -> UsageStatus]
  BY DEF TypeOK
<1>2. QED
  BY <1>1 DEF Finished, TypeOK

\* What an execution does on its own keeps the types.
LEMMA TypeProgress == ASSUME TypeOK, NEW k \in Claim, Progress(k) PROVE TypeOK'
<1> USE ReportAssumption
<1>0. /\ exec[k] \in ExecRecord
      /\ k[1] \in Report
      /\ report[k[1]] \in ReportRecord
  BY DEF TypeOK, Claim
<1>1. CASE Capture(k)
  <2>1. Snapshot(k) \in Nat
    BY <1>0 DEF Snapshot, ExecRecord, ReportRecord
  <2>2. report' \in [Report -> ReportRecord]
    <3>1. [report[k[1]] EXCEPT !.cand = Snapshot(k)] \in ReportRecord
      BY <1>0, <2>1 DEF ReportRecord
    <3>2. QED
      BY <1>1, <3>1 DEF Capture, TypeOK
  <2>3. exec' \in [Claim -> ExecRecord] /\ worker' \in [Worker -> WorkerRecord]
    <3>1. [exec[k] EXCEPT !.pc = "Filter", !.cand = Snapshot(k)] \in ExecRecord
      BY <1>0, <2>1 DEF ExecRecord
    <3>2. QED
      BY <1>1, <3>1, EndType DEF Capture, TypeOK
  <2>4. QED
    BY <1>1, <2>2, <2>3 DEF Capture, TypeOK
<1>2. CASE Filter(k)
  <2>1. exec' \in [Claim -> ExecRecord] /\ worker' \in [Worker -> WorkerRecord]
    <3>1. \A pc \in {"Begin", "Recheck"} : [exec[k] EXCEPT !.pc = pc] \in ExecRecord
      BY <1>0 DEF ExecRecord
    <3>2. QED
      BY <1>2, <3>1, EndType DEF Filter, Goto, TypeOK
  <2>2. QED
    BY <1>2, <2>1 DEF Filter, TypeOK
<1>3. CASE BeginCall(k)
  <2>1. exec' \in [Claim -> ExecRecord] /\ worker' \in [Worker -> WorkerRecord]
    <3>1. [exec[k] EXCEPT !.pc = "Await", !.lost = FALSE] \in ExecRecord
      BY <1>0 DEF ExecRecord
    <3>2. QED
      BY <1>3, <3>1, EndType DEF BeginCall, TypeOK
  <2>2. usage' \in [Claim -> [Purpose -> UsageStatus]]
    BY <1>3 DEF BeginCall, TypeOK, UsageStatus
  <2>3. QED
    BY <1>3, <2>1, <2>2 DEF BeginCall, TypeOK
<1>4. ASSUME NEW result \in Known \cup {"UNKNOWN"}, Answer(k, result) PROVE TypeOK'
  <2>1. exec[k].late \cup {exec[k].call} \in SUBSET Purpose
    BY <1>0 DEF ExecRecord
  <2>2. [exec[k] EXCEPT !.pc = "Settle", !.result = result,
            !.late = IF result = "UNKNOWN" THEN @ \cup {exec[k].call} ELSE @]
          \in ExecRecord
    BY <1>0, <2>1 DEF ExecRecord, UsageStatus, Known
  <2>3. exec' \in [Claim -> ExecRecord]
    BY <1>4, <2>2 DEF Answer, TypeOK
  <2>4. QED
    BY <1>4, <2>3 DEF Answer, TypeOK
<1>5. CASE Settle(k)
  <2>1. usage' \in [Claim -> [Purpose -> UsageStatus]]
    <3>1. /\ exec[k].call \in Purpose
          /\ exec[k].result \in UsageStatus
      BY <1>0 DEF ExecRecord
    <3>2. Finished(k, exec[k].call, exec[k].result)
            \in [Claim -> [Purpose -> UsageStatus]]
      BY <3>1, FinishedType
    <3>3. QED
      BY <1>5, <3>2 DEF Settle, TypeOK
  <2>2. exec' \in [Claim -> ExecRecord] /\ worker' \in [Worker -> WorkerRecord]
    <3>1. AnotherCall(k) => exec[k].call + 1 \in Purpose
      BY <1>0 DEF AnotherCall, Purpose, ExecRecord
    <3>2. [exec[k] EXCEPT !.pc = IF AnotherCall(k) THEN "Begin" ELSE "Recheck",
                          !.call = IF AnotherCall(k) THEN @ + 1 ELSE @,
                          !.result = "NONE"] \in ExecRecord
      BY <1>0, <3>1 DEF ExecRecord, UsageStatus
    <3>3. QED
      BY <1>5, <3>2, EndType DEF Settle, TypeOK
  <2>3. QED
    BY <1>5, <2>1, <2>2 DEF Settle, TypeOK
<1>6. CASE Recheck(k)
  <2>1. exec' \in [Claim -> ExecRecord] /\ worker' \in [Worker -> WorkerRecord]
    <3>1. [exec[k] EXCEPT !.pc = "Complete"] \in ExecRecord
      BY <1>0 DEF ExecRecord
    <3>2. QED
      BY <1>6, <3>1, EndType DEF Recheck, Goto, TypeOK
  <2>2. QED
    BY <1>6, <2>1 DEF Recheck, TypeOK
<1>7. CASE Complete(k)
  <2>1. exec' \in [Claim -> ExecRecord] /\ worker' \in [Worker -> WorkerRecord]
    BY <1>7, EndType DEF Complete, TypeOK
  <2>2. report' \in [Report -> ReportRecord]
    <3>1. [report[k[1]] EXCEPT !.status = "SUCCEEDED", !.token = 0,
              !.retryable = FALSE, !.elapsed = FALSE, !.content = exec[k].cand]
            \in ReportRecord
      BY <1>0 DEF ReportRecord, ReportStatus, Ended, ExecRecord
    <3>2. QED
      BY <1>7, <3>1 DEF Complete, TypeOK
  <2>3. QED
    BY <1>7, <2>1, <2>2 DEF Complete, TypeOK
<1>8. CASE ExecError(k)
  BY <1>8, EndType DEF ExecError, TypeOK
<1>9. QED
  BY <1>1, <1>2, <1>3, <1>4, <1>5, <1>6, <1>7, <1>8 DEF Progress

\* A claim keeps the types.
LEMMA TypeClaim ==
    ASSUME TypeOK, NEW w \in Worker, NEW r \in Report, NEW S \in SUBSET Expired,
           ClaimReport(w, r, S)
    PROVE  TypeOK'
<1> USE ReportAssumption
<1> DEFINE row == AfterSweep(S)[r]
           k == <<r, row.attempt + 1>>
<1>1. /\ row \in ReportRecord
      /\ nextToken \in Nat \ {0}
  BY SweepType DEF TypeOK
<1>2. k \in Claim
  BY <1>1 DEF ClaimReport, ReportRecord, Claim, Attempt
<1>3. report' \in [Report -> ReportRecord]
  <2>1. [row EXCEPT !.status = "RUNNING", !.attempt = row.attempt + 1,
                    !.token = nextToken, !.elapsed = FALSE, !.retryable = FALSE]
          \in ReportRecord
    <3>1. row.attempt + 1 \in 0 .. TotalLimit
      BY <1>1 DEF ClaimReport, ReportRecord
    <3>2. QED
      BY <1>1, <3>1 DEF ReportRecord, ReportStatus
  <2>2. QED
    BY <2>1, SweepType DEF ClaimReport
<1>4. exec' \in [Claim -> ExecRecord]
  <2>1. [NoExec EXCEPT !.pc = IF row.cand = 0 THEN "Capture" ELSE "Filter",
                       !.token = nextToken, !.host = w, !.cand = row.cand]
          \in ExecRecord
    BY <1>1, NothingType DEF ExecRecord, ReportRecord
  <2>2. QED
    BY <2>1 DEF ClaimReport, TypeOK
<1>5. worker' \in [Worker -> WorkerRecord]
  <2>1. [pc |-> "Run", claim |-> k, retryable |-> FALSE] \in WorkerRecord
    BY <1>2 DEF WorkerRecord
  <2>2. QED
    BY <2>1 DEF ClaimReport, TypeOK
<1>6. QED
  BY <1>1, <1>3, <1>4, <1>5, SweepType DEF ClaimReport, TypeOK

\* The failed row is queued or failed.
LEMMA FailedRowType ==
    ASSUME NEW row \in ReportRecord, NEW retryable \in BOOLEAN
    PROVE  FailedRow(row, retryable) \in ReportRecord
<1>1. (retryable /\ row.attempt < TotalLimit) \in BOOLEAN
  OBVIOUS
<1>2. [row EXCEPT !.status = IF retryable /\ row.attempt < AutoLimit THEN "QUEUED"
                             ELSE "FAILED",
                  !.token = 0, !.elapsed = FALSE,
                  !.retryable = retryable /\ row.attempt < TotalLimit]
        \in ReportRecord
  BY <1>1, ReportAssumption DEF ReportRecord, ReportStatus, Ended
<1>3. QED
  BY <1>2 DEF FailedRow

\* Every step keeps the types.
LEMMA TypeStep == TypeOK /\ [Next]_vars => TypeOK'
<1> USE ReportAssumption
<1> SUFFICES ASSUME TypeOK, [Next]_vars PROVE TypeOK'
  OBVIOUS
<1>0. /\ \A r \in Report : report[r] \in ReportRecord
      /\ \A k \in Claim : exec[k] \in ExecRecord
      /\ \A w \in Worker : worker[w] \in WorkerRecord
  BY DEF TypeOK
<1>1. ASSUME NEW r \in Report, Request(r) PROVE TypeOK'
  <2>1. [NoReport EXCEPT !.status = "QUEUED", !.elapsed = TRUE] \in ReportRecord
    BY NothingType DEF ReportRecord, ReportStatus
  <2>2. QED
    BY <1>1, <2>1 DEF Request, TypeOK
<1>2. ASSUME NEW r \in Report, Retry(r) PROVE TypeOK'
  <2>1. Retried(report[r]) \in ReportRecord
    BY <1>0 DEF Retried, ReportRecord, ReportStatus
  <2>2. QED
    BY <1>2, <2>1 DEF Retry, TypeOK
<1>3. ASSUME NEW r \in Report, DeleteUser(r) PROVE TypeOK'
  <2>1. [NoReport EXCEPT !.status = "DELETED"] \in ReportRecord
    BY NothingType DEF ReportRecord, ReportStatus, Ended
  <2>2. QED
    BY <1>3, <2>1 DEF DeleteUser, TypeOK
<1>4. ASSUME NEW r \in Report, Withdraw(r) PROVE TypeOK'
  BY <1>4 DEF Withdraw, TypeOK
<1>5. ASSUME NEW r \in Report, Elapse(r) PROVE TypeOK'
  <2>1. [report[r] EXCEPT !.elapsed = TRUE] \in ReportRecord
    BY <1>0 DEF ReportRecord
  <2>2. QED
    BY <1>5, <2>1 DEF Elapse, TypeOK
<1>6. ASSUME NEW k \in Claim, Heartbeat(k) PROVE TypeOK'
  <2>1. [report[k[1]] EXCEPT !.elapsed = FALSE] \in ReportRecord
    BY <1>0 DEF ReportRecord, Claim
  <2>2. QED
    BY <1>6, <2>1 DEF Heartbeat, TypeOK
<1>7. ASSUME NEW k \in Claim, HeartbeatLost(k) PROVE TypeOK'
  <2>1. [exec[k] EXCEPT !.lost = TRUE] \in ExecRecord
    BY <1>0 DEF ExecRecord
  <2>2. QED
    BY <1>7, <2>1 DEF HeartbeatLost, TypeOK
<1>8. ASSUME NEW k \in Claim, NEW p \in Purpose, LateAnswer(k, p) PROVE TypeOK'
  <2>1. [exec[k] EXCEPT !.late = @ \ {p},
            !.host = IF exec[k].pc = "Ended" /\ exec[k].late = {p}
                     THEN NoWorker ELSE @] \in ExecRecord
    BY <1>0 DEF ExecRecord
  <2>2. usage' \in [Claim -> [Purpose -> UsageStatus]]
    BY <1>8, FinishedType DEF LateAnswer, UsageStatus, Known
  <2>3. QED
    BY <1>8, <2>1, <2>2 DEF LateAnswer, TypeOK
<1>9. ASSUME NEW w \in Worker, NEW S \in SUBSET Expired, SweepOnly(w, S) PROVE TypeOK'
  BY <1>9, SweepType DEF SweepOnly, TypeOK
<1>10. ASSUME NEW w \in Worker, NEW T \in SUBSET Abandoned, RecoverUsage(w, T)
       PROVE  TypeOK'
  BY <1>10 DEF RecoverUsage, TypeOK, UsageStatus
<1>11. ASSUME NEW w \in Worker, Deadline(w) PROVE TypeOK'
  <2>1. [worker[w] EXCEPT !.pc = "Fail", !.retryable = TRUE] \in WorkerRecord
    BY <1>0 DEF WorkerRecord
  <2>2. \A k \in Claim : [exec[k] EXCEPT !.dropped = TRUE] \in ExecRecord
    BY <1>0 DEF ExecRecord
  <2>3. exec' \in [Claim -> ExecRecord]
    BY <1>11, <2>2 DEF Deadline, TypeOK
  <2>4. QED
    BY <1>11, <2>1, <2>3 DEF Deadline, TypeOK
<1>12. ASSUME NEW w \in Worker, Fail(w) PROVE TypeOK'
  <2>1. \A r \in Report : FailedRow(report[r], worker[w].retryable) \in ReportRecord
    BY <1>0, FailedRowType DEF WorkerRecord
  <2>2. report' \in [Report -> ReportRecord]
    BY <1>12, <2>1 DEF Fail, TypeOK
  <2>3. QED
    BY <1>12, <2>2, NothingType DEF Fail, TypeOK
<1>13. ASSUME NEW w \in Worker, Crash(w) PROVE TypeOK'
  <2>1. \A k \in Claim : [NoExec EXCEPT !.pc = "Ended", !.token = exec[k].token]
                           \in ExecRecord
    BY <1>0, NothingType DEF ExecRecord
  <2>2. exec' \in [Claim -> ExecRecord]
    BY <1>13, <2>1 DEF Crash, TypeOK
  <2>3. [IdleWorker EXCEPT !.pc = "Down"] \in WorkerRecord
    BY NothingType DEF WorkerRecord
  <2>4. QED
    BY <1>13, <2>2, <2>3 DEF Crash, TypeOK
<1>14. ASSUME NEW w \in Worker, Restart(w) PROVE TypeOK'
  BY <1>14, NothingType DEF Restart, TypeOK
<1>15. CASE UNCHANGED vars
  BY <1>15 DEF TypeOK, vars
<1>16. QED
  BY <1>1, <1>2, <1>3, <1>4, <1>5, <1>6, <1>7, <1>8, <1>9, <1>10, <1>11, <1>12,
     <1>13, <1>14, <1>15, TypeProgress, TypeClaim
  DEF Next, Environment, ExecStep, WorkerStep, Poll

\* Every column and every field an execution or a worker holds has its type.
THEOREM TypeCorrect == Spec => []TypeOK
BY TypeInit, TypeStep, PTL DEF Spec

-----------------------------------------------------------------------------
(* The invariants.                                                         *)

Working == {"Capture", "Filter", "Begin", "Await", "Settle", "Recheck", "Complete"}

\* What a row of weekly_reports is, whoever wrote it last.
RowOK(row) ==
    /\ row.status = "ABSENT" => row = NoReport
    /\ row.status = "RUNNING" <=> row.token # 0
    /\ row.status = "SUCCEEDED" <=> row.content # 0
    /\ row.status = "SUCCEEDED" => row.content = row.cand
    /\ row.status = "QUEUED" \/ row.retryable => row.attempt < TotalLimit

Rows == \A r \in Report : RowOK(report[r])

\* An execution works on the candidates of its report, if it still exists.
Candidates ==
    \A k \in Claim :
        /\ exec[k].pc \in Working \ {"Capture"} => exec[k].cand # 0
        /\ exec[k].cand # 0 /\ report[k[1]].status # "DELETED"
           => report[k[1]].cand = exec[k].cand

\* Tokens are given out in order, and a claim that is still to be made has no
\* execution.
Tokens ==
    \A k \in Claim :
        /\ exec[k].token < nextToken
        /\ exec[k].pc = "None" <=> exec[k].token = 0
        /\ exec[k].pc = "None" => exec[k].host = NoWorker
        /\ k[2] > report[k[1]].attempt /\ report[k[1]].status # "DELETED"
           => exec[k].pc = "None"

\* An execution that its worker waits for is the one that worker has in hand.
Hosts ==
    /\ \A k \in Claim :
          exec[k].pc \in Working =>
             /\ exec[k].host \in Worker
             /\ \/ exec[k].dropped
                \/ /\ worker[exec[k].host].pc = "Run"
                   /\ worker[exec[k].host].claim = k
    /\ \A w \in Worker :
          /\ worker[w].pc \in {"Run", "Fail"} <=> worker[w].claim # NoClaim
          /\ worker[w].claim # NoClaim => exec[worker[w].claim].pc # "None"

\* The calls that an execution has still to make have no usage row.
Calling ==
    \A k \in Claim :
        /\ exec[k].pc = "None" => \A p \in Purpose : usage[k][p] = "NONE"
        /\ exec[k].pc \in Working =>
              \A p \in Purpose : p > exec[k].call => usage[k][p] = "NONE"
        /\ exec[k].pc \in {"Capture", "Filter", "Begin"}
           => usage[k][exec[k].call] = "NONE"

RowsInv == TypeOK /\ Rows /\ Candidates /\ Tokens
LeaseInv == RowsInv /\ ExclusiveClaims /\ Hosts
CallInv == RowsInv /\ Calling

-----------------------------------------------------------------------------
(* What a claim does.                                                      *)

\* The first step of an execution.
Starts(k) ==
    /\ report'[k[1]].status = "RUNNING"
    /\ report'[k[1]].attempt = k[2]
    /\ report'[k[1]].token = nextToken
    /\ report[k[1]].status # "DELETED"
    /\ report[k[1]].attempt < k[2]
    /\ \E w \in Worker :
          /\ worker[w].pc = "Idle"
          /\ exec'[k] = [NoExec EXCEPT
                !.pc = IF report'[k[1]].cand = 0 THEN "Capture" ELSE "Filter",
                !.token = nextToken, !.host = w, !.cand = report'[k[1]].cand]
          /\ worker' = [worker EXCEPT ![w] = [pc |-> "Run", claim |-> k,
                                             retryable |-> FALSE]]

\* What ClaimReport does.
Claims(k) ==
    /\ Starts(k)
    /\ \A j \in Claim \ {k} : exec'[j] = exec[j]
    /\ nextToken' = nextToken + 1

\* ClaimReport starts exactly one execution, of the report it claims.
LEMMA ClaimFacts ==
    ASSUME TypeOK, NEW w \in Worker, NEW r \in Report, NEW S \in SUBSET Expired,
           ClaimReport(w, r, S)
    PROVE  \E k \in Claim : k[1] = r /\ Claims(k)
<1> USE ReportAssumption
<1> DEFINE row == AfterSweep(S)[r]
           k == <<r, row.attempt + 1>>
<1>1. row \in ReportRecord
  BY SweepType
<1>2. k \in Claim /\ k[1] = r /\ k[2] = row.attempt + 1
  BY <1>1 DEF ClaimReport, ReportRecord, Claim, Attempt
<1>3. report'[r] = [row EXCEPT !.status = "RUNNING", !.attempt = row.attempt + 1,
                      !.token = nextToken, !.elapsed = FALSE, !.retryable = FALSE]
  BY SweepType DEF ClaimReport
<1>4. /\ report'[r].status = "RUNNING"
      /\ report'[r].attempt = row.attempt + 1
      /\ report'[r].token = nextToken
      /\ report'[r].cand = row.cand
  BY <1>1, <1>3 DEF ReportRecord
<1>5. /\ report[r].status # "DELETED"
      /\ report[r].attempt < row.attempt + 1
  <2>1. report[r] \in ReportRecord
    BY DEF TypeOK
  <2>2. CASE r \in S
    <3>1. report[r].status = "RUNNING" /\ row = Swept(report[r])
      BY <2>2 DEF Expired, AfterSweep
    <3>2. row.attempt = report[r].attempt
      BY <2>1, <3>1 DEF Swept, ReportRecord
    <3>3. QED
      BY <2>1, <3>1, <3>2 DEF ReportRecord
  <2>3. CASE r \notin S
    BY <2>1, <2>3 DEF ClaimReport, AfterSweep, ReportRecord
  <2>4. QED
    BY <2>2, <2>3
<1>6. exec'[k] = [NoExec EXCEPT !.pc = IF row.cand = 0 THEN "Capture" ELSE "Filter",
                    !.token = nextToken, !.host = w, !.cand = row.cand]
  BY <1>2 DEF ClaimReport, TypeOK
<1>7. Starts(k)
  <2>1. /\ worker[w].pc = "Idle"
        /\ worker' = [worker EXCEPT ![w] = [pc |-> "Run", claim |-> k,
                                          retryable |-> FALSE]]
    BY DEF ClaimReport
  <2>2. report'[k[1]] = report'[r] /\ report[k[1]] = report[r]
    BY <1>2
  <2>3. report[k[1]].attempt < k[2]
    BY <1>2, <1>5
  <2>4. exec'[k] = [NoExec EXCEPT
                !.pc = IF report'[k[1]].cand = 0 THEN "Capture" ELSE "Filter",
                !.token = nextToken, !.host = w, !.cand = report'[k[1]].cand]
    BY <1>2, <1>4, <1>6
  <2>5. /\ report'[k[1]].status = "RUNNING"
        /\ report'[k[1]].attempt = k[2]
        /\ report'[k[1]].token = nextToken
        /\ report[k[1]].status # "DELETED"
    BY <1>2, <1>4, <1>5
  <2>6. QED
    BY <2>1, <2>3, <2>4, <2>5 DEF Starts
<1>8. \A j \in Claim \ {k} : exec'[j] = exec[j]
  BY DEF ClaimReport, TypeOK
<1>9. nextToken' = nextToken + 1
  BY DEF ClaimReport
<1>10. QED
  BY <1>2, <1>7, <1>8, <1>9 DEF Claims

-----------------------------------------------------------------------------
(* What one step may do to one row.                                        *)

Exists(row) == row.status \notin {"ABSENT", "DELETED"}

RequestRow(r) ==
    /\ report[r].status = "ABSENT"
    /\ report'[r] = [NoReport EXCEPT !.status = "QUEUED", !.elapsed = TRUE]

RetryRow(r) ==
    /\ report[r].status = "FAILED"
    /\ report[r].attempt < TotalLimit
    /\ report'[r] = Retried(report[r])

DeleteRow(r) ==
    /\ Exists(report[r])
    /\ report'[r] = [NoReport EXCEPT !.status = "DELETED"]

TimeRow(r) ==
    /\ Exists(report[r])
    /\ \E e \in BOOLEAN : report'[r] = [report[r] EXCEPT !.elapsed = e]

SweepRow(r) == report[r].status = "RUNNING" /\ report'[r] = Swept(report[r])

ClaimRow(r) ==
    /\ \E k \in Claim : k[1] = r /\ Claims(k)
    /\ \E row \in {report[r], Swept(report[r])}, t \in Nat \ {0} :
        /\ row # report[r] => report[r].status = "RUNNING"
        /\ row.status = "QUEUED"
        /\ row.attempt < TotalLimit
        /\ report'[r] = [row EXCEPT !.status = "RUNNING", !.attempt = row.attempt + 1,
                                    !.token = t, !.elapsed = FALSE,
                                    !.retryable = FALSE]

CaptureRow(r) ==
    /\ report[r].status = "RUNNING"
    /\ \E c \in Nat \ {0} :
          /\ report[r].cand # 0 => c = report[r].cand
          /\ report'[r] = [report[r] EXCEPT !.cand = c]

CompleteRow(r) ==
    /\ report[r].status = "RUNNING"
    /\ public[r]
    /\ report[r].cand # 0
    /\ report'[r] = [report[r] EXCEPT !.status = "SUCCEEDED", !.token = 0,
                        !.retryable = FALSE, !.elapsed = FALSE,
                        !.content = report[r].cand]

FailRow(r) ==
    /\ report[r].status = "RUNNING"
    /\ \E retryable \in BOOLEAN : report'[r] = FailedRow(report[r], retryable)

RowStep(r) ==
    \/ report'[r] = report[r]
    \/ RequestRow(r) \/ RetryRow(r) \/ DeleteRow(r) \/ TimeRow(r) \/ SweepRow(r)
    \/ ClaimRow(r) \/ CaptureRow(r) \/ CompleteRow(r) \/ FailRow(r)

\* Every step treats every row in one of these ways.
LEMMA RowSteps ==
    ASSUME TypeOK, Candidates, Tokens, [Next]_vars, NEW r \in Report
    PROVE  RowStep(r)
<1> USE ReportAssumption
<1>0. /\ report \in [Report -> ReportRecord]
      /\ report[r] \in ReportRecord
      /\ \A k \in Claim : exec[k] \in ExecRecord /\ k[1] \in Report
      /\ \A w \in Worker : worker[w] \in WorkerRecord
  BY DEF TypeOK, Claim
<1>1. ASSUME NEW q \in Report, Request(q) PROVE RowStep(r)
  BY <1>0, <1>1 DEF Request, RowStep, RequestRow
<1>2. ASSUME NEW q \in Report, Retry(q) PROVE RowStep(r)
  BY <1>0, <1>2 DEF Retry, RowStep, RetryRow
<1>3. ASSUME NEW q \in Report, DeleteUser(q) PROVE RowStep(r)
  BY <1>0, <1>3 DEF DeleteUser, RowStep, DeleteRow, Exists
<1>4. ASSUME NEW q \in Report, Elapse(q) PROVE RowStep(r)
  BY <1>0, <1>4 DEF Elapse, RowStep, TimeRow, Exists
<1>5. ASSUME NEW k \in Claim, Heartbeat(k) PROVE RowStep(r)
  BY <1>0, <1>5 DEF Heartbeat, Holds, RowStep, TimeRow, Exists
<1>6. ASSUME NEW w \in Worker, NEW S \in SUBSET Expired, SweepOnly(w, S)
      PROVE  RowStep(r)
  BY <1>0, <1>6 DEF SweepOnly, AfterSweep, Expired, RowStep, SweepRow
<1>7. ASSUME NEW w \in Worker, NEW q \in Report, NEW S \in SUBSET Expired,
             ClaimReport(w, q, S)
      PROVE  RowStep(r)
  <2>1. /\ AfterSweep(S)[r] = (IF r \in S THEN Swept(report[r]) ELSE report[r])
        /\ r \in S => report[r].status = "RUNNING"
    BY <1>7 DEF AfterSweep, Expired
  <2>2. CASE q # r
    <3>1. report'[r] = AfterSweep(S)[r]
      BY <1>7, <2>2, SweepType DEF ClaimReport
    <3>2. QED
      BY <2>1, <3>1 DEF RowStep, SweepRow
  <2>3. CASE q = r
    <3>1. nextToken \in Nat \ {0}
      BY DEF TypeOK
    <3>2. ClaimRow(r)
      <4>1. \E k \in Claim : k[1] = r /\ Claims(k)
        BY <1>7, <2>3, ClaimFacts
      <4>2. report'[r] = [AfterSweep(S)[r] EXCEPT
                !.status = "RUNNING", !.attempt = AfterSweep(S)[r].attempt + 1,
                !.token = nextToken, !.elapsed = FALSE, !.retryable = FALSE]
        BY <1>7, <2>3, SweepType DEF ClaimReport
      <4>3. /\ AfterSweep(S)[r].status = "QUEUED"
            /\ AfterSweep(S)[r].attempt < TotalLimit
        BY <1>7, <2>3 DEF ClaimReport
      <4>4. QED
        BY <2>1, <3>1, <4>1, <4>2, <4>3 DEF ClaimRow
    <3>3. QED
      BY <3>2 DEF RowStep
  <2>4. QED
    BY <2>2, <2>3
<1>8. ASSUME NEW k \in Claim, Capture(k) PROVE RowStep(r)
  <2>1. CASE report' = report
    BY <2>1 DEF RowStep
  <2>2. CASE Holds(k) /\ report' = [report EXCEPT ![k[1]].cand = Snapshot(k)]
    <3>1. exec[k].token \in Nat \ {0}
      BY <1>0, <1>8 DEF Capture, Tokens, ExecRecord
    <3>2. /\ Snapshot(k) \in Nat \ {0}
          /\ report[k[1]].cand # 0 => Snapshot(k) = report[k[1]].cand
      BY <1>0, <3>1 DEF Snapshot, ReportRecord
    <3>3. QED
      BY <1>0, <2>2, <3>2 DEF Holds, RowStep, CaptureRow
  <2>3. QED
    BY <1>8, <2>1, <2>2 DEF Capture
<1>9. ASSUME NEW k \in Claim, Complete(k) PROVE RowStep(r)
  <2>1. CASE report' = report
    BY <2>1 DEF RowStep
  <2>2. CASE /\ Holds(k)
             /\ SourcesPublic(k)
             /\ report' = [report EXCEPT ![k[1]] =
                             [report[k[1]] EXCEPT !.status = "SUCCEEDED",
                                 !.token = 0, !.retryable = FALSE,
                                 !.elapsed = FALSE, !.content = exec[k].cand]]
    <3>1. exec[k].cand # 0
      BY <1>9 DEF Complete, Candidates, Working
    <3>2. report[k[1]].cand = exec[k].cand
      BY <2>2, <3>1 DEF Candidates, Holds
    <3>3. QED
      BY <1>0, <2>2, <3>1, <3>2 DEF Holds, SourcesPublic, RowStep, CompleteRow
  <2>3. QED
    BY <1>9, <2>1, <2>2 DEF Complete
<1>10. ASSUME NEW w \in Worker, Fail(w) PROVE RowStep(r)
  <2>1. worker[w].retryable \in BOOLEAN
    BY <1>0 DEF WorkerRecord
  <2>2. CASE report' = report
    BY <2>2 DEF RowStep
  <2>3. CASE /\ Holds(worker[w].claim)
             /\ report' = [report EXCEPT
                             ![worker[w].claim[1]] =
                                FailedRow(report[worker[w].claim[1]],
                                          worker[w].retryable)]
    BY <1>0, <2>1, <2>3 DEF Holds, RowStep, FailRow
  <2>4. QED
    BY <1>10, <2>2, <2>3 DEF Fail
<1>11. CASE report' = report
  BY <1>11 DEF RowStep
<1>12. QED
  BY <1>1, <1>2, <1>3, <1>4, <1>5, <1>6, <1>7, <1>8, <1>9, <1>10, <1>11
  DEF Next, Environment, ExecStep, Progress, WorkerStep, Poll, vars,
      Withdraw, Filter, BeginCall, Answer, Settle, Recheck, ExecError,
      HeartbeatLost, LateAnswer, RecoverUsage, Deadline, Crash, Restart

\* Each of these ways leaves a good row, and says what can become of it.
LEMMA RowStepKeeps ==
    ASSUME TypeOK, NEW r \in Report, RowOK(report[r]), RowStep(r)
    PROVE  /\ RowOK(report'[r])
           /\ report[r].status = "DELETED" => report'[r] = report[r]
           /\ \/ report'[r].status = "DELETED"
              \/ report[r].cand = 0
              \/ report'[r].cand = report[r].cand
           /\ report'[r].status = "DELETED" \/ report'[r].attempt >= report[r].attempt
<1> USE ReportAssumption
<1> DEFINE old == report[r]
           new == report'[r]
           Goal == /\ RowOK(new)
                   /\ old.status = "DELETED" => new = old
                   /\ new.status = "DELETED" \/ old.cand = 0 \/ new.cand = old.cand
                   /\ new.status = "DELETED" \/ new.attempt >= old.attempt
<1>0. old \in ReportRecord
  BY DEF TypeOK
<1>1. CASE new = old
  BY <1>0, <1>1 DEF ReportRecord
<1>2. CASE RequestRow(r)
  BY <1>0, <1>2 DEF RequestRow, RowOK, NoReport, ReportRecord
<1>3. CASE RetryRow(r)
  BY <1>0, <1>3 DEF RetryRow, Retried, RowOK, ReportRecord
<1>4. CASE DeleteRow(r)
  BY <1>0, <1>4 DEF DeleteRow, Exists, RowOK, NoReport, ReportRecord
<1>5. CASE TimeRow(r)
  BY <1>0, <1>5 DEF TimeRow, Exists, RowOK, ReportRecord
<1>6. CASE SweepRow(r)
  BY <1>0, <1>6 DEF SweepRow, Swept, RowOK, ReportRecord
<1>7. CASE ClaimRow(r)
  <2>1. PICK row \in {old, Swept(old)}, t \in Nat \ {0} :
          /\ row # old => old.status = "RUNNING"
          /\ row.status = "QUEUED"
          /\ row.attempt < TotalLimit
          /\ new = [row EXCEPT !.status = "RUNNING", !.attempt = row.attempt + 1,
                               !.token = t, !.elapsed = FALSE, !.retryable = FALSE]
    BY <1>7 DEF ClaimRow
  <2>2. Swept(old) \in ReportRecord
    BY SweptType
  <2>3. old.status \in {"QUEUED", "RUNNING"}
    BY <2>1
  <2>4. old.content = 0
    BY <2>3 DEF RowOK
  <2>5. /\ row \in ReportRecord
        /\ row.attempt = old.attempt /\ row.cand = old.cand /\ row.content = 0
    BY <1>0, <2>1, <2>2, <2>4 DEF Swept, ReportRecord
  <2>6. /\ new.status = "RUNNING" /\ new.attempt = old.attempt + 1
        /\ new.token = t /\ new.cand = old.cand /\ new.content = 0
        /\ new.retryable = FALSE
    BY <2>1, <2>5 DEF ReportRecord
  <2>7. QED
    BY <1>0, <2>1, <2>3, <2>6 DEF RowOK, ReportRecord
<1>8. CASE CaptureRow(r)
  BY <1>0, <1>8 DEF CaptureRow, RowOK, ReportRecord
<1>9. CASE CompleteRow(r)
  BY <1>0, <1>9 DEF CompleteRow, RowOK, ReportRecord
<1>10. CASE FailRow(r)
  BY <1>0, <1>10 DEF FailRow, FailedRow, RowOK, ReportRecord
<1>11. QED
  BY <1>1, <1>2, <1>3, <1>4, <1>5, <1>6, <1>7, <1>8, <1>9, <1>10 DEF RowStep

-----------------------------------------------------------------------------
(* What one step may do to one execution.                                  *)

\* It goes on, ends, or is left alone, with its identity.
Calm(k) ==
    /\ exec'[k].token = exec[k].token
    /\ exec'[k].pc = "None" <=> exec[k].pc = "None"
    /\ exec'[k].cand \in {0, exec[k].cand}
    /\ exec'[k].host \in {NoWorker, exec[k].host}
    /\ exec'[k].pc \in Working =>
          /\ exec[k].pc \in Working
          /\ exec[k].pc = "Capture" => exec'[k].pc = "Capture"
          /\ exec'[k].cand = exec[k].cand
          /\ exec'[k].host = exec[k].host

\* It learns its candidates.
Captures(k) ==
    /\ exec[k].pc = "Capture"
    /\ exec'[k] = [exec[k] EXCEPT !.pc = "Filter", !.cand = Snapshot(k)]
    /\ report'[k[1]].cand = Snapshot(k)

\* The end of an execution is calm.
LEMMA EndCalm ==
    ASSUME TypeOK, NEW j \in Claim, NEW verdict, End(j, verdict),
           exec[j].pc \in Working, NEW k \in Claim
    PROVE  Calm(k)
<1>1. CASE k = j
  <2>1. /\ exec'[k].pc = "Ended"
        /\ exec'[k].token = exec[k].token
        /\ exec'[k].cand = 0
        /\ exec'[k].host \in {NoWorker, exec[k].host}
    BY <1>1 DEF End, TypeOK, NoExec
  <2>2. QED
    BY <1>1, <2>1 DEF Calm, Working
<1>2. CASE k # j
  <2>1. exec'[k] = exec[k]
    BY <1>2 DEF End, TypeOK
  <2>2. QED
    BY <2>1 DEF Calm
<1>3. QED
  BY <1>1, <1>2

\* Every step but a claim is calm or captures candidates.
LEMMA ExecSteps ==
    ASSUME TypeOK, Tokens, [Next]_vars
    PROVE  \/ \E k \in Claim : Claims(k)
           \/ /\ nextToken' = nextToken
              /\ \A k \in Claim : Calm(k) \/ Captures(k)
<1> USE DEF Working
<1>0. /\ exec \in [Claim -> ExecRecord]
      /\ \A k \in Claim : exec[k] \in ExecRecord /\ k[1] \in Report
      /\ report \in [Report -> ReportRecord]
      /\ \A r \in Report : report[r] \in ReportRecord
  BY DEF TypeOK, Claim
<1> DEFINE Goal == /\ nextToken' = nextToken
                   /\ \A k \in Claim : Calm(k) \/ Captures(k)
<1>1. ASSUME exec' = exec, nextToken' = nextToken PROVE Goal
  BY <1>1 DEF Calm
<1>2. ASSUME NEW j \in Claim, Capture(j) PROVE Goal
  <2>1. CASE End(j, "retry")
    BY <1>2, <2>1, EndCalm DEF Capture
  <2>2. CASE /\ report' = [report EXCEPT ![j[1]].cand = Snapshot(j)]
             /\ exec' = [exec EXCEPT ![j] = [exec[j] EXCEPT !.pc = "Filter",
                                                           !.cand = Snapshot(j)]]
    <3>1. Captures(j)
      BY <1>0, <1>2, <2>2 DEF Capture, Captures, ReportRecord
    <3>2. \A k \in Claim \ {j} : exec'[k] = exec[k]
      BY <1>0, <2>2
    <3>3. QED
      BY <1>2, <3>1, <3>2 DEF Calm, Capture
  <2>3. QED
    BY <1>2, <2>1, <2>2 DEF Capture
<1>3. ASSUME NEW j \in Claim, Filter(j) PROVE Goal
  BY <1>0, <1>3, EndCalm DEF Filter, Goto, Calm, ExecRecord
<1>4. ASSUME NEW j \in Claim, BeginCall(j) PROVE Goal
  <2>1. CASE End(j, "retry")
    BY <1>4, <2>1, EndCalm DEF BeginCall
  <2>2. CASE exec' = [exec EXCEPT ![j] = [exec[j] EXCEPT !.pc = "Await",
                                                        !.lost = FALSE]]
    BY <1>0, <1>4, <2>2 DEF BeginCall, Calm, ExecRecord
  <2>3. QED
    BY <1>4, <2>1, <2>2 DEF BeginCall
<1>5. ASSUME NEW j \in Claim, HeartbeatLost(j) PROVE Goal
  BY <1>0, <1>5 DEF HeartbeatLost, Calm, ExecRecord
<1>6. ASSUME NEW j \in Claim, NEW result, Answer(j, result) PROVE Goal
  BY <1>0, <1>6 DEF Answer, Calm, ExecRecord
<1>7. ASSUME NEW j \in Claim, Settle(j) PROVE Goal
  <2>1. CASE \E verdict \in {"ok", "retry", "final"} : End(j, verdict)
    BY <1>7, <2>1, EndCalm DEF Settle
  <2>2. CASE exec' = [exec EXCEPT ![j] =
                        [exec[j] EXCEPT
                           !.pc = IF AnotherCall(j) THEN "Begin" ELSE "Recheck",
                           !.call = IF AnotherCall(j) THEN @ + 1 ELSE @,
                           !.result = "NONE"]]
    BY <1>0, <1>7, <2>2 DEF Settle, Calm, ExecRecord
  <2>3. QED
    BY <1>7, <2>1, <2>2 DEF Settle
<1>8. ASSUME NEW j \in Claim, NEW p \in Purpose, LateAnswer(j, p) PROVE Goal
  <2>1. exec'[j] = [exec[j] EXCEPT !.late = @ \ {p},
                      !.host = IF exec[j].pc = "Ended" /\ exec[j].late = {p}
                               THEN NoWorker ELSE @]
    BY <1>0, <1>8 DEF LateAnswer
  <2>2. Calm(j)
    BY <1>0, <2>1 DEF Calm, ExecRecord
  <2>3. \A k \in Claim \ {j} : exec'[k] = exec[k]
    BY <1>0, <1>8 DEF LateAnswer
  <2>4. QED
    BY <1>8, <2>2, <2>3 DEF Calm, LateAnswer
<1>9. ASSUME NEW j \in Claim, Recheck(j) PROVE Goal
  BY <1>0, <1>9, EndCalm DEF Recheck, Goto, Calm, ExecRecord
<1>10. ASSUME NEW j \in Claim, Complete(j) PROVE Goal
  BY <1>10, EndCalm DEF Complete
<1>11. ASSUME NEW j \in Claim, ExecError(j) PROVE Goal
  BY <1>11, EndCalm DEF ExecError
<1>12. ASSUME NEW w \in Worker, Deadline(w) PROVE Goal
  BY <1>0, <1>12 DEF Deadline, Calm, ExecRecord
<1>13. ASSUME NEW w \in Worker, Crash(w) PROVE Goal
  <2>1. ASSUME NEW k \in Claim PROVE Calm(k)
    <3>1. CASE exec[k].host # w
      BY <1>13, <3>1 DEF Crash, Calm
    <3>2. CASE exec[k].host = w
      <4>1. exec[k].pc # "None"
        BY <3>2, ReportAssumption DEF Tokens
      <4>2. exec'[k] = [NoExec EXCEPT !.pc = "Ended", !.token = exec[k].token]
        BY <1>13, <3>2 DEF Crash
      <4>3. QED
        BY <4>1, <4>2 DEF Calm, NoExec
    <3>3. QED
      BY <3>1, <3>2
  <2>2. QED
    BY <1>13, <2>1 DEF Crash
<1>14. QED
  BY <1>1, <1>2, <1>3, <1>4, <1>5, <1>6, <1>7, <1>8, <1>9, <1>10, <1>11, <1>12,
     <1>13, ClaimFacts
  DEF Next, Environment, ExecStep, Progress, WorkerStep, Poll, vars,
      Request, Retry, DeleteUser, Withdraw, Elapse, Heartbeat, SweepOnly,
      RecoverUsage, Fail, Restart

-----------------------------------------------------------------------------
(* Rows, candidates and tokens.                                            *)

\* The empty table is good.
LEMMA RowsInit == Init => RowsInv
<1> SUFFICES ASSUME Init PROVE RowsInv
  OBVIOUS
<1>1. TypeOK
  BY TypeInit
<1>2. Rows
  BY ReportAssumption DEF Init, Rows, RowOK, NoReport
<1>3. Candidates
  BY DEF Init, Candidates, NoExec, Working
<1>4. Tokens
  BY DEF Init, Tokens, NoExec
<1>5. QED
  BY <1>1, <1>2, <1>3, <1>4 DEF RowsInv

\* Rows stay good because each row does; candidates and tokens because a report
\* that has candidates keeps them and attempts only grow.
LEMMA RowsStep == RowsInv /\ [Next]_vars => RowsInv'
<1> USE ReportAssumption
<1> SUFFICES ASSUME RowsInv, [Next]_vars PROVE RowsInv'
  OBVIOUS
<1>1. TypeOK /\ Rows /\ Candidates /\ Tokens
  BY DEF RowsInv
<1>2. TypeOK'
  BY <1>1, TypeStep
<1>3. \A r \in Report :
        /\ RowOK(report'[r])
        /\ report[r].status = "DELETED" => report'[r] = report[r]
        /\ \/ report'[r].status = "DELETED"
           \/ report[r].cand = 0
           \/ report'[r].cand = report[r].cand
        /\ report'[r].status = "DELETED" \/ report'[r].attempt >= report[r].attempt
  BY <1>1, RowSteps, RowStepKeeps DEF Rows
<1>4. Rows'
  BY <1>3 DEF Rows, RowOK, NoReport
<1>5. /\ \A r \in Report : /\ report[r].cand \in Nat /\ report'[r].cand \in Nat
                          /\ report[r].attempt \in Nat /\ report'[r].attempt \in Nat
      /\ \A k \in Claim : /\ k[1] \in Report /\ k[2] \in Nat
                          /\ exec[k] \in ExecRecord
                          /\ exec[k].token \in Nat
      /\ nextToken \in Nat \ {0}
  BY <1>1, <1>2 DEF TypeOK, Claim, Attempt, ReportRecord, ExecRecord
<1> DEFINE CandOK(k) ==
             /\ exec[k].pc \in Working \ {"Capture"} => exec[k].cand # 0
             /\ exec[k].cand # 0 /\ report[k[1]].status # "DELETED"
                => report[k[1]].cand = exec[k].cand
           TokenOK(k) ==
             /\ exec[k].token < nextToken
             /\ exec[k].pc = "None" <=> exec[k].token = 0
             /\ exec[k].pc = "None" => exec[k].host = NoWorker
             /\ k[2] > report[k[1]].attempt /\ report[k[1]].status # "DELETED"
                => exec[k].pc = "None"
<1>6. \A k \in Claim : CandOK(k) /\ TokenOK(k)
  BY <1>1 DEF Candidates, Tokens
<1>7. ASSUME NEW k \in Claim, Calm(k), nextToken' >= nextToken
      PROVE  CandOK(k)' /\ TokenOK(k)'
  <2>1. CandOK(k)'
    BY <1>3, <1>5, <1>6, <1>7 DEF Calm
  <2>2. TokenOK(k)'
    <3>1. nextToken' \in Nat
      BY <1>2 DEF TypeOK
    <3>2. exec'[k].token < nextToken'
      BY <1>5, <1>6, <1>7, <3>1 DEF Calm
    <3>3. /\ exec'[k].pc = "None" <=> exec'[k].token = 0
          /\ exec'[k].pc = "None" => exec'[k].host = NoWorker
      BY <1>6, <1>7 DEF Calm
    <3>4. ASSUME k[2] > report'[k[1]].attempt, report'[k[1]].status # "DELETED"
          PROVE  exec'[k].pc = "None"
      <4>1. k[2] > report[k[1]].attempt /\ report[k[1]].status # "DELETED"
        BY <1>3, <1>5, <3>4
      <4>2. QED
        BY <4>1, <1>6, <1>7 DEF Calm
    <3>5. QED
      BY <3>2, <3>3, <3>4
  <2>3. QED
    BY <2>1, <2>2
<1>8. ASSUME NEW k \in Claim, Captures(k), nextToken' = nextToken
      PROVE  CandOK(k)' /\ TokenOK(k)'
  <2>1. /\ exec'[k].pc = "Filter"
        /\ exec'[k].cand = Snapshot(k)
        /\ exec'[k].token = exec[k].token
        /\ exec[k].pc = "Capture"
    BY <1>5, <1>8 DEF Captures, ExecRecord
  <2>2. CandOK(k)'
    BY <1>6, <1>8, <2>1 DEF Captures, Snapshot
  <2>3. ASSUME k[2] > report'[k[1]].attempt, report'[k[1]].status # "DELETED"
        PROVE  FALSE
    <3>1. k[2] > report[k[1]].attempt /\ report[k[1]].status # "DELETED"
      BY <1>3, <1>5, <2>3
    <3>2. QED
      BY <3>1, <1>6, <2>1
  <2>4. QED
    BY <1>6, <1>8, <2>1, <2>2, <2>3
<1>9. ASSUME NEW k \in Claim, Claims(k) PROVE CandOK(k)' /\ TokenOK(k)'
  <2>1. /\ exec'[k].pc = IF report'[k[1]].cand = 0 THEN "Capture" ELSE "Filter"
        /\ exec'[k].token = nextToken
        /\ exec'[k].cand = report'[k[1]].cand
    BY <1>9 DEF Claims, Starts, NoExec
  <2>2. QED
    BY <1>5, <1>9, <2>1 DEF Claims, Starts
<1>10. \A k \in Claim : CandOK(k)' /\ TokenOK(k)'
  <2>1. CASE \E j \in Claim : Claims(j)
    <3>1. PICK j \in Claim : Claims(j)
      BY <2>1
    <3>2. \A k \in Claim \ {j} : Calm(k)
      BY <3>1 DEF Claims, Calm
    <3>3. nextToken' >= nextToken
      BY <1>5, <3>1 DEF Claims
    <3>4. QED
      BY <1>7, <1>9, <3>1, <3>2, <3>3
  <2>2. CASE nextToken' = nextToken /\ \A k \in Claim : Calm(k) \/ Captures(k)
    BY <1>5, <1>7, <1>8, <2>2
  <2>3. QED
    BY <1>1, <2>1, <2>2, ExecSteps
<1>11. Candidates' /\ Tokens'
  BY <1>10 DEF Candidates, Tokens
<1>12. QED
  BY <1>2, <1>4, <1>11 DEF RowsInv

\* Every reachable table is good, whoever wrote it last, and every execution works
\* on the candidates and under the token that belong to it.
THEOREM RowsInvCorrect == Spec => []RowsInv
BY RowsInit, RowsStep, PTL DEF Spec

\* No write runs into the CHECK constraints of weekly_reports.
THEOREM ChecksNeverFireCorrect == Spec => []ChecksNeverFire
<1>1. RowsInv => ChecksNeverFire
  <2> SUFFICES ASSUME RowsInv, NEW r \in Report
               PROVE  /\ report[r].status = "RUNNING" <=> report[r].token # 0
                      /\ report[r].status = "SUCCEEDED" <=> report[r].content # 0
                      /\ report[r].attempt =< TotalLimit
    BY DEF ChecksNeverFire
  <2>1. report[r].attempt =< TotalLimit
    BY ReportAssumption DEF RowsInv, TypeOK, ReportRecord
  <2>2. QED
    BY <2>1 DEF RowsInv, Rows, RowOK
<1>2. QED
  BY <1>1, RowsInvCorrect, PTL

\* What is queued can be claimed and what is retryable can be retried.
THEOREM NoStrandedReportCorrect == Spec => []NoStrandedReport
<1>1. RowsInv => NoStrandedReport
  BY DEF RowsInv, Rows, RowOK, NoStrandedReport
<1>2. QED
  BY <1>1, RowsInvCorrect, PTL

\* A finished report was written from the candidates that its row keeps.
THEOREM ContentFromSnapshotCorrect == Spec => []ContentFromSnapshot
<1>1. RowsInv => ContentFromSnapshot
  BY DEF RowsInv, Rows, RowOK, ContentFromSnapshot
<1>2. QED
  BY <1>1, RowsInvCorrect, PTL

\* Candidates are chosen once per report.
THEOREM SnapshotFixedCorrect == Spec => SnapshotFixed
<1>1. RowsInv /\ [Next]_vars =>
        [\A r \in Report :
           report[r].cand # 0 /\ report'[r].status # "DELETED"
           => report'[r].cand = report[r].cand]_vars
  BY RowSteps, RowStepKeeps DEF RowsInv, Rows
<1>2. QED
  BY <1>1, RowsInvCorrect, PTL DEF Spec, SnapshotFixed

-----------------------------------------------------------------------------
(* Workers and the executions they wait for.                               *)

\* No execution becomes one that is waited for, and none changes its host.
Unhosted(k) ==
    exec'[k].pc \in Working =>
       /\ exec[k].pc \in Working
       /\ exec'[k].host = exec[k].host
       /\ \/ exec'[k].dropped
          \/ /\ ~exec[k].dropped
             /\ worker'[exec[k].host] = worker[exec[k].host]

\* A worker is done with its claim, gives it up, or goes on waiting for it.
Waits(w) ==
    \/ worker'[w].pc \in {"Idle", "Down"} /\ worker'[w].claim = NoClaim
    \/ /\ worker'[w].pc = "Fail"
       /\ worker'[w].claim = worker[w].claim
       /\ worker[w].claim # NoClaim
    \/ /\ worker'[w] = worker[w]
       /\ worker[w].pc = "Run" =>
            /\ exec'[worker[w].claim].pc \in Working
            /\ exec'[worker[w].claim].host = w
            /\ ~exec'[worker[w].claim].dropped

Hosting ==
    /\ \A k \in Claim : Unhosted(k)
    /\ \A w \in Worker : Waits(w)

\* The lease invariant in the form in which the steps use it.
LEMMA LeaseFacts ==
    ASSUME LeaseInv
    PROVE  /\ \A w \in Worker :
                /\ worker[w] \in WorkerRecord
                /\ worker[w].pc \in {"Run", "Fail"} <=> worker[w].claim # NoClaim
                /\ worker[w].pc \in {"Run", "Fail"} => worker[w].claim \in Claim
                /\ worker[w].pc = "Run" =>
                     /\ exec[worker[w].claim].host = w
                     /\ exec[worker[w].claim].pc \in Working
                     /\ ~exec[worker[w].claim].dropped
           /\ \A k \in Claim :
                /\ exec[k] \in ExecRecord
                /\ exec[k].pc \in Working /\ ~exec[k].dropped =>
                     /\ exec[k].host \in Worker
                     /\ worker[exec[k].host].pc = "Run"
                     /\ worker[exec[k].host].claim = k
<1>1. /\ \A w \in Worker : worker[w] \in WorkerRecord
      /\ \A k \in Claim : exec[k] \in ExecRecord
  BY DEF LeaseInv, RowsInv, TypeOK
<1>2. \A w \in Worker :
        /\ worker[w].pc \in {"Run", "Fail"} <=> worker[w].claim # NoClaim
        /\ worker[w].pc \in {"Run", "Fail"} => worker[w].claim \in Claim
  BY <1>1 DEF LeaseInv, Hosts, WorkerRecord
<1>3. \A k \in Claim : exec[k].pc \notin {"None", "Ended"} <=> exec[k].pc \in Working
  BY <1>1 DEF ExecRecord, Working
<1>4. \A w \in Worker :
        worker[w].pc = "Run" =>
          /\ exec[worker[w].claim].host = w
          /\ exec[worker[w].claim].pc \in Working
          /\ ~exec[worker[w].claim].dropped
  BY <1>2, <1>3 DEF LeaseInv, ExclusiveClaims
<1>5. QED
  BY <1>1, <1>2, <1>4 DEF LeaseInv, Hosts

\* Steps of executions that go on.
LEMMA GoOnHosting ==
    ASSUME LeaseInv, worker' = worker,
           \A k \in Claim :
             /\ exec'[k].pc \in Working <=> exec[k].pc \in Working
             /\ exec[k].pc \in Working =>
                   /\ exec'[k].host = exec[k].host
                   /\ exec'[k].dropped = exec[k].dropped
    PROVE  Hosting
BY LeaseFacts DEF Hosting, Unhosted, Waits, WorkerRecord

\* The end of an execution concerns its own worker only.
LEMMA EndHosting ==
    ASSUME LeaseInv, NEW j \in Claim, NEW verdict, End(j, verdict),
           exec[j].pc \in Working
    PROVE  Hosting
<1>1. /\ exec \in [Claim -> ExecRecord]
      /\ worker \in [Worker -> WorkerRecord]
  BY DEF LeaseInv, RowsInv, TypeOK
<1>2. exec'[j].pc = "Ended" /\ \A k \in Claim \ {j} : exec'[k] = exec[k]
  BY <1>1 DEF End, NoExec
<1>3. exec'[j].pc \notin Working
  BY <1>2 DEF Working
<1>4. \/ exec[j].dropped /\ worker' = worker
      \/ /\ ~exec[j].dropped
         /\ \A w \in Worker : w # exec[j].host => worker'[w] = worker[w]
         /\ worker'[exec[j].host] = IF verdict = "ok" THEN IdleWorker
               ELSE [pc |-> "Fail", claim |-> j, retryable |-> verdict = "retry"]
  BY <1>1, LeaseFacts DEF End
<1>5. ASSUME NEW k \in Claim PROVE Unhosted(k)
  BY <1>2, <1>3, <1>4, LeaseFacts DEF Unhosted
<1>6. ASSUME NEW w \in Worker PROVE Waits(w)
  <2>1. CASE ~exec[j].dropped /\ w = exec[j].host
    <3>1. worker[w].claim = j /\ worker[w].claim # NoClaim
      BY <2>1, LeaseFacts
    <3>2. \/ worker'[w] = IdleWorker
          \/ worker'[w].pc = "Fail" /\ worker'[w].claim = j
      BY <1>4, <2>1
    <3>3. QED
      BY <3>1, <3>2 DEF Waits, IdleWorker
  <2>2. CASE exec[j].dropped \/ w # exec[j].host
    <3>1. worker'[w] = worker[w]
      BY <1>4, <2>2
    <3>2. worker[w].pc = "Run" => worker[w].claim \in Claim \ {j}
      BY <2>2, LeaseFacts
    <3>3. QED
      BY <1>1, <1>2, <3>1, <3>2, LeaseFacts DEF Waits, WorkerRecord
  <2>3. QED
    BY <2>1, <2>2
<1>7. QED
  BY <1>5, <1>6 DEF Hosting

\* Every step but a claim leaves the others' executions alone.
LEMMA HostingSteps ==
    ASSUME LeaseInv, [Next]_vars
    PROVE  Hosting \/ \E k \in Claim : Claims(k)
<1>0. /\ exec \in [Claim -> ExecRecord]
      /\ worker \in [Worker -> WorkerRecord]
      /\ \A k \in Claim : exec[k] \in ExecRecord
      /\ TypeOK /\ Tokens
  BY DEF LeaseInv, RowsInv, TypeOK
<1>1. ASSUME exec' = exec, worker' = worker PROVE Hosting
  BY <1>1, GoOnHosting
<1>2. ASSUME NEW j \in Claim, Progress(j) PROVE Hosting
  <2>1. exec[j].pc \in Working
    BY <1>2 DEF Progress, Capture, Filter, BeginCall, Answer, Settle, Recheck,
                Complete, ExecError, Working
  <2>2. CASE \E verdict \in {"ok", "retry", "final"} : End(j, verdict)
    BY <2>1, <2>2, EndHosting
  <2>3. CASE /\ worker' = worker
             /\ \A k \in Claim \ {j} : exec'[k] = exec[k]
             /\ exec'[j].pc \in Working
             /\ exec'[j].host = exec[j].host
             /\ exec'[j].dropped = exec[j].dropped
    BY <1>0, <2>1, <2>3, GoOnHosting
  <2>4. QED
    <3>1. CASE Capture(j)
      <4>1. CASE End(j, "retry")
        BY <2>2, <4>1
      <4>2. CASE /\ worker' = worker
                 /\ exec' = [exec EXCEPT ![j] = [exec[j] EXCEPT !.pc = "Filter",
                                                   !.cand = Snapshot(j)]]
        BY <1>0, <2>3, <4>2 DEF ExecRecord, Working
      <4>3. QED
        BY <3>1, <4>1, <4>2 DEF Capture
    <3>2. CASE Filter(j)
      BY <1>0, <2>2, <2>3, <3>2 DEF Filter, Goto, ExecRecord, Working
    <3>3. CASE BeginCall(j)
      <4>1. CASE End(j, "retry")
        BY <2>2, <4>1
      <4>2. CASE /\ worker' = worker
                 /\ exec' = [exec EXCEPT ![j] = [exec[j] EXCEPT !.pc = "Await",
                                                   !.lost = FALSE]]
        BY <1>0, <2>3, <4>2 DEF ExecRecord, Working
      <4>3. QED
        BY <3>3, <4>1, <4>2 DEF BeginCall
    <3>4. ASSUME NEW result, Answer(j, result) PROVE Hosting
      BY <1>0, <2>3, <3>4 DEF Answer, ExecRecord, Working
    <3>5. CASE Settle(j)
      <4>1. CASE \E verdict \in {"ok", "retry", "final"} : End(j, verdict)
        BY <2>2, <4>1
      <4>2. CASE /\ worker' = worker
                 /\ exec' = [exec EXCEPT ![j] =
                     [exec[j] EXCEPT
                        !.pc = IF AnotherCall(j) THEN "Begin" ELSE "Recheck",
                        !.call = IF AnotherCall(j) THEN @ + 1 ELSE @,
                        !.result = "NONE"]]
        BY <1>0, <2>3, <4>2 DEF ExecRecord, Working
      <4>3. QED
        BY <3>5, <4>1, <4>2 DEF Settle
    <3>6. CASE Recheck(j)
      BY <1>0, <2>2, <2>3, <3>6 DEF Recheck, Goto, ExecRecord, Working
    <3>7. CASE Complete(j) \/ ExecError(j)
      BY <2>2, <3>7 DEF Complete, ExecError
    <3>8. QED
      BY <1>2, <3>1, <3>2, <3>3, <3>4, <3>5, <3>6, <3>7 DEF Progress
<1>3. ASSUME NEW j \in Claim, HeartbeatLost(j) PROVE Hosting
  BY <1>0, <1>3, GoOnHosting DEF HeartbeatLost, ExecRecord
<1>4. ASSUME NEW j \in Claim, NEW p \in Purpose, LateAnswer(j, p) PROVE Hosting
  <2>1. exec'[j] = [exec[j] EXCEPT !.late = @ \ {p},
                      !.host = IF exec[j].pc = "Ended" /\ exec[j].late = {p}
                               THEN NoWorker ELSE @]
    BY <1>0, <1>4 DEF LateAnswer
  <2>2. /\ exec'[j].pc = exec[j].pc
        /\ exec'[j].dropped = exec[j].dropped
        /\ exec[j].pc \in Working => exec'[j].host = exec[j].host
    BY <1>0, <2>1 DEF ExecRecord, Working
  <2>3. \A k \in Claim \ {j} : exec'[k] = exec[k]
    BY <1>0, <1>4 DEF LateAnswer
  <2>4. QED
    BY <1>4, <2>2, <2>3, GoOnHosting DEF LateAnswer
<1>5. ASSUME NEW w \in Worker, Deadline(w) PROVE Hosting
  <2>1. worker[w].claim \in Claim
    BY <1>5, LeaseFacts DEF Deadline
  <2>2. /\ exec'[worker[w].claim] = [exec[worker[w].claim] EXCEPT !.dropped = TRUE]
        /\ \A k \in Claim : k # worker[w].claim => exec'[k] = exec[k]
    BY <1>0, <1>5, <2>1 DEF Deadline
  <2>3. /\ worker'[w].pc = "Fail"
        /\ worker'[w].claim = worker[w].claim
        /\ \A v \in Worker : v # w => worker'[v] = worker[v]
    BY <1>0, <1>5 DEF Deadline, WorkerRecord
  <2>4. ASSUME NEW k \in Claim PROVE Unhosted(k)
    <3>1. CASE k = worker[w].claim
      BY <1>0, <2>2, <3>1 DEF Unhosted, ExecRecord
    <3>2. CASE k # worker[w].claim
      BY <2>2, <2>3, <3>2, LeaseFacts DEF Unhosted
    <3>3. QED
      BY <3>1, <3>2
  <2>5. ASSUME NEW v \in Worker PROVE Waits(v)
    <3>1. CASE v = w
      BY <1>5, <2>3, <3>1, LeaseFacts DEF Deadline, Waits
    <3>2. CASE v # w
      <4>1. worker[v].pc = "Run" => worker[v].claim # worker[w].claim
        BY <3>2, <1>5, LeaseFacts DEF Deadline
      <4>2. QED
        BY <2>2, <2>3, <3>2, <4>1, LeaseFacts DEF Waits, WorkerRecord
    <3>3. QED
      BY <3>1, <3>2
  <2>6. QED
    BY <2>4, <2>5 DEF Hosting
<1>6. ASSUME NEW w \in Worker, Fail(w) \/ Restart(w) PROVE Hosting
  <2>1. /\ worker[w].pc # "Run"
        /\ worker'[w] = IdleWorker
        /\ \A v \in Worker : v # w => worker'[v] = worker[v]
        /\ exec' = exec
    BY <1>0, <1>6 DEF Fail, Restart
  <2>2. QED
    BY <2>1, LeaseFacts DEF Hosting, Unhosted, Waits, IdleWorker, WorkerRecord
<1>7. ASSUME NEW w \in Worker, Crash(w) PROVE Hosting
  <2>1. /\ worker'[w] = [IdleWorker EXCEPT !.pc = "Down"]
        /\ \A v \in Worker : v # w => worker'[v] = worker[v]
    BY <1>0, <1>7 DEF Crash
  <2>2. \A k \in Claim :
          IF exec[k].host = w THEN exec'[k].pc = "Ended" ELSE exec'[k] = exec[k]
    BY <1>7 DEF Crash, NoExec
  <2>3. QED
    BY <2>1, <2>2, LeaseFacts
    DEF Hosting, Unhosted, Waits, IdleWorker, WorkerRecord, Working
<1>8. QED
  BY <1>0, <1>1, <1>2, <1>3, <1>4, <1>5, <1>6, <1>7, ClaimFacts
  DEF Next, Environment, ExecStep, WorkerStep, Poll, vars,
      Request, Retry, DeleteUser, Withdraw, Elapse, Heartbeat, SweepOnly,
      RecoverUsage

\* Nobody holds a claim initially.
LEMMA LeaseInit == Init => LeaseInv
<1> SUFFICES ASSUME Init PROVE LeaseInv
  OBVIOUS
<1>1. RowsInv
  BY RowsInit
<1>2. ExclusiveClaims
  BY ReportAssumption
  DEF Init, ExclusiveClaims, NoReport, NoExec, IdleWorker, Claim
<1>3. Hosts
  BY DEF Init, Hosts, NoExec, IdleWorker, Working
<1>4. QED
  BY <1>1, <1>2, <1>3 DEF LeaseInv

\* A claim is new: nobody had it, and no execution had its token.
LEMMA ClaimIsNew ==
    ASSUME LeaseInv, NEW k \in Claim, Claims(k)
    PROVE  /\ exec[k].pc = "None"
           /\ \A j \in Claim : exec[j].token # nextToken
           /\ \A w \in Worker : worker[w].claim # k
<1>1. /\ k[1] \in Report /\ k[2] \in Nat
      /\ report[k[1]].attempt \in Nat
      /\ nextToken \in Nat
      /\ \A j \in Claim : exec[j].token \in Nat
  BY ReportAssumption
  DEF LeaseInv, RowsInv, TypeOK, Claim, Attempt, ReportRecord, ExecRecord
<1>2. exec[k].pc = "None"
  BY <1>1 DEF Claims, Starts, LeaseInv, RowsInv, Tokens
<1>3. \A j \in Claim : exec[j].token # nextToken
  BY <1>1 DEF LeaseInv, RowsInv, Tokens
<1>4. \A w \in Worker : worker[w].claim # k
  BY <1>2, ReportAssumption DEF LeaseInv, Hosts
<1>5. QED
  BY <1>2, <1>3, <1>4

\* A row that is RUNNING after a step was so before, under the same claim,
\* unless the step is the claim.
LEMMA RunningRow ==
    ASSUME LeaseInv, [Next]_vars, NEW r \in Report, report'[r].status = "RUNNING"
    PROVE  \/ \E k \in Claim : k[1] = r /\ Claims(k)
           \/ /\ report[r].status = "RUNNING"
              /\ report'[r].attempt = report[r].attempt
              /\ report'[r].token = report[r].token
<1>1. report[r] \in ReportRecord
  BY DEF LeaseInv, RowsInv, TypeOK
<1>2. RowStep(r)
  BY RowSteps DEF LeaseInv, RowsInv
<1>3. CASE ClaimRow(r)
  BY <1>3 DEF ClaimRow
<1>4. CASE SweepRow(r) \/ FailRow(r)
  BY <1>1, <1>4 DEF SweepRow, FailRow, Swept, FailedRow, ReportRecord
<1>5. CASE RequestRow(r) \/ RetryRow(r) \/ DeleteRow(r) \/ CompleteRow(r)
  BY <1>1, <1>5
  DEF RequestRow, RetryRow, DeleteRow, CompleteRow, Retried, NoReport, ReportRecord
<1>6. CASE report'[r] = report[r] \/ TimeRow(r) \/ CaptureRow(r)
  BY <1>1, <1>6 DEF TimeRow, CaptureRow, ReportRecord
<1>7. QED
  BY <1>2, <1>3, <1>4, <1>5, <1>6 DEF RowStep

\* A claim hands out what nobody has; every other step only gives claims up.
LEMMA LeaseStep == LeaseInv /\ [Next]_vars => LeaseInv'
<1> USE ReportAssumption
<1> SUFFICES ASSUME LeaseInv, [Next]_vars PROVE LeaseInv'
  OBVIOUS
<1>0. RowsInv'
  BY RowsStep DEF LeaseInv
<1>1. TypeOK /\ TypeOK' /\ Tokens
  BY <1>0 DEF LeaseInv, RowsInv
<1>2. \A k \in Claim : /\ k[1] \in Report /\ k[2] \in Nat /\ k = <<k[1], k[2]>>
                       /\ exec[k] \in ExecRecord
                       /\ exec[k].token \in Nat
  BY <1>1 DEF TypeOK, Claim, Attempt, ExecRecord
<1>3. CASE \E k \in Claim : Claims(k)
  <2>1. PICK k \in Claim : Claims(k)
    BY <1>3
  <2>2. PICK w \in Worker :
          /\ worker[w].pc = "Idle"
          /\ exec'[k] = [NoExec EXCEPT
                !.pc = IF report'[k[1]].cand = 0 THEN "Capture" ELSE "Filter",
                !.token = nextToken, !.host = w, !.cand = report'[k[1]].cand]
          /\ worker' = [worker EXCEPT ![w] = [pc |-> "Run", claim |-> k,
                                             retryable |-> FALSE]]
    BY <2>1 DEF Claims, Starts
  <2>3. /\ exec'[k].pc \in {"Capture", "Filter"}
        /\ exec'[k].token = nextToken
        /\ exec'[k].host = w
        /\ ~exec'[k].dropped
    BY <2>2 DEF NoExec
  <2>4. /\ worker'[w].pc = "Run"
        /\ worker'[w].claim = k
        /\ \A v \in Worker : v # w => worker'[v] = worker[v]
    BY <1>1, <2>2 DEF TypeOK
  <2>5. \A j \in Claim \ {k} : exec'[j] = exec[j]
    BY <2>1 DEF Claims
  <2>6. /\ exec[k].pc = "None"
        /\ \A j \in Claim : exec[j].token # nextToken
        /\ \A v \in Worker : worker[v].claim # k
    BY <2>1, ClaimIsNew
  <2>7. ASSUME NEW j \in Claim,
               report'[j[1]].status = "RUNNING", report'[j[1]].attempt = j[2]
        PROVE  report'[j[1]].token = exec'[j].token
    <3>1. CASE j = k
      BY <2>1, <2>3, <3>1 DEF Claims, Starts
    <3>2. CASE j # k
      <4>1. exec'[j] = exec[j]
        BY <2>5, <3>2
      <4>2. CASE \E i \in Claim : i[1] = j[1] /\ Claims(i)
        <5>1. PICK i \in Claim : i[1] = j[1] /\ Claims(i)
          BY <4>2
        <5>2. i[2] = j[2]
          BY <2>7, <5>1 DEF Claims, Starts
        <5>3. i = j
          BY <1>2, <5>1, <5>2
        <5>4. exec'[j].token = nextToken
          BY <5>1, <5>3 DEF Claims, Starts, NoExec
        <5>5. QED
          BY <2>6, <4>1, <5>4
      <4>3. CASE /\ report[j[1]].status = "RUNNING"
                 /\ report'[j[1]].attempt = report[j[1]].attempt
                 /\ report'[j[1]].token = report[j[1]].token
        BY <2>7, <4>1, <4>3 DEF LeaseInv, ExclusiveClaims
      <4>4. QED
        BY <1>2, <2>7, <4>2, <4>3, RunningRow
    <3>3. QED
      BY <3>1, <3>2
  <2>8. ASSUME NEW i \in Claim, NEW j \in Claim, i # j, exec'[i].token # 0
        PROVE  exec'[i].token # exec'[j].token
    <3>1. CASE i = k \/ j = k
      BY <2>3, <2>5, <2>6, <2>8, <3>1
    <3>2. CASE i # k /\ j # k
      BY <2>5, <2>8, <3>2 DEF LeaseInv, ExclusiveClaims
    <3>3. QED
      BY <3>1, <3>2
  <2>9. \A u, v \in Worker :
          u # v /\ worker'[u].claim # NoClaim => worker'[u].claim # worker'[v].claim
    BY <2>4, <2>6 DEF LeaseInv, ExclusiveClaims
  <2>10. \A v \in Worker :
           worker'[v].pc = "Run" =>
              /\ exec'[worker'[v].claim].host = v
              /\ exec'[worker'[v].claim].pc \notin {"None", "Ended"}
              /\ ~exec'[worker'[v].claim].dropped
    BY <2>3, <2>4, <2>5, <2>6, LeaseFacts DEF Working
  <2>11. ExclusiveClaims'
    BY <2>7, <2>8, <2>9, <2>10 DEF ExclusiveClaims
  <2>12. \A j \in Claim :
           exec'[j].pc \in Working =>
             /\ exec'[j].host \in Worker
             /\ \/ exec'[j].dropped
                \/ /\ worker'[exec'[j].host].pc = "Run"
                   /\ worker'[exec'[j].host].claim = j
    <3>1. ASSUME NEW j \in Claim \ {k}, exec[j].pc \in Working
          PROVE  /\ exec[j].host \in Worker
                 /\ exec[j].dropped \/ /\ exec[j].host # w
                                       /\ worker[exec[j].host].pc = "Run"
                                       /\ worker[exec[j].host].claim = j
      BY <2>2, <3>1 DEF LeaseInv, Hosts
    <3>2. QED
      BY <2>3, <2>4, <2>5, <3>1
  <2>13. \A v \in Worker :
           /\ worker'[v].pc \in {"Run", "Fail"} <=> worker'[v].claim # NoClaim
           /\ worker'[v].claim # NoClaim => exec'[worker'[v].claim].pc # "None"
    <3>1. \A v \in Worker : worker[v].claim # NoClaim => worker[v].claim \in Claim
      BY LeaseFacts
    <3>2. QED
      BY <2>3, <2>4, <2>5, <2>6, <3>1 DEF LeaseInv, Hosts
  <2>14. Hosts'
    BY <2>12, <2>13 DEF Hosts
  <2>15. QED
    BY <1>0, <2>11, <2>14 DEF LeaseInv
<1>4. CASE ~\E k \in Claim : Claims(k)
  <2>1. Hosting
    BY <1>4, HostingSteps
  <2>2. \A k \in Claim : /\ exec'[k].token = exec[k].token
                         /\ exec'[k].pc = "None" <=> exec[k].pc = "None"
    <3>1. ASSUME NEW k \in Claim, Captures(k)
          PROVE  exec'[k].token = exec[k].token /\ exec'[k].pc = "Filter"
      BY <1>2, <3>1 DEF Captures, ExecRecord
    <3>2. \A k \in Claim : Captures(k) => exec[k].pc # "None"
      BY DEF Captures
    <3>3. \A k \in Claim : Calm(k) \/ Captures(k)
      BY <1>1, <1>4, ExecSteps
    <3>4. QED
      BY <3>1, <3>2, <3>3 DEF Calm
  <2>3. \A j \in Claim :
          report'[j[1]].status = "RUNNING" /\ report'[j[1]].attempt = j[2]
          => report'[j[1]].token = exec'[j].token
    BY <1>2, <1>4, <2>2, RunningRow DEF LeaseInv, ExclusiveClaims
  <2>4. \A i, j \in Claim :
          i # j /\ exec'[i].token # 0 => exec'[i].token # exec'[j].token
    BY <2>2 DEF LeaseInv, ExclusiveClaims
  <2>5. \A u, v \in Worker :
          u # v /\ worker'[u].claim # NoClaim => worker'[u].claim # worker'[v].claim
    <3>1. \A v \in Worker : worker'[v].claim \in {NoClaim, worker[v].claim}
      BY <2>1 DEF Hosting, Waits
    <3>2. QED
      BY <3>1 DEF LeaseInv, ExclusiveClaims
  <2>6. \A v \in Worker :
          worker'[v].pc = "Run" =>
             /\ exec'[worker'[v].claim].host = v
             /\ exec'[worker'[v].claim].pc \notin {"None", "Ended"}
             /\ ~exec'[worker'[v].claim].dropped
    BY <2>1 DEF Hosting, Waits, Working
  <2>7. ExclusiveClaims'
    BY <2>3, <2>4, <2>5, <2>6 DEF ExclusiveClaims
  <2>8. \A k \in Claim :
          exec'[k].pc \in Working =>
             /\ exec'[k].host \in Worker
             /\ \/ exec'[k].dropped
                \/ /\ worker'[exec'[k].host].pc = "Run"
                   /\ worker'[exec'[k].host].claim = k
    BY <2>1 DEF Hosting, Unhosted, LeaseInv, Hosts
  <2>9. \A v \in Worker :
          /\ worker'[v].pc \in {"Run", "Fail"} <=> worker'[v].claim # NoClaim
          /\ worker'[v].claim # NoClaim => exec'[worker'[v].claim].pc # "None"
    BY <2>1, <2>2, LeaseFacts DEF Hosting, Waits, LeaseInv, Hosts
  <2>10. Hosts'
    BY <2>8, <2>9 DEF Hosts
  <2>11. QED
    BY <1>0, <2>7, <2>10 DEF LeaseInv
<1>5. QED
  BY <1>3, <1>4

\* In every reachable state claims are exclusive, and the execution a worker waits
\* for is the one it hosts.
THEOREM LeaseInvCorrect == Spec => []LeaseInv
BY LeaseInit, LeaseStep, PTL DEF Spec

\* A claim is never made twice and its lease is never anybody else's.
THEOREM ExclusiveClaimsCorrect == Spec => []ExclusiveClaims
<1>1. LeaseInv => ExclusiveClaims
  BY DEF LeaseInv
<1>2. QED
  BY <1>1, LeaseInvCorrect, PTL

-----------------------------------------------------------------------------
(* Provider calls and their usage rows.                                    *)

Uncalled == {"Capture", "Filter", "Begin"}

\* An execution makes its calls in order.
Goes(k) ==
    exec'[k].pc \in Working =>
       /\ exec[k].pc \in Working
       /\ exec'[k].call \in {exec[k].call, exec[k].call + 1}
       /\ exec'[k].pc \in Uncalled =>
            \/ exec[k].pc \in Uncalled /\ exec'[k].call = exec[k].call
            \/ exec'[k].call = exec[k].call + 1

\* The end of an execution makes no call.
LEMMA EndGoes ==
    ASSUME TypeOK, NEW j \in Claim, NEW verdict, End(j, verdict), NEW k \in Claim
    PROVE  Goes(k)
<1>1. CASE k = j
  <2>1. exec'[k].pc = "Ended"
    BY <1>1 DEF End, TypeOK, NoExec
  <2>2. QED
    BY <2>1 DEF Goes, Working
<1>2. CASE k # j
  <2>1. exec'[k] = exec[k]
    BY <1>2 DEF End, TypeOK
  <2>2. QED
    BY <2>1 DEF Goes
<1>3. QED
  BY <1>1, <1>2

\* Every step but a claim makes at most the next call of an execution.
LEMMA GoesSteps ==
    ASSUME TypeOK, [Next]_vars, ~\E k \in Claim : Claims(k), NEW k \in Claim
    PROVE  Goes(k)
<1> USE DEF Working, Uncalled
<1>0. /\ exec \in [Claim -> ExecRecord]
      /\ \A j \in Claim : exec[j] \in ExecRecord
      /\ exec[k].call \in Nat
  BY ReportAssumption DEF TypeOK, ExecRecord, Purpose
<1>1. ASSUME exec'[k] = exec[k] PROVE Goes(k)
  BY <1>1 DEF Goes
<1>2. ASSUME NEW j \in Claim, Progress(j) PROVE Goes(k)
  <2>1. CASE \E verdict \in {"ok", "retry", "final"} : End(j, verdict)
    BY <2>1, EndGoes
  <2>2. CASE \E pc \in {"Filter", "Begin", "Recheck", "Complete"} :
               /\ exec' = [exec EXCEPT ![j].pc = pc]
               /\ pc \in Uncalled => exec[j].pc \in Uncalled
               /\ exec[j].pc \in Working
    BY <1>0, <2>2 DEF Goes, ExecRecord
  <2>3. CASE Capture(j)
    <3>1. CASE End(j, "retry")
      BY <2>1, <3>1
    <3>2. CASE exec' = [exec EXCEPT ![j] = [exec[j] EXCEPT !.pc = "Filter",
                                                         !.cand = Snapshot(j)]]
      BY <1>0, <2>3, <3>2 DEF Capture, Goes, ExecRecord
    <3>3. QED
      BY <2>3, <3>1, <3>2 DEF Capture
  <2>4. CASE Filter(j) \/ Recheck(j)
    BY <2>1, <2>2, <2>4 DEF Filter, Recheck, Goto
  <2>5. CASE BeginCall(j)
    <3>1. CASE End(j, "retry")
      BY <2>1, <3>1
    <3>2. CASE exec' = [exec EXCEPT ![j] = [exec[j] EXCEPT !.pc = "Await",
                                                         !.lost = FALSE]]
      BY <1>0, <2>5, <3>2 DEF BeginCall, Goes, ExecRecord
    <3>3. QED
      BY <2>5, <3>1, <3>2 DEF BeginCall
  <2>6. ASSUME NEW result, Answer(j, result) PROVE Goes(k)
    BY <1>0, <2>6 DEF Answer, Goes, ExecRecord
  <2>7. CASE Settle(j)
    <3>1. CASE \E verdict \in {"ok", "retry", "final"} : End(j, verdict)
      BY <2>1, <3>1
    <3>2. CASE exec' = [exec EXCEPT ![j] =
                   [exec[j] EXCEPT
                      !.pc = IF AnotherCall(j) THEN "Begin" ELSE "Recheck",
                      !.call = IF AnotherCall(j) THEN @ + 1 ELSE @,
                      !.result = "NONE"]]
      BY <1>0, <2>7, <3>2 DEF Settle, Goes, ExecRecord
    <3>3. QED
      BY <2>7, <3>1, <3>2 DEF Settle
  <2>8. CASE Complete(j) \/ ExecError(j)
    BY <2>1, <2>8 DEF Complete, ExecError
  <2>9. QED
    BY <1>2, <2>3, <2>4, <2>5, <2>6, <2>7, <2>8 DEF Progress
<1>3. ASSUME NEW j \in Claim, HeartbeatLost(j) PROVE Goes(k)
  BY <1>0, <1>3 DEF HeartbeatLost, Goes, ExecRecord
<1>4. ASSUME NEW j \in Claim, NEW p \in Purpose, LateAnswer(j, p) PROVE Goes(k)
  <2>1. CASE k = j
    <3>1. exec'[k].pc = exec[k].pc /\ exec'[k].call = exec[k].call
      BY <1>0, <1>4, <2>1 DEF LateAnswer, ExecRecord
    <3>2. QED
      BY <3>1 DEF Goes
  <2>2. CASE k # j
    BY <1>0, <1>1, <1>4, <2>2 DEF LateAnswer
  <2>3. QED
    BY <2>1, <2>2
<1>5. ASSUME NEW w \in Worker, Deadline(w) PROVE Goes(k)
  <2>1. exec'[k].pc = exec[k].pc /\ exec'[k].call = exec[k].call
    BY <1>0, <1>5 DEF Deadline, ExecRecord
  <2>2. QED
    BY <2>1 DEF Goes
<1>6. ASSUME NEW w \in Worker, Crash(w) PROVE Goes(k)
  <2>1. exec'[k] = exec[k] \/ exec'[k].pc = "Ended"
    BY <1>6 DEF Crash, NoExec
  <2>2. QED
    BY <2>1 DEF Goes
<1>7. QED
  BY <1>1, <1>2, <1>3, <1>4, <1>5, <1>6, ClaimFacts
  DEF Next, Environment, ExecStep, WorkerStep, Poll, vars,
      Request, Retry, DeleteUser, Withdraw, Elapse, Heartbeat, SweepOnly,
      RecoverUsage, Fail, Restart

\* A usage row begins under a live lease, or its open outcome is settled.
Begins(k, p) ==
    /\ exec[k].pc = "Begin"
    /\ p = exec[k].call
    /\ report[k[1]].status = "RUNNING"
    /\ exec'[k].pc \in {"Await", "Ended"}

Settles(k, p) ==
    /\ usage[k][p] \in {"RUNNING", "UNKNOWN"}
    /\ usage'[k][p] # "RUNNING"

UsageStep(k, p) ==
    usage'[k][p] = usage[k][p] \/ Begins(k, p) \/ Settles(k, p)

\* Every step begins a call, settles an open one or leaves the row alone.
LEMMA UsageSteps ==
    ASSUME TypeOK, [Next]_vars, NEW k \in Claim, NEW p \in Purpose
    PROVE  UsageStep(k, p)
<1>0. /\ exec \in [Claim -> ExecRecord]
      /\ exec[k] \in ExecRecord
      /\ usage \in [Claim -> [Purpose -> UsageStatus]]
  BY DEF TypeOK
<1>1. ASSUME NEW j \in Claim, BeginCall(j) PROVE UsageStep(k, p)
  <2>1. CASE usage' = usage
    BY <2>1 DEF UsageStep
  <2>2. CASE /\ LeaseLive(j)
             /\ usage' = [usage EXCEPT ![j][exec[j].call] = "RUNNING"]
    <3>1. exec'[j].pc \in {"Await", "Ended"}
      <4>1. CASE End(j, "retry")
        BY <1>0, <4>1 DEF End, NoExec
      <4>2. CASE exec' = [exec EXCEPT ![j] = [exec[j] EXCEPT !.pc = "Await",
                                                           !.lost = FALSE]]
        BY <1>0, <4>2 DEF ExecRecord
      <4>3. QED
        BY <1>1, <2>2, <4>1, <4>2 DEF BeginCall
    <3>2. CASE k = j /\ p = exec[j].call
      BY <1>1, <2>2, <3>1, <3>2
      DEF BeginCall, LeaseLive, Holds, UsageStep, Begins
    <3>3. CASE ~(k = j /\ p = exec[j].call)
      BY <1>0, <2>2, <3>3 DEF UsageStep
    <3>4. QED
      BY <3>2, <3>3
  <2>3. QED
    BY <1>1, <2>1, <2>2 DEF BeginCall
<1>2. ASSUME NEW j \in Claim, NEW q \in Purpose, NEW result \in UsageStatus \ {"RUNNING"},
             usage' = Finished(j, q, result)
      PROVE  UsageStep(k, p)
  BY <1>0, <1>2 DEF Finished, UsageStep, Settles
<1>3. ASSUME NEW j \in Claim, Settle(j) PROVE UsageStep(k, p)
  <2>1. exec[j].call \in Purpose /\ exec[j].result \in UsageStatus \ {"RUNNING"}
    BY <1>0 DEF ExecRecord
  <2>2. QED
    BY <1>2, <1>3, <2>1 DEF Settle, UsageStep
<1>4. ASSUME NEW j \in Claim, NEW q \in Purpose, LateAnswer(j, q)
      PROVE  UsageStep(k, p)
  BY <1>2, <1>4 DEF LateAnswer, UsageStatus, Known
<1>5. ASSUME NEW S, usage' = ClosedCalls(S) PROVE UsageStep(k, p)
  BY <1>5 DEF ClosedCalls, UsageStep, Settles
<1>6. ASSUME NEW w \in Worker, NEW T \in SUBSET Abandoned, RecoverUsage(w, T)
      PROVE  UsageStep(k, p)
  <2>1. usage'[k][p] = IF <<k, p>> \in T THEN "UNKNOWN" ELSE usage[k][p]
    BY <1>6 DEF RecoverUsage
  <2>2. <<k, p>> \in T => usage[k][p] = "RUNNING"
    BY DEF Abandoned
  <2>3. QED
    BY <2>1, <2>2 DEF UsageStep, Settles
<1>7. CASE usage' = usage
  BY <1>7 DEF UsageStep
<1>8. QED
  BY <1>1, <1>3, <1>4, <1>5, <1>6, <1>7
  DEF Next, Environment, ExecStep, Progress, WorkerStep, Poll, vars,
      Request, Retry, DeleteUser, Withdraw, Elapse, ClaimReport, SweepOnly,
      Capture, Filter, Heartbeat, HeartbeatLost, Answer, Recheck, Complete,
      ExecError, Deadline, Fail, Crash, Restart

\* No call has been made initially.
LEMMA CallInit == Init => CallInv
<1> SUFFICES ASSUME Init PROVE CallInv
  OBVIOUS
<1>1. Calling
  BY ReportAssumption DEF Init, Calling, NoExec, Working, Purpose
<1>2. QED
  BY <1>1, RowsInit DEF CallInv

\* An execution never comes back to a call that it has begun.
LEMMA CallStep == CallInv /\ [Next]_vars => CallInv'
<1> USE ReportAssumption DEF Uncalled
<1> SUFFICES ASSUME CallInv, [Next]_vars PROVE CallInv'
  OBVIOUS
<1>0. RowsInv'
  BY RowsStep DEF CallInv
<1>1. TypeOK /\ TypeOK' /\ Tokens
  BY <1>0 DEF CallInv, RowsInv
<1> SUFFICES ASSUME NEW k \in Claim
             PROVE  /\ exec'[k].pc = "None" =>
                          \A p \in Purpose : usage'[k][p] = "NONE"
                    /\ exec'[k].pc \in Working =>
                          \A p \in Purpose : p > exec'[k].call => usage'[k][p] = "NONE"
                    /\ exec'[k].pc \in Uncalled => usage'[k][exec'[k].call] = "NONE"
  BY <1>0 DEF CallInv, Calling
<1>2. /\ exec[k].call \in Purpose /\ exec'[k].call \in Purpose
      /\ \A p \in Purpose : p \in Nat
  BY <1>1 DEF TypeOK, ExecRecord, Purpose
<1>3. ASSUME NEW p \in Purpose, usage[k][p] = "NONE"
      PROVE  usage'[k][p] = "NONE" \/ Begins(k, p)
  BY <1>1, <1>3, UsageSteps DEF UsageStep, Settles
<1>4. /\ exec[k].pc = "None" => \A p \in Purpose : usage[k][p] = "NONE"
      /\ exec[k].pc \in Working =>
            \A p \in Purpose : p > exec[k].call => usage[k][p] = "NONE"
      /\ exec[k].pc \in Uncalled => usage[k][exec[k].call] = "NONE"
  BY DEF CallInv, Calling
<1>5. CASE exec[k].pc = "None"
  <2>1. \A p \in Purpose : usage'[k][p] = "NONE"
    BY <1>3, <1>4, <1>5 DEF Begins
  <2>2. QED
    BY <1>2, <2>1
<1>6. CASE exec[k].pc # "None" /\ exec'[k].pc = "None"
  <2>1. CASE \E j \in Claim : Claims(j)
    <3>1. PICK j \in Claim : Claims(j)
      BY <2>1
    <3>2. CASE k = j
      BY <1>6, <3>1, <3>2 DEF Claims, Starts, NoExec
    <3>3. CASE k # j
      BY <1>6, <3>1, <3>3 DEF Claims
    <3>4. QED
      BY <3>2, <3>3
  <2>2. CASE Calm(k) \/ Captures(k)
    BY <1>1, <1>6, <2>2 DEF Calm, Captures, TypeOK, ExecRecord
  <2>3. QED
    BY <1>1, <2>1, <2>2, ExecSteps
<1>7. CASE exec[k].pc # "None" /\ Goes(k)
  <2>1. ASSUME exec'[k].pc \in Working, NEW p \in Purpose, p > exec'[k].call
        PROVE  usage'[k][p] = "NONE"
    <3>1. p > exec[k].call /\ usage[k][p] = "NONE"
      BY <1>2, <1>4, <1>7, <2>1 DEF Goes
    <3>2. QED
      BY <1>2, <1>3, <3>1 DEF Begins
  <2>2. ASSUME exec'[k].pc \in Uncalled
        PROVE  usage'[k][exec'[k].call] = "NONE"
    <3>1. exec'[k].pc \in Working
      BY <2>2 DEF Working
    <3>2. usage[k][exec'[k].call] = "NONE"
      BY <1>2, <1>4, <1>7, <2>2, <3>1 DEF Goes
    <3>3. ~Begins(k, exec'[k].call)
      BY <2>2 DEF Begins
    <3>4. QED
      BY <1>2, <1>3, <3>2, <3>3
  <2>3. QED
    BY <1>6, <1>7, <2>1, <2>2
<1>8. CASE \E j \in Claim : Claims(j)
  <2>1. PICK j \in Claim : Claims(j)
    BY <1>8
  <2>2. exec[j].pc = "None"
    BY <1>1, <2>1 DEF Claims, Starts, Tokens, TypeOK, Claim, Attempt, ReportRecord
  <2>3. CASE k = j
    BY <1>5, <2>2, <2>3
  <2>4. CASE k # j
    <3>1. exec'[k] = exec[k]
      BY <2>1, <2>4 DEF Claims
    <3>2. Goes(k)
      BY <3>1 DEF Goes
    <3>3. QED
      BY <1>5, <1>7, <3>2
  <2>5. QED
    BY <2>3, <2>4
<1>9. CASE ~\E j \in Claim : Claims(j)
  BY <1>1, <1>5, <1>7, <1>9, GoesSteps
<1>10. QED
  BY <1>8, <1>9

\* In every reachable state the calls an execution has still to make have no row.
THEOREM CallInvCorrect == Spec => []CallInv
BY CallInit, CallStep, PTL DEF Spec

\* The outcome of a call, once known, is never overwritten.
THEOREM KnownUsageKeptCorrect == Spec => KnownUsageKept
<1>1. CallInv /\ [Next]_vars =>
        [\A k \in Claim, p \in Purpose :
           usage[k][p] \in Known => usage'[k][p] = usage[k][p]]_vars
  <2> SUFFICES ASSUME CallInv, [Next]_vars, NEW k \in Claim, NEW p \in Purpose,
                      usage[k][p] \in Known
               PROVE  usage'[k][p] = usage[k][p]
    OBVIOUS
  <2>1. UsageStep(k, p)
    BY UsageSteps DEF CallInv, RowsInv
  <2>2. ~Begins(k, p)
    BY DEF Begins, CallInv, Calling, Known
  <2>3. QED
    BY <2>1, <2>2 DEF UsageStep, Settles, Known
<1>2. QED
  BY <1>1, CallInvCorrect, PTL DEF Spec, KnownUsageKept

\* A deleted member's report never comes back and no call is begun for it.
THEOREM DeletedStaysGoneCorrect == Spec => DeletedStaysGone
<1>1. RowsInv /\ [Next]_vars =>
        [\A r \in Report :
           report[r].status = "DELETED" =>
              /\ report'[r] = report[r]
              /\ \A k \in {r} \X Attempt, p \in Purpose :
                    usage'[k][p] = "RUNNING" => usage[k][p] = "RUNNING"]_vars
  <2> SUFFICES ASSUME RowsInv, [Next]_vars, NEW r \in Report,
                      report[r].status = "DELETED"
               PROVE  /\ report'[r] = report[r]
                      /\ \A k \in {r} \X Attempt, p \in Purpose :
                            usage'[k][p] = "RUNNING" => usage[k][p] = "RUNNING"
    OBVIOUS
  <2>1. report'[r] = report[r]
    BY RowSteps, RowStepKeeps DEF RowsInv, Rows
  <2>2. ASSUME NEW k \in {r} \X Attempt, NEW p \in Purpose, usage'[k][p] = "RUNNING"
        PROVE  usage[k][p] = "RUNNING"
    <3>1. k \in Claim /\ k[1] = r
      BY DEF Claim
    <3>2. UsageStep(k, p)
      BY <3>1, UsageSteps DEF RowsInv
    <3>3. QED
      BY <2>2, <3>1, <3>2 DEF UsageStep, Begins, Settles
  <2>3. QED
    BY <2>1, <2>2
<1>2. QED
  BY <1>1, RowsInvCorrect, PTL DEF Spec, DeletedStaysGone

-----------------------------------------------------------------------------
(* The promise to the member.                                              *)

\* Members see a bounded number of tries and one delivery from public sources.
THEOREM PromiseCorrect == Spec => PromiseSpec
<1> USE ReportAssumption
<1>1. Init => Promise!Init
  BY DEF Init, Promise!Init, NoReport
<1>2. RowsInv /\ RowsInv' /\ [Next]_vars => [Promise!Next]_(Promise!promiseVars)
  <2> SUFFICES ASSUME RowsInv, RowsInv', [Next]_vars PROVE Promise!Next
    OBVIOUS
  <2> DEFINE phase == [r \in Report |-> report[r].status]
             tries == [r \in Report |-> report[r].attempt]
  <2>0. /\ \A r \in Report : report[r] \in ReportRecord /\ report'[r] \in ReportRecord
        /\ public \in [Report -> BOOLEAN] /\ public' \in [Report -> BOOLEAN]
    BY DEF RowsInv, TypeOK
  <2>1. phase' \in [Report -> Promise!Phase]
    BY <2>0 DEF ReportRecord, ReportStatus, Ended, Promise!Phase
  <2>2. ASSUME NEW r \in Report, public'[r] PROVE public[r]
    <3>1. ASSUME NEW q \in Report, Withdraw(q) PROVE public[r]
      BY <2>0, <2>2, <3>1 DEF Withdraw
    <3>2. CASE public' = public
      BY <2>2, <3>2
    <3>3. QED
      BY <3>1, <3>2
      DEF Next, Environment, ExecStep, Progress, WorkerStep, Poll, vars,
          Request, Retry, DeleteUser, Elapse, ClaimReport, SweepOnly,
          RecoverUsage, Capture, Filter, BeginCall, Heartbeat, HeartbeatLost,
          Answer, Settle, LateAnswer, Recheck, Complete, ExecError, Deadline,
          Fail, Crash, Restart
  <2>3. ASSUME NEW r \in Report
        PROVE  \/ Promise!Ask(r) \/ Promise!AskAgain(r) \/ Promise!Start(r)
               \/ Promise!Requeue(r) \/ Promise!Takeover(r) \/ Promise!GiveUp(r)
               \/ Promise!Deliver(r) \/ Promise!Leave(r) \/ Promise!Stay(r)
    <3> DEFINE old == report[r]
               new == report'[r]
    <3>1. /\ old \in ReportRecord
          /\ phase[r] = old.status /\ phase'[r] = new.status
          /\ tries[r] = old.attempt /\ tries'[r] = new.attempt
      BY <2>0
    <3>2. RowStep(r)
      BY RowSteps DEF RowsInv
    <3>3. CASE new = old \/ TimeRow(r) \/ CaptureRow(r)
      BY <3>1, <3>3 DEF TimeRow, CaptureRow, ReportRecord, Promise!Stay
    <3>4. CASE RequestRow(r)
      BY <3>1, <3>4 DEF RequestRow, NoReport, Promise!Ask, Promise!Moves
    <3>5. CASE RetryRow(r)
      BY <3>1, <3>5
      DEF RetryRow, Retried, ReportRecord, Promise!AskAgain, Promise!Moves
    <3>6. CASE DeleteRow(r)
      BY <3>1, <3>6 DEF DeleteRow, Exists, NoReport, Promise!Leave
    <3>7. CASE SweepRow(r)
      BY <3>1, <3>7
      DEF SweepRow, Swept, ReportRecord, Promise!Requeue, Promise!GiveUp, Promise!Moves
    <3>8. CASE ClaimRow(r)
      <4>1. PICK row \in {old, Swept(old)}, t \in Nat \ {0} :
              /\ row # old => old.status = "RUNNING"
              /\ row.status = "QUEUED"
              /\ row.attempt < TotalLimit
              /\ new = [row EXCEPT !.status = "RUNNING", !.attempt = row.attempt + 1,
                                   !.token = t, !.elapsed = FALSE,
                                   !.retryable = FALSE]
        BY <3>8 DEF ClaimRow
      <4>2. CASE row = old
        <5>1. new.status = "RUNNING" /\ new.attempt = old.attempt + 1
          BY <3>1, <4>1, <4>2 DEF ReportRecord
        <5>2. QED
          BY <3>1, <4>1, <4>2, <5>1 DEF Promise!Start, Promise!Moves
      <4>3. CASE row # old
        <5>1. row = Swept(old) /\ old.status = "RUNNING"
          BY <4>1, <4>3
        <5>2. old.attempt < AutoLimit
          BY <3>1, <4>1, <5>1 DEF Swept, ReportRecord
        <5>3. row = [old EXCEPT !.status = "QUEUED", !.token = 0, !.retryable = TRUE]
          BY <5>1, <5>2 DEF Swept
        <5>4. new.status = "RUNNING" /\ new.attempt = old.attempt + 1
          BY <3>1, <4>1, <5>3 DEF ReportRecord
        <5>5. QED
          BY <3>1, <5>1, <5>2, <5>4 DEF Promise!Takeover, Promise!Moves
      <4>4. QED
        BY <4>2, <4>3
    <3>9. CASE CompleteRow(r)
      BY <3>1, <3>9
      DEF CompleteRow, ReportRecord, Promise!Deliver, Promise!Moves
    <3>10. CASE FailRow(r)
      BY <3>1, <3>10
      DEF FailRow, FailedRow, ReportRecord, Promise!Requeue, Promise!GiveUp,
          Promise!Moves
    <3>11. QED
      BY <3>2, <3>3, <3>4, <3>5, <3>6, <3>7, <3>8, <3>9, <3>10 DEF RowStep
  <2>4. QED
    BY <2>0, <2>1, <2>2, <2>3 DEF Promise!Next
<1>3. QED
  BY <1>1, <1>2, RowsInvCorrect, PTL DEF Spec, PromiseSpec, Promise!Spec
=============================================================================
