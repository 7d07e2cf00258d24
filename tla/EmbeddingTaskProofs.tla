------------------------ MODULE EmbeddingTaskProofs ------------------------
(***************************************************************************)
(* Proofs about EmbeddingTask, for every number of issues, of repair       *)
(* processes and of disturbances, and for every size of a batch.           *)
(***************************************************************************)
EXTENDS EmbeddingTask, TLAPS

-----------------------------------------------------------------------------
(* The inductive invariant.                                                *)

\* An issue that was never published has no task.
NoTaskBefore == \A i \in Issue : pub[i] = "UNPUBLISHED" => task[i].status = "ABSENT"

\* Only a process at a task has one, and only one in its loop has a batch.
ProcessesAtWork ==
    \A p \in Proc :
        /\ proc[p].pc \in {"Idle", "Claim", "Loop", "Dead"} => proc[p].cur = NoIssue
        /\ proc[p].pc \in {"Idle", "Claim"} => proc[p].todo = {}

\* Claims of a process that is in no loop are of issues withdrawn since.
EmbeddingInv ==
    /\ VectorIffSucceeded
    /\ NoClaimLeftBehind
    /\ NoTaskBefore
    /\ ProcessesAtWork

-----------------------------------------------------------------------------
(* Types.                                                                  *)

\* Rows and processes of the values they are given.
LEMMA RecordTypes ==
    /\ Pending \in TaskRecord
    /\ \A p \in Proc \cup {NoProc} : Claimed(p) \in TaskRecord
    /\ [status |-> "SUCCEEDED", owner |-> NoProc] \in TaskRecord
    /\ IdleProc \in ProcRecord
    /\ [IdleProc EXCEPT !.pc = "Claim"] \in ProcRecord
    /\ [IdleProc EXCEPT !.pc = "Dead"] \in ProcRecord
<1>1. IdleProc \in ProcRecord
  BY DEF IdleProc, ProcRecord, Pc
<1>2. /\ Pending \in TaskRecord
      /\ \A p \in Proc \cup {NoProc} : Claimed(p) \in TaskRecord
      /\ [status |-> "SUCCEEDED", owner |-> NoProc] \in TaskRecord
  BY DEF Pending, Claimed, TaskRecord
<1>3. QED
  BY <1>1, <1>2 DEF ProcRecord, Pc

\* Every step of a process keeps it a process.
LEMMA ProcTypes ==
    ASSUME TypeOK, NEW p \in Proc
    PROVE  /\ BackToLoop(p) \in ProcRecord
           /\ \A pc \in Pc : [proc[p] EXCEPT !.pc = pc] \in ProcRecord
           /\ \A pc \in Pc, S \in SUBSET Issue :
                [proc[p] EXCEPT !.pc = pc, !.todo = S] \in ProcRecord
           /\ \A S \in SUBSET Issue : [proc[p] EXCEPT !.todo = S] \in ProcRecord
           /\ [proc[p] EXCEPT !.aborted = TRUE] \in ProcRecord
           /\ \A i \in Issue, S \in SUBSET Issue :
                [proc[p] EXCEPT !.pc = "Embed", !.cur = i, !.todo = S] \in ProcRecord
<1>1. proc[p] \in ProcRecord
  BY DEF TypeOK
<1>2. QED
  BY <1>1 DEF ProcRecord, Pc, BackToLoop

\* Tasks that are put back or stored are tasks.
LEMMA TaskTypes ==
    ASSUME TypeOK
    PROVE  /\ \A S : PutBack(S) => task' \in [Issue -> TaskRecord]
           /\ \A i \in Issue : Store(i) => /\ task' \in [Issue -> TaskRecord]
                                          /\ vec' \in [Issue -> {"NONE", "RIGHT"}]
BY RecordTypes DEF PutBack, Store, TypeOK
\* Every step keeps the types.
LEMMA TypeStep == TypeOK /\ [Next]_vars => TypeOK'
<1> SUFFICES ASSUME TypeOK, [Next]_vars PROVE TypeOK'
  OBVIOUS
<1> USE EmbeddingAssumption DEF TypeOK
<1>1. ASSUME NEW i \in Issue, Publish(i)
      PROVE  TypeOK'
  BY <1>1, RecordTypes DEF Publish
<1>2. ASSUME NEW i \in Issue, WorkerSave(i) \/ WorkerFail(i)
      PROVE  TypeOK'
  BY <1>2, TaskTypes DEF WorkerSave, WorkerFail
<1>3. ASSUME NEW i \in Issue, Withdraw(i)
      PROVE  TypeOK'
  BY <1>3 DEF Withdraw
<1>4. ASSUME NEW p \in Proc, StartRepair(p) \/ \E owner \in Proc : Reclaim(p, owner)
      PROVE  TypeOK'
  <2>1. proc' = [proc EXCEPT ![p] = [IdleProc EXCEPT !.pc = "Claim"]]
    BY <1>4 DEF StartRepair, Reclaim, Begin
  <2>2. proc' \in [Proc -> ProcRecord]
    BY <2>1, RecordTypes
  <2>3. QED
    BY <1>4, <2>2, TaskTypes DEF StartRepair, Reclaim
<1>5. ASSUME NEW p \in Proc, ClaimTasks(p)
      PROVE  TypeOK'
  <2>1. Batch \in SUBSET Issue
    BY DEF Batch, Ready, Published
  <2>2. proc' = [proc EXCEPT ![p] = [proc[p] EXCEPT !.pc = "Loop", !.todo = Batch]]
    BY <1>5 DEF ClaimTasks, ProcRecord
  <2>3. proc' \in [Proc -> ProcRecord]
    BY <2>1, <2>2, ProcTypes DEF Pc
  <2>4. task' \in [Issue -> TaskRecord]
    BY <1>5, RecordTypes DEF ClaimTasks
  <2>5. QED
    BY <1>5, <2>3, <2>4 DEF ClaimTasks
<1>6. ASSUME NEW p \in Proc, Stop(p) \/ Finish(p) \/ Crash(p)
      PROVE  TypeOK'
  <2>1. proc' \in [Proc -> ProcRecord]
    BY <1>6, RecordTypes DEF Stop, Finish, Crash
  <2>2. task' \in [Issue -> TaskRecord]
    BY <1>6, RecordTypes, TaskTypes DEF Stop, Finish, Crash
  <2>3. QED
    BY <1>6, <2>1, <2>2 DEF Stop, Finish, Crash
<1>7. ASSUME NEW p \in Proc, NEW i \in Issue, NextTask(p, i)
      PROVE  TypeOK'
  <2>1. proc[p] \in ProcRecord
    OBVIOUS
  <2>2. proc[p].todo \ {i} \in SUBSET Issue
    BY <2>1 DEF ProcRecord
  <2>3. \/ proc' = [proc EXCEPT ![p] = [proc[p] EXCEPT !.pc = "Embed", !.cur = i,
                                         !.todo = proc[p].todo \ {i}]]
        \/ proc' = [proc EXCEPT ![p] = [proc[p] EXCEPT !.todo = proc[p].todo \ {i}]]
    BY <1>7, <2>1 DEF NextTask, ProcRecord
  <2>4. proc' \in [Proc -> ProcRecord]
    <3>1. /\ [proc[p] EXCEPT !.pc = "Embed", !.cur = i, !.todo = proc[p].todo \ {i}] \in ProcRecord
          /\ [proc[p] EXCEPT !.todo = proc[p].todo \ {i}] \in ProcRecord
      BY <2>2, ProcTypes
    <3>2. QED
      BY <2>3, <3>1
  <2>5. task' \in [Issue -> TaskRecord]
    BY <1>7, TaskTypes DEF NextTask
  <2>6. QED
    BY <1>7, <2>4, <2>5 DEF NextTask
<1>8. ASSUME NEW p \in Proc, NEW i \in Issue, Save(p, i) \/ FailTask(p, i)
      PROVE  TypeOK'
  <2>1. proc' \in [Proc -> ProcRecord]
    BY <1>8, ProcTypes DEF Save, FailTask, Pc
  <2>2. task' \in [Issue -> TaskRecord] /\ vec' \in [Issue -> {"NONE", "RIGHT"}]
    BY <1>8, TaskTypes DEF Save, FailTask
  <2>3. QED
    BY <1>8, <2>1, <2>2 DEF Save, FailTask
<1>9. ASSUME NEW p \in Proc, Abort(p) \/ \E good \in BOOLEAN : Answer(p, good)
      PROVE  TypeOK'
  <2>1. proc' \in [Proc -> ProcRecord]
    BY <1>9, ProcTypes DEF Abort, Answer, Pc
  <2>2. QED
    BY <1>9, <2>1 DEF Abort, Answer
<1>10. CASE UNCHANGED vars
  BY <1>10 DEF vars
<1>11. QED
  BY <1>1, <1>2, <1>3, <1>4, <1>5, <1>6, <1>7, <1>8, <1>9, <1>10
     DEF Next, Publishing, Repair, Handle
-----------------------------------------------------------------------------
(* Rows.                                                                   *)

\* What a step does to the task of an issue: nothing, or it publishes the issue,
\* puts back what is not SUCCEEDED, stores a vector, claims what is not RUNNING,
\* or leaves a claim that its process no longer has to NoProc.
LEMMA TaskSteps ==
    ASSUME EmbeddingInv, [Next]_vars, NEW i \in Issue
    PROVE  \/ task'[i] = task[i] /\ vec'[i] = vec[i]
           \/ Publish(i)
           \/ /\ task[i].status \in {"PENDING", "RUNNING"}
              /\ \/ task'[i] = Pending /\ vec'[i] = vec[i]
                 \/ task'[i].status = "SUCCEEDED" /\ vec'[i] = "RIGHT"
                 \/ task'[i].status = "RUNNING" /\ vec'[i] = vec[i]
<1> DEFINE Touch ==
      \/ task'[i] = task[i] /\ vec'[i] = vec[i]
      \/ Publish(i)
      \/ /\ task[i].status \in {"PENDING", "RUNNING"}
         /\ \/ task'[i] = Pending /\ vec'[i] = vec[i]
            \/ task'[i].status = "SUCCEEDED" /\ vec'[i] = "RIGHT"
            \/ task'[i].status = "RUNNING" /\ vec'[i] = vec[i]
<1> SUFFICES Touch
  OBVIOUS
<1>0. /\ task \in [Issue -> TaskRecord] /\ vec \in [Issue -> {"NONE", "RIGHT"}]
      /\ vec[i] = "RIGHT" <=> task[i].status = "SUCCEEDED"
  BY DEF EmbeddingInv, VectorIffSucceeded, TypeOK
<1>1. ASSUME NEW j \in Issue, Publish(j) \/ WorkerSave(j) \/ WorkerFail(j) \/ Withdraw(j)
      PROVE  Touch
  <2>1. CASE Publish(j)
    BY <1>0, <2>1 DEF Pending, Claimed, Publish
  <2>2. CASE WorkerSave(j)
    BY <1>0, <2>2 DEF Pending, Claimed, WorkerSave, WorkerMayStore, Store
  <2>3. CASE WorkerFail(j)
    BY <1>0, <2>3 DEF Pending, Claimed, WorkerFail, WorkerMayStore, PutBack
  <2>4. CASE Withdraw(j)
    BY <1>0, <2>4 DEF Withdraw
  <2>5. QED
    BY <1>1, <2>1, <2>2, <2>3, <2>4
<1>2. ASSUME NEW p \in Proc, NEW owner \in Proc, Reclaim(p, owner)
      PROVE  Touch
  BY <1>0, <1>2 DEF Pending, Claimed, Reclaim, PutBack, Published, ClaimsOf
<1>3. ASSUME NEW p \in Proc, ClaimTasks(p)
      PROVE  Touch
  BY <1>0, <1>3 DEF Pending, Claimed, ClaimTasks, Batch, Ready, Claimable
<1>4. ASSUME NEW p \in Proc, NEW j \in Issue, NextTask(p, j) \/ FailTask(p, j) \/ Stop(p)
      PROVE  Touch
  BY <1>0, <1>4 DEF Pending, Claimed, NextTask, FailTask, MayStore, Stop, PutBack, ClaimsOf
<1>5. ASSUME NEW p \in Proc, NEW j \in Issue, Save(p, j)
      PROVE  Touch
  BY <1>0, <1>5 DEF Pending, Claimed, Save, MayStore, Store
<1>6. ASSUME NEW p \in Proc, Finish(p)
      PROVE  Touch
  BY <1>0, <1>6 DEF Pending, Claimed, Finish, ClaimsOf
<1>7. ASSUME NEW p \in Proc,
             StartRepair(p) \/ Abort(p) \/ (\E good \in BOOLEAN : Answer(p, good)) \/ Crash(p)
      PROVE  Touch
  BY <1>0, <1>7 DEF StartRepair, Abort, Answer, Crash
<1>8. CASE UNCHANGED vars
  BY <1>0, <1>8 DEF vars
<1> HIDE DEF Touch
<1>9. QED
  BY <1>1, <1>2, <1>3, <1>4, <1>5, <1>6, <1>7, <1>8 DEF Next, Publishing, Repair, Handle

\* An issue is published once, and stays withdrawn.
LEMMA PubSteps ==
    ASSUME TypeOK, [Next]_vars, NEW i \in Issue
    PROVE  pub'[i] = pub[i] \/ Publish(i) \/ Withdraw(i)
BY DEF Next, vars, Publishing, Repair, Handle, Publish, WorkerSave, WorkerFail, Withdraw,
       StartRepair, Reclaim, ClaimTasks, Stop, Finish, NextTask, Save, FailTask, Abort, Answer,
       Crash, TypeOK

\* A vector for what is SUCCEEDED, and for nothing else.
LEMMA VectorStep ==
    ASSUME EmbeddingInv, [Next]_vars
    PROVE  VectorIffSucceeded' /\ NoTaskBefore'
<1> USE DEF EmbeddingInv
<1>1. TypeOK'
  BY TypeStep DEF VectorIffSucceeded
<1>2. ASSUME NEW i \in Issue, Publish(i)
      PROVE  /\ vec'[i] # "RIGHT" /\ task'[i] = Pending /\ pub'[i] = "PUBLISHED"
  BY <1>2 DEF Publish, NoTaskBefore, VectorIffSucceeded, TypeOK
<1>3. ASSUME NEW i \in Issue
      PROVE  vec'[i] = "RIGHT" <=> task'[i].status = "SUCCEEDED"
  BY <1>2, TaskSteps DEF VectorIffSucceeded, Pending
<1>4. ASSUME NEW i \in Issue, pub'[i] = "UNPUBLISHED"
      PROVE  task'[i].status = "ABSENT"
  <2>1. pub[i] = "UNPUBLISHED" /\ ~Publish(i)
    BY <1>2, <1>4, PubSteps DEF VectorIffSucceeded, Withdraw, TypeOK
  <2>2. task[i].status = "ABSENT" /\ vec[i] = "NONE"
    BY <2>1 DEF NoTaskBefore, VectorIffSucceeded, TypeOK
  <2>3. task'[i] = task[i]
    BY <2>1, <2>2, TaskSteps
  <2>4. QED
    BY <2>2, <2>3
<1>5. QED
  BY <1>1, <1>3, <1>4 DEF VectorIffSucceeded, NoTaskBefore
-----------------------------------------------------------------------------
(* Processes.                                                              *)

\* Place, task and batch of a process after a step.
At(p, pc, cur, todo) ==
    proc'[p].pc = pc /\ proc'[p].cur = cur /\ proc'[p].todo = todo

\* How a step changes its process.
LEMMA ProcEffect ==
    ASSUME TypeOK, NEW p \in Proc
    PROVE  /\ Begin(p) => At(p, "Claim", NoIssue, {})
           /\ ClaimTasks(p) => At(p, "Loop", proc[p].cur, Batch)
           /\ Stop(p) \/ Finish(p) => At(p, "Idle", NoIssue, {})
           /\ \A i \in Issue :
                /\ NextTask(p, i) =>
                     \/ At(p, "Embed", i, proc[p].todo \ {i})
                     \/ pub[i] # "PUBLISHED" /\ At(p, "Loop", proc[p].cur, proc[p].todo \ {i})
                /\ Save(p, i) =>
                     \/ At(p, "Loop", NoIssue, proc[p].todo)
                     \/ At(p, "Fail", proc[p].cur, proc[p].todo) /\ UNCHANGED task
                /\ FailTask(p, i) => At(p, "Loop", NoIssue, proc[p].todo)
           /\ Abort(p) => At(p, proc[p].pc, proc[p].cur, proc[p].todo)
           /\ \A good \in BOOLEAN : Answer(p, good) =>
                \E pc \in {"Save", "Fail"} : At(p, pc, proc[p].cur, proc[p].todo)
           /\ Crash(p) => At(p, "Dead", NoIssue, {})
<1>0. proc \in [Proc -> ProcRecord] /\ proc[p] \in ProcRecord
  BY DEF TypeOK
<1>1. /\ IdleProc \in ProcRecord
      /\ IdleProc.pc = "Idle" /\ IdleProc.cur = NoIssue /\ IdleProc.todo = {}
  BY RecordTypes DEF IdleProc
<1>2. ASSUME Begin(p) PROVE At(p, "Claim", NoIssue, {})
  BY <1>0, <1>1, <1>2 DEF Begin, At, ProcRecord
<1>3. ASSUME ClaimTasks(p) PROVE At(p, "Loop", proc[p].cur, Batch)
  <2>1. proc' = [proc EXCEPT ![p] = [proc[p] EXCEPT !.pc = "Loop", !.todo = Batch]]
    BY <1>0, <1>3 DEF ClaimTasks, ProcRecord
  <2>2. QED
    BY <1>0, <2>1 DEF At, ProcRecord
<1>4. ASSUME Stop(p) \/ Finish(p) PROVE At(p, "Idle", NoIssue, {})
  BY <1>0, <1>1, <1>4 DEF Stop, Finish, At
<1>5. ASSUME NEW i \in Issue, NextTask(p, i)
      PROVE  \/ At(p, "Embed", i, proc[p].todo \ {i})
             \/ pub[i] # "PUBLISHED" /\ At(p, "Loop", proc[p].cur, proc[p].todo \ {i})
  <2>1. CASE proc' = [proc EXCEPT ![p] = [proc[p] EXCEPT !.pc = "Embed", !.cur = i,
                                         !.todo = proc[p].todo \ {i}]]
    BY <1>0, <2>1 DEF At, ProcRecord
  <2>2. CASE pub[i] # "PUBLISHED" /\ proc' = [proc EXCEPT ![p].todo = @ \ {i}]
    <3>1. proc[p].pc = "Loop"
      BY <1>5 DEF NextTask
    <3>2. proc'[p] = [proc[p] EXCEPT !.todo = proc[p].todo \ {i}]
      BY <1>0, <2>2
    <3>3. QED
      BY <1>0, <2>2, <3>1, <3>2 DEF At, ProcRecord
  <2>3. QED
    BY <1>5, <2>1, <2>2 DEF NextTask
<1>6. ASSUME NEW i \in Issue, Save(p, i) \/ FailTask(p, i)
      PROVE  \/ At(p, "Loop", NoIssue, proc[p].todo)
             \/ Save(p, i) /\ At(p, "Fail", proc[p].cur, proc[p].todo) /\ UNCHANGED task
  <2>1. CASE proc' = [proc EXCEPT ![p] = BackToLoop(p)]
    BY <1>0, <2>1 DEF BackToLoop, At, ProcRecord
  <2>2. CASE Save(p, i) /\ proc' = [proc EXCEPT ![p].pc = "Fail"] /\ UNCHANGED task
    BY <1>0, <2>2 DEF At, ProcRecord
  <2>3. QED
    BY <1>6, <2>1, <2>2 DEF Save, FailTask
<1>6a. ASSUME NEW i \in Issue, FailTask(p, i)
       PROVE  At(p, "Loop", NoIssue, proc[p].todo)
  BY <1>0, <1>6a DEF FailTask, BackToLoop, At, ProcRecord
<1>7. ASSUME Abort(p) PROVE At(p, proc[p].pc, proc[p].cur, proc[p].todo)
  BY <1>0, <1>7 DEF Abort, At, ProcRecord
<1>8. ASSUME NEW good \in BOOLEAN, Answer(p, good)
      PROVE  \E pc \in {"Save", "Fail"} : At(p, pc, proc[p].cur, proc[p].todo)
  BY <1>0, <1>8 DEF Answer, At, ProcRecord
<1>9. ASSUME Crash(p) PROVE At(p, "Dead", NoIssue, {})
  BY <1>0, <1>1, <1>9 DEF Crash, At, ProcRecord
<1>10. QED
  BY <1>2, <1>3, <1>4, <1>5, <1>6, <1>6a, <1>7, <1>8, <1>9

\* Steps of a process: the others stay where they are.
LEMMA OthersKept ==
    ASSUME TypeOK, NEW p \in Proc, Repair(p), NEW q \in Proc \ {p}
    PROVE  proc'[q] = proc[q]
BY DEF TypeOK, Repair, Handle, StartRepair, Reclaim, Begin, ClaimTasks, Stop, Finish, NextTask,
       Save, FailTask, Abort, Answer, Crash

\* The worker and the administrator change no repair process.
LEMMA PublishingKeeps == Publishing \/ UNCHANGED vars => UNCHANGED proc
BY DEF Publishing, Publish, WorkerSave, WorkerFail, Withdraw, vars

\* The places of the processes fit what they have.
LEMMA ProcessesStep ==
    ASSUME EmbeddingInv, [Next]_vars
    PROVE  ProcessesAtWork'
<1>0. TypeOK /\ ProcessesAtWork
  BY DEF EmbeddingInv, VectorIffSucceeded
<1>1. CASE UNCHANGED proc
  BY <1>0, <1>1 DEF ProcessesAtWork
<1>2. ASSUME NEW p \in Proc, Repair(p)
      PROVE  ProcessesAtWork'
  <2> DEFINE AtWork(q) ==
        /\ proc[q].pc \in {"Idle", "Claim", "Loop", "Dead"} => proc[q].cur = NoIssue
        /\ proc[q].pc \in {"Idle", "Claim"} => proc[q].todo = {}
  <2>0. AtWork(p)
    BY <1>0 DEF ProcessesAtWork
  <2>1. AtWork(p)'
    <3>1. CASE StartRepair(p) \/ \E owner \in Proc : Reclaim(p, owner)
      BY <1>0, <3>1, ProcEffect DEF StartRepair, Reclaim, At
    <3>2. CASE ClaimTasks(p)
      BY <1>0, <2>0, <3>2, ProcEffect DEF ClaimTasks, At
    <3>3. CASE Stop(p) \/ Finish(p) \/ Crash(p)
      BY <1>0, <3>3, ProcEffect DEF At
    <3>4. CASE \E i \in Issue : NextTask(p, i)
      BY <1>0, <2>0, <3>4, ProcEffect DEF NextTask, At
    <3>5. CASE \E i \in Issue : Save(p, i) \/ FailTask(p, i)
      BY <1>0, <3>5, ProcEffect DEF At
    <3>6. CASE Abort(p) \/ \E good \in BOOLEAN : Answer(p, good)
      BY <1>0, <2>0, <3>6, ProcEffect DEF At
    <3>7. QED
      BY <1>2, <3>1, <3>2, <3>3, <3>4, <3>5, <3>6 DEF Repair, Handle
  <2>2. QED
    BY <1>0, <1>2, <2>1, OthersKept DEF ProcessesAtWork
<1>3. QED
  BY <1>1, <1>2, PublishingKeeps DEF Next
-----------------------------------------------------------------------------
(* Claims.                                                                 *)

\* NoClaimLeftBehind for one claim.
Held(i, p) ==
    /\ task[i] = Claimed(p)
    /\ \/ proc[p].pc = "Dead"
       \/ i \in proc[p].todo
       \/ i = proc[p].cur

\* A claim has one process.
LEMMA OneClaimant ==
    ASSUME NEW p, NEW q, Claimed(p) = Claimed(q)
    PROVE  p = q
<1>1. Claimed(p).owner = p /\ Claimed(q).owner = q
  BY DEF Claimed
<1>2. QED
  BY <1>1

\* A claim that no step touches stays held.
LEMMA HeldStep ==
    ASSUME EmbeddingInv, NEW p \in Proc, Repair(p),
           NEW i \in Issue, task'[i] = task[i], pub[i] = "PUBLISHED",
           NEW q \in Proc, Held(i, q), task'[i].status = "RUNNING"
    PROVE  Held(i, q)'
<1>0. TypeOK /\ ProcessesAtWork /\ i # NoIssue /\ task[i] = Claimed(q) /\ task \in [Issue -> TaskRecord]
  BY EmbeddingAssumption DEF EmbeddingInv, VectorIffSucceeded, TypeOK, Held
<1>1. CASE q # p
  BY <1>0, <1>1, OthersKept DEF Held
<1>2. CASE q = p
  <2>1. i \in ClaimsOf(p)
    BY <1>0, <1>2 DEF ClaimsOf
  <2>2. CASE StartRepair(p) \/ \E owner \in Proc : Reclaim(p, owner)
    BY <2>1, <2>2 DEF StartRepair, Reclaim, Begin
  <2>3. CASE ClaimTasks(p)
    BY <1>0, <1>2, <2>3 DEF ClaimTasks, Held, ProcessesAtWork
  <2>4. CASE Stop(p)
    BY <1>0, <2>1, <2>4 DEF Stop, PutBack, Pending, Claimed, TypeOK
  <2>5. CASE Finish(p)
    <3>1. proc[p].pc = "Loop" /\ proc[p].todo = {} /\ proc[p].cur = NoIssue
      BY <1>0, <2>5 DEF Finish, ProcessesAtWork
    <3>2. QED
      BY <1>0, <1>2, <3>1 DEF Held
  <2>6. ASSUME NEW j \in Issue, NextTask(p, j)
        PROVE  Held(i, q)'
    <3>1. proc[p].pc = "Loop" /\ proc[p].cur = NoIssue
      BY <1>0, <2>6 DEF NextTask, ProcessesAtWork
    <3>2. i \in proc[p].todo
      BY <1>0, <1>2, <3>1 DEF Held
    <3>3. CASE At(p, "Embed", j, proc[p].todo \ {j})
      BY <1>0, <1>2, <3>2, <3>3 DEF At, Held, Claimed
    <3>4. CASE pub[j] # "PUBLISHED" /\ At(p, "Loop", proc[p].cur, proc[p].todo \ {j})
      BY <1>0, <1>2, <3>2, <3>4 DEF At, Held, Claimed
    <3>5. QED
      BY <1>0, <2>6, <3>3, <3>4, ProcEffect
  <2>7. ASSUME NEW j \in Issue, Save(p, j) \/ FailTask(p, j)
        PROVE  Held(i, q)'
    <3>1. proc[p].pc # "Dead" /\ proc[p].cur = j
      BY <2>7 DEF Save, FailTask
    <3>2. CASE At(p, "Fail", proc[p].cur, proc[p].todo)
      BY <1>0, <1>2, <3>1, <3>2 DEF At, Held, Claimed
    <3>3. CASE At(p, "Loop", NoIssue, proc[p].todo)
      <4>1. i # j
        <5>1. SUFFICES ASSUME i = j PROVE FALSE
          OBVIOUS
        <5>2. MayStore(p, j)
          BY <1>0, <1>2, <5>1 DEF MayStore
        <5>3. task'[i] # Claimed(p) \/ proc'[p].pc = "Fail"
          BY <1>0, <2>7, <5>1, <5>2
             DEF Save, Store, FailTask, PutBack, Pending, Claimed, TypeOK, ProcRecord
        <5>4. QED
          BY <1>0, <1>2, <3>3, <5>3 DEF At
      <4>2. i \in proc[p].todo
        BY <1>2, <3>1, <4>1 DEF Held
      <4>3. QED
        BY <1>0, <1>2, <3>3, <4>2 DEF At, Held, Claimed
    <3>4. QED
      BY <1>0, <2>7, <3>2, <3>3, ProcEffect
  <2>8. CASE Abort(p)
    BY <1>0, <1>2, <2>8, ProcEffect DEF At, Held, Claimed
  <2>9. ASSUME NEW good \in BOOLEAN, Answer(p, good)
        PROVE  Held(i, q)'
    <3>1. proc[p].pc = "Embed"
      BY <2>9 DEF Answer
    <3>2. PICK pc \in {"Save", "Fail"} : At(p, pc, proc[p].cur, proc[p].todo)
      BY <1>0, <2>9, ProcEffect
    <3>3. QED
      BY <1>0, <1>2, <3>1, <3>2 DEF At, Held, Claimed
  <2>10. CASE Crash(p)
    BY <1>0, <1>2, <2>10, ProcEffect DEF At, Held, Claimed
  <2>11. QED
    BY <2>2, <2>3, <2>4, <2>5, <2>6, <2>7, <2>8, <2>9, <2>10 DEF Repair, Handle
<1>3. QED
  BY <1>1, <1>2
\* Outside the repair processes only a publication changes a row that is
\* RUNNING or becomes it.
LEMMA PublishingSparesClaims ==
    ASSUME TypeOK, Publishing \/ UNCHANGED vars, NEW i \in Issue,
           task[i].status = "RUNNING" \/ task'[i].status = "RUNNING"
    PROVE  task'[i] = task[i] \/ Publish(i)
<1>1. ASSUME NEW j \in Issue, Publish(j) PROVE task'[i] = task[i] \/ Publish(i)
  BY <1>1 DEF Publish, TypeOK
<1>2. ASSUME NEW j \in Issue, WorkerSave(j) PROVE task'[i] = task[i]
  BY <1>2 DEF WorkerSave, WorkerMayStore, Store, Pending, TypeOK
<1>3. ASSUME NEW j \in Issue, WorkerFail(j) PROVE task'[i] = task[i]
  BY <1>3 DEF WorkerFail, WorkerMayStore, PutBack, Pending, TypeOK
<1>4. ASSUME NEW j \in Issue, Withdraw(j) PROVE task'[i] = task[i]
  BY <1>4 DEF Withdraw
<1>5. CASE UNCHANGED vars
  BY <1>5 DEF vars
<1>6. QED
  BY <1>1, <1>2, <1>3, <1>4, <1>5 DEF Publishing

\* A claim on a published issue is held by a process, or by one that died.
LEMMA ClaimsStep ==
    ASSUME EmbeddingInv, [Next]_vars
    PROVE  NoClaimLeftBehind'
<1> SUFFICES ASSUME NEW i \in Issue, pub'[i] = "PUBLISHED", task'[i].status = "RUNNING"
             PROVE  \E p \in Proc : Held(i, p)'
  BY DEF NoClaimLeftBehind, Published, Held
<1>0. TypeOK /\ i # NoIssue
  BY EmbeddingAssumption DEF EmbeddingInv, VectorIffSucceeded
<1>1. pub[i] = "PUBLISHED" /\ ~Publish(i)
  <2>1. ~Publish(i)
    BY <1>0 DEF Publish, Pending, TypeOK
  <2>2. QED
    BY <1>0, <2>1, PubSteps DEF Withdraw, TypeOK
<1>2. ASSUME task'[i] = task[i]
      PROVE  \E p \in Proc : Held(i, p)'
  <2>1. PICK q \in Proc : Held(i, q)
    BY <1>1, <1>2 DEF EmbeddingInv, NoClaimLeftBehind, Published, Held
  <2>2. CASE UNCHANGED proc
    BY <1>2, <2>1, <2>2 DEF Held, Claimed
  <2>3. ASSUME NEW p \in Proc, Repair(p)
        PROVE  Held(i, q)'
    BY <1>1, <1>2, <2>1, <2>3, HeldStep
  <2>4. QED
    BY <2>2, <2>3, PublishingKeeps DEF Next
<1>3. ASSUME task'[i] # task[i]
      PROVE  \E p \in Proc : Held(i, p)'
  <2>1. CASE Publishing \/ UNCHANGED vars
    BY <1>0, <1>1, <1>3, <2>1, PublishingSparesClaims
  <2>2. ASSUME NEW p \in Proc, Repair(p)
        PROVE  \E q \in Proc : Held(i, q)'
    <3>1. CASE ClaimTasks(p)
      <4>1. i \in Batch /\ task'[i] = Claimed(p)
        BY <1>0, <1>3, <3>1 DEF ClaimTasks, TypeOK
      <4>2. i \in proc'[p].todo
        BY <1>0, <3>1, <4>1, ProcEffect DEF At
      <4>3. QED
        BY <4>1, <4>2 DEF Held, Claimed
    <3>2. CASE Finish(p)
      <4>1. task[i] = Claimed(p) /\ proc[p].pc = "Loop" /\ proc[p].todo = {}
        BY <1>0, <1>3, <3>2 DEF Finish, ClaimsOf, TypeOK
      <4>2. proc[p].cur = NoIssue
        BY <4>1 DEF EmbeddingInv, ProcessesAtWork
      <4>3. task[i].status = "RUNNING"
        BY <4>1 DEF Claimed
      <4>4. PICK q \in Proc : Held(i, q)
        BY <1>1, <4>3 DEF EmbeddingInv, NoClaimLeftBehind, Published, Held
      <4>5. q = p
        BY <4>1, <4>4, OneClaimant DEF Held
      <4>6. QED
        BY <1>0, <4>1, <4>2, <4>4, <4>5 DEF Held
    <3>3. CASE ~ClaimTasks(p) /\ ~Finish(p)
      <4>1. task'[i] = Pending \/ task'[i].status = "SUCCEEDED"
        <5>1. ASSUME NEW S, PutBack(S) PROVE task'[i] = Pending
          BY <1>0, <1>3, <5>1 DEF PutBack, TypeOK
        <5>2. ASSUME NEW j \in Issue, Store(j) PROVE task'[i].status = "SUCCEEDED"
          BY <1>0, <1>3, <5>2 DEF Store, TypeOK
        <5>3. CASE \E owner \in Proc : Reclaim(p, owner)
          BY <5>1, <5>3 DEF Reclaim
        <5>4. CASE Stop(p) \/ \E j \in Issue : FailTask(p, j)
          BY <5>1, <5>4 DEF Stop, FailTask
        <5>5. CASE \E j \in Issue : NextTask(p, j)
          BY <1>3, <5>1, <5>5 DEF NextTask
        <5>6. CASE \E j \in Issue : Save(p, j)
          BY <1>3, <5>2, <5>6 DEF Save
        <5>7. CASE StartRepair(p) \/ Abort(p) \/ Crash(p) \/ \E good \in BOOLEAN : Answer(p, good)
          BY <1>3, <5>7 DEF StartRepair, Abort, Crash, Answer
        <5>8. QED
          BY <2>2, <3>3, <5>3, <5>4, <5>5, <5>6, <5>7 DEF Repair, Handle
      <4>2. QED
        BY <4>1 DEF Pending
    <3>4. QED
      BY <3>1, <3>2, <3>3
  <2>3. QED
    BY <2>1, <2>2 DEF Next
<1>4. QED
  BY <1>2, <1>3

-----------------------------------------------------------------------------
(* Theorems.                                                               *)

\* The initial state.
LEMMA InvInit == Init => EmbeddingInv
<1> SUFFICES ASSUME Init PROVE EmbeddingInv
  OBVIOUS
<1>1. TypeOK
  BY RecordTypes, EmbeddingAssumption DEF Init, TypeOK, TaskRecord
<1>2. QED
  BY <1>1 DEF Init, EmbeddingInv, VectorIffSucceeded, NoClaimLeftBehind, Published,
              NoTaskBefore, ProcessesAtWork, IdleProc

\* The invariant is inductive.
LEMMA InvStep == EmbeddingInv /\ [Next]_vars => EmbeddingInv'
BY VectorStep, ClaimsStep, ProcessesStep DEF EmbeddingInv

\* Whoever saves it, a task is SUCCEEDED exactly when the vector is stored
\* (saveEmbedding, with and without a claim).
THEOREM VectorIffSucceededCorrect == Spec => []VectorIffSucceeded
<1>1. EmbeddingInv => VectorIffSucceeded
  BY DEF EmbeddingInv
<1>2. QED
  BY <1>1, InvInit, InvStep, PTL DEF Spec

\* Only a death or a withdrawal leaves a claim behind (releaseEmbeddingClaims).
THEOREM NoClaimLeftBehindCorrect == Spec => []NoClaimLeftBehind
<1>1. EmbeddingInv => NoClaimLeftBehind
  BY DEF EmbeddingInv
<1>2. QED
  BY <1>1, InvInit, InvStep, PTL DEF Spec

\* A claim that a step ends is of the process that steps, or reclaimed.
LEMMA ClaimEnded ==
    ASSUME EmbeddingInv, [Next]_vars, NEW i \in Issue, NEW p \in Proc,
           task[i] = Claimed(p), task'[i] # task[i], proc'[p] = proc[p]
    PROVE  \E q \in Proc : Reclaim(q, p)
<1>0. TypeOK /\ NoTaskBefore /\ task[i].status = "RUNNING"
  BY DEF EmbeddingInv, VectorIffSucceeded, Claimed
<1>1. ~Publishing /\ ~UNCHANGED vars
  <2>1. ~Publish(i)
    BY <1>0 DEF Publish, NoTaskBefore
  <2>2. QED
    BY <1>0, <2>1, PublishingSparesClaims
<1>2. PICK q \in Proc : Repair(q)
  BY <1>1 DEF Next
<1>3. ASSUME NEW owner \in Proc, Reclaim(q, owner)
      PROVE  Reclaim(q, p)
  <2>1. task[i] = Claimed(owner)
    BY <1>0, <1>3 DEF Reclaim, PutBack, Published, ClaimsOf, TypeOK
  <2>2. QED
    BY <1>3, <2>1, OneClaimant
<1>4. ~ClaimTasks(q)
  BY <1>0 DEF ClaimTasks, Batch, Ready, Claimable, TypeOK
<1>5. ASSUME Stop(q) \/ Finish(q)
      PROVE  FALSE
  <2>1. task[i] = Claimed(q)
    BY <1>0, <1>5 DEF Stop, Finish, PutBack, ClaimsOf, TypeOK
  <2>2. q = p
    BY <2>1, OneClaimant
  <2>3. proc[q].pc = "Loop" /\ proc'[q].pc = "Idle"
    BY <1>0, <1>5, ProcEffect DEF Stop, Finish, At
  <2>4. QED
    BY <2>2, <2>3
<1>6. ASSUME NEW j \in Issue, NextTask(q, j)
      PROVE  FALSE
  <2>1. task[i] = Claimed(q) /\ i = j
    BY <1>0, <1>6 DEF NextTask, PutBack, ClaimsOf, TypeOK
  <2>2. q = p
    BY <2>1, OneClaimant
  <2>3. proc'[q].todo = proc[q].todo \ {j} /\ j \in proc[q].todo
    BY <1>0, <1>6, ProcEffect DEF NextTask, At
  <2>4. QED
    BY <2>2, <2>3
<1>7. ASSUME NEW j \in Issue, Save(q, j) \/ FailTask(q, j)
      PROVE  FALSE
  <2>1. task[i] = Claimed(q)
    BY <1>0, <1>7 DEF Save, FailTask, Store, PutBack, MayStore, TypeOK
  <2>2. q = p
    BY <2>1, OneClaimant
  <2>3. proc[q].pc \in {"Save", "Fail"} /\ (proc[q].pc = "Fail" => FailTask(q, j))
    BY <1>7 DEF Save, FailTask
  <2>4. At(q, "Loop", NoIssue, proc[q].todo)
    BY <1>0, <1>7, ProcEffect
  <2>5. QED
    BY <2>2, <2>3, <2>4 DEF At
<1>8. ~StartRepair(q) /\ ~Abort(q) /\ ~Crash(q) /\ \A good \in BOOLEAN : ~Answer(q, good)
  BY DEF StartRepair, Abort, Crash, Answer
<1>9. QED
  BY <1>2, <1>3, <1>4, <1>5, <1>6, <1>7, <1>8 DEF Repair, Handle

\* A claim is ended by its process or by an operator (the claim token of
\* saveEmbedding, failEmbeddingTask and releaseEmbeddingClaims).
THEOREM ClaimEndedByOwnerCorrect == Spec => ClaimEndedByOwner
<1>1. EmbeddingInv /\ [Next]_vars
      => [\A i \in Issue, p \in Proc :
            task[i] = Claimed(p) /\ task'[i] # task[i]
            => \/ proc'[p] # proc[p]
               \/ \E q \in Proc : Reclaim(q, p)]_vars
  BY ClaimEnded
<1>2. QED
  BY <1>1, InvInit, InvStep, PTL DEF Spec, ClaimEndedByOwner

=============================================================================
