--------------------------- MODULE EmbeddingTask ---------------------------
(***************************************************************************)
(* Embedding maintenance.  Publishing an issue creates one task in the     *)
(* same transaction.  The pipeline worker that published it tries to save  *)
(* the vector at once, without a claim; what it leaves PENDING is claimed  *)
(* in batches by repair processes, each under a claim token and its        *)
(* process id.  A repair process may fail, be told to stop, or die; nobody *)
(* takes a claim over by time: an operator names a dead process and its    *)
(* claims are put back.                                                    *)
(*                                                                         *)
(* The token of a repair run is as fresh as its process id, so one value   *)
(* stands for both.  An id is reused here when its run has ended: a claim  *)
(* that outlives the run (of a withdrawn issue) goes to the id NoProc,     *)
(* which no process has.                                                   *)
(* Left out: attempt counts, usage records and the stored pending counter  *)
(* (all display only).  The arms of saveJobSuccess for a task that exists  *)
(* are not reached: an issue has one content job and it succeeds once.     *)
(***************************************************************************)
EXTENDS Naturals, Sequences, FiniteSets, SequencesExt

CONSTANTS
    Issue,
    Lucky,             \* issues whose calls are not refused for ever
    Proc,              \* ids of repair processes
    BatchSize,         \* PIPELINE_EMBEDDING_REPAIR_BATCH_SIZE
    MaxTrouble,        \* bound: deaths, SIGTERMs and mistaken reclaims
    NoProc, NoIssue    \* null references

ASSUME EmbeddingAssumption ==
    /\ Lucky \subseteq Issue
    /\ BatchSize \in Nat \ {0}
    /\ MaxTrouble \in Nat
    /\ NoProc \notin Proc
    /\ NoIssue \notin Issue

VARIABLES
    pub,      \* issues.publication_status
    task,     \* issue_embedding_tasks: status and claim
    queue,    \* the tasks in the order of updated_at
    vec,      \* issue_embeddings: the vector stored for the issue
    call,     \* the embedding call of the worker that published the issue
    proc,     \* the repair processes
    trouble   \* number of deaths, SIGTERMs and mistaken reclaims so far

vars == <<pub, task, queue, vec, call, proc, trouble>>

TaskRecord == [status : {"ABSENT", "PENDING", "RUNNING", "SUCCEEDED"},
               owner : Proc \cup {NoProc}]
Pc == {"Idle", "Claim", "Loop", "Embed", "Save", "Fail", "Dead"}
ProcRecord == [pc : Pc, todo : SUBSET Issue, cur : Issue \cup {NoIssue},
               aborted : BOOLEAN]

IdleProc == [pc |-> "Idle", todo |-> {}, cur |-> NoIssue, aborted |-> FALSE]

Pending == [status |-> "PENDING", owner |-> NoProc]
Claimed(p) == [status |-> "RUNNING", owner |-> p]

Init ==
    /\ pub = [i \in Issue |-> "UNPUBLISHED"]
    /\ task = [i \in Issue |-> [status |-> "ABSENT", owner |-> NoProc]]
    /\ queue = <<>>
    /\ vec = [i \in Issue |-> "NONE"]
    /\ call = [i \in Issue |-> "NONE"]
    /\ proc = [p \in Proc |-> IdleProc]
    /\ trouble = 0

-----------------------------------------------------------------------------
(* Rows.                                                                   *)

ClaimsOf(p) == {i \in Issue : task[i] = Claimed(p)}
Published(S) == {i \in S : pub[i] = "PUBLISHED"}

\* Faulty variant: updated_at is set when the task is created, and never again.
TouchedOnce(S) ==
    queue \o SetToSeq(S \ Range(queue))

\* Every update of a task sets updated_at = now(); the rows of one statement
\* share it and follow their ids.
Touched(S) ==
    SelectSeq(queue, LAMBDA i : i \notin S) \o SetToSeq(S)

\* The rows of S go back to PENDING without a claim.
PutBack(S) ==
    /\ task' = [i \in Issue |-> IF i \in S THEN Pending ELSE task[i]]
    /\ queue' = Touched(S)

\* saveEmbedding: the issue is PUBLISHED (its row is locked with the task's)
\* and the task is in the state its caller must have left it in.
Store(i) ==
    /\ task' = [task EXCEPT ![i] = [status |-> "SUCCEEDED", owner |-> NoProc]]
    /\ queue' = Touched({i})
    /\ vec' = [vec EXCEPT ![i] = "RIGHT"]

-----------------------------------------------------------------------------
(* The pipeline worker and the administrator.                              *)

\* saveJobSuccess; afterwards the worker calls the embedding provider, or has
\* lost the reply of the transaction or its process.
Publish(i) ==
    /\ pub[i] = "UNPUBLISHED"
    /\ pub' = [pub EXCEPT ![i] = "PUBLISHED"]
    /\ task' = [task EXCEPT ![i] = Pending]
    /\ queue' = Touched({i})
    /\ \E c \in {"CALLED", "NONE"} : call' = [call EXCEPT ![i] = c]
    /\ UNCHANGED <<vec, proc, trouble>>

\* saveEmbedding without a claim token.
WorkerMayStore(i) == pub[i] = "PUBLISHED" /\ task[i] = Pending

\* The worker has a vector of the model and the dimension it asked for.
WorkerSave(i) ==
    /\ call[i] = "CALLED"
    /\ call' = [call EXCEPT ![i] = "NONE"]
    /\ \/ WorkerMayStore(i) /\ Store(i)
       \/ ~WorkerMayStore(i) /\ UNCHANGED <<task, queue, vec>>
    /\ UNCHANGED <<pub, proc, trouble>>

\* Faulty variant: a task in any state is put back.
WorkerFailAnyStatus(i) ==
    /\ call[i] = "CALLED"
    /\ call' = [call EXCEPT ![i] = "NONE"]
    /\ \/ pub[i] = "PUBLISHED" /\ PutBack({i})
       \/ UNCHANGED <<task, queue>>
    /\ UNCHANGED <<pub, vec, proc, trouble>>

\* The call failed or its vector was refused: markEmbeddingPending, which only
\* touches a PENDING task, and none when the run has another owner by now.  A
\* vector of another model is STALE and changes nothing.
WorkerFail(i) ==
    /\ call[i] = "CALLED"
    /\ call' = [call EXCEPT ![i] = "NONE"]
    /\ \/ WorkerMayStore(i) /\ PutBack({i})
       \/ UNCHANGED <<task, queue>>
    /\ UNCHANGED <<pub, vec, proc, trouble>>

\* External: an administrator withdraws the issue with SQL.
Withdraw(i) ==
    /\ pub[i] \in {"UNPUBLISHED", "PUBLISHED"}
    /\ pub' = [pub EXCEPT ![i] = "WITHDRAWN"]
    /\ UNCHANGED <<task, queue, vec, call, proc, trouble>>

-----------------------------------------------------------------------------
(* A repair process.                                                       *)

Begin(p) ==
    /\ proc[p].pc \in {"Idle", "Dead"}
    /\ ClaimsOf(p) = {}
    /\ proc' = [proc EXCEPT ![p] = [IdleProc EXCEPT !.pc = "Claim"]]

StartRepair(p) ==
    /\ Begin(p)
    /\ UNCHANGED <<pub, task, queue, vec, call, trouble>>

\* The process is started with PIPELINE_EMBEDDING_REPAIR_RECLAIM_OWNER = owner.
\* The operator should have confirmed that the owner is dead, and may be wrong.
Reclaim(p, owner) ==
    /\ p # owner
    /\ Begin(p)
    /\ PutBack(Published(ClaimsOf(owner)))
    /\ \/ proc[owner].pc \in {"Idle", "Dead"} /\ UNCHANGED trouble
       \/ /\ proc[owner].pc \notin {"Idle", "Dead"}
          /\ trouble < MaxTrouble
          /\ trouble' = trouble + 1
    /\ UNCHANGED <<pub, vec, call>>

\* A task whose vector is missing is claimable, too (there is none).
Claimable(i) ==
    \/ task[i].status = "PENDING"
    \/ task[i].status = "SUCCEEDED" /\ vec[i] # "RIGHT"

\* The claimable tasks of readable issues; the oldest of them, at most a batch.
Ready == {i \in Published(Issue) : Claimable(i)}
Place(i) == CHOOSE k \in DOMAIN queue : queue[k] = i
Batch == {i \in Ready : Cardinality({j \in Ready : Place(j) < Place(i)}) < BatchSize}

ClaimTasks(p) ==
    /\ proc[p].pc = "Claim"
    /\ task' = [i \in Issue |-> IF i \in Batch THEN Claimed(p) ELSE task[i]]
    /\ queue' = Touched(Batch)
    /\ proc' = [proc EXCEPT ![p].pc = "Loop", ![p].todo = Batch]
    /\ UNCHANGED <<pub, vec, call, trouble>>

BackToLoop(p) == [proc[p] EXCEPT !.pc = "Loop", !.cur = NoIssue]

\* The next task: loadIssue, and the provider is called when it is PUBLISHED.
NextTask(p, i) ==
    /\ proc[p].pc = "Loop"
    /\ ~proc[p].aborted
    /\ i \in proc[p].todo
    /\ \/ /\ pub[i] = "PUBLISHED"
          /\ proc' = [proc EXCEPT ![p] = [proc[p] EXCEPT !.pc = "Embed",
                        !.cur = i, !.todo = proc[p].todo \ {i}]]
          /\ UNCHANGED <<task, queue>>
       \/ /\ pub[i] # "PUBLISHED"
          /\ proc' = [proc EXCEPT ![p].todo = @ \ {i}]
          /\ PutBack({i} \cap ClaimsOf(p))
    /\ UNCHANGED <<pub, vec, call, trouble>>

\* SIGTERM reaches the process; it is looked at between two tasks only.
Abort(p) ==
    /\ trouble < MaxTrouble
    /\ proc[p].pc \notin {"Idle", "Dead"}
    /\ ~proc[p].aborted
    /\ proc' = [proc EXCEPT ![p].aborted = TRUE]
    /\ trouble' = trouble + 1
    /\ UNCHANGED <<pub, task, queue, vec, call>>

\* Faulty variant: the tasks that were not begun keep their claims.
StopLeavingClaims(p) ==
    /\ proc[p].pc = "Loop"
    /\ proc[p].aborted
    /\ proc[p].todo # {}
    /\ proc' = [proc EXCEPT ![p] = IdleProc]
    /\ PutBack({})
    /\ UNCHANGED <<pub, vec, call, trouble>>

\* releaseEmbeddingClaims, and the run ends.
Stop(p) ==
    /\ proc[p].pc = "Loop"
    /\ proc[p].aborted
    /\ proc[p].todo # {}
    /\ proc' = [proc EXCEPT ![p] = IdleProc]
    /\ PutBack(ClaimsOf(p))
    /\ UNCHANGED <<pub, vec, call, trouble>>

\* The provider answers with a usable vector, or fails or answers something
\* the job refuses (another model or dimension, a number that is not finite).
Answer(p, good) ==
    /\ proc[p].pc = "Embed"
    /\ proc' = [proc EXCEPT ![p].pc = IF good THEN "Save" ELSE "Fail"]
    /\ UNCHANGED <<pub, task, queue, vec, call, trouble>>

\* Faulty variant: the token is not compared.
MayStoreAnyClaim(p, i) ==
    pub[i] = "PUBLISHED" /\ p \in Proc /\ task[i].status = "RUNNING"

\* saveEmbedding with the claim token.
MayStore(p, i) == pub[i] = "PUBLISHED" /\ task[i] = Claimed(p)

\* STALE results are dropped, an error of the transaction is a failure.
Save(p, i) ==
    /\ proc[p].pc = "Save"
    /\ proc[p].cur = i
    /\ \/ /\ MayStore(p, i)
          /\ Store(i)
          /\ proc' = [proc EXCEPT ![p] = BackToLoop(p)]
       \/ /\ ~MayStore(p, i)
          /\ proc' = [proc EXCEPT ![p] = BackToLoop(p)]
          /\ UNCHANGED <<task, queue, vec>>
       \/ /\ proc' = [proc EXCEPT ![p].pc = "Fail"]
          /\ UNCHANGED <<task, queue, vec>>
    /\ UNCHANGED <<pub, call, trouble>>

\* failEmbeddingTask: the row is this claim's and its issue still PUBLISHED.
FailTask(p, i) ==
    /\ proc[p].pc = "Fail"
    /\ proc[p].cur = i
    /\ PutBack(IF MayStore(p, i) THEN {i} ELSE {})
    /\ proc' = [proc EXCEPT ![p] = BackToLoop(p)]
    /\ UNCHANGED <<pub, vec, call, trouble>>

\* The loop is over: no query is sent, claims that are left stay as they are.
Finish(p) ==
    /\ proc[p].pc = "Loop"
    /\ proc[p].todo = {}
    /\ proc' = [proc EXCEPT ![p] = IdleProc]
    /\ task' = [i \in Issue |-> IF i \in ClaimsOf(p) THEN Claimed(NoProc)
                                ELSE task[i]]
    /\ UNCHANGED <<pub, queue, vec, call, trouble>>

\* The process dies, or a query outside the guarded calls throws and ends it.
Crash(p) ==
    /\ trouble < MaxTrouble
    /\ proc[p].pc \notin {"Idle", "Dead"}
    /\ proc' = [proc EXCEPT ![p] = [IdleProc EXCEPT !.pc = "Dead"]]
    /\ trouble' = trouble + 1
    /\ UNCHANGED <<pub, task, queue, vec, call>>

-----------------------------------------------------------------------------
Publishing == \E i \in Issue : Publish(i) \/ WorkerSave(i) \/ WorkerFail(i)
                               \/ Withdraw(i)

Handle(p) ==
    \/ ClaimTasks(p)
    \/ Stop(p)
    \/ Finish(p)
    \/ \E i \in Issue : NextTask(p, i) \/ Save(p, i) \/ FailTask(p, i)

Repair(p) ==
    \/ StartRepair(p)
    \/ \E owner \in Proc : Reclaim(p, owner)
    \/ Handle(p)
    \/ Abort(p)
    \/ \E good \in BOOLEAN : Answer(p, good)
    \/ Crash(p)

Next == Publishing \/ \E p \in Proc : Repair(p)

Spec == Init /\ [][Next]_vars

\* A process keeps going and a provider call ends (the client has a timeout);
\* the repair command is run again and again, and after a death with the dead
\* process's id.  The provider and the database do not refuse the same issue
\* for ever: but only an issue of Lucky may count on that.
ReclaimDead(p, dead) == proc[dead].pc = "Dead" /\ Reclaim(p, dead)

GoodAnswer(p, i) == proc[p].cur = i /\ Answer(p, TRUE)

SaveOrStale(p, i) == Save(p, i) /\ proc'[p].pc = "Loop"

FairSpec ==
    /\ Spec
    /\ \A p \in Proc :
         /\ WF_vars(Handle(p))
         /\ WF_vars(\E good \in BOOLEAN : Answer(p, good))
    /\ WF_vars(\E p \in Proc : StartRepair(p))
    /\ \A dead \in Proc : SF_vars(\E p \in Proc : ReclaimDead(p, dead))
    /\ \A i \in Lucky : /\ SF_vars(\E p \in Proc : GoodAnswer(p, i))
                        /\ SF_vars(\E p \in Proc : SaveOrStale(p, i))

-----------------------------------------------------------------------------
\* The queue only orders the tasks and is not typed here.
TypeOK ==
    /\ pub \in [Issue -> {"UNPUBLISHED", "PUBLISHED", "WITHDRAWN"}]
    /\ task \in [Issue -> TaskRecord]
    /\ vec \in [Issue -> {"NONE", "RIGHT"}]
    /\ call \in [Issue -> {"NONE", "CALLED"}]
    /\ proc \in [Proc -> ProcRecord]
    /\ trouble \in 0 .. MaxTrouble

-----------------------------------------------------------------------------
(* Invariants and action properties.                                       *)

\* A task is SUCCEEDED exactly when the vector of its content is stored: the
\* worker's save, a repair's and a late repair's never leave one without the
\* other, and a withdrawn issue gets neither.  The shapes of the tables go first.
VectorIffSucceeded ==
    /\ TypeOK
    /\ \A i \in Issue : vec[i] = "RIGHT" <=> task[i].status = "SUCCEEDED"

\* Only a process that died, or a withdrawal, can leave a claim behind: a run
\* that ends, stops on SIGTERM or meets failing tasks keeps none.  A claim of
\* a process at work is on a task it has still to handle.
NoClaimLeftBehind ==
    \A i \in Published(Issue) :
        task[i].status = "RUNNING"
        => \E p \in Proc :
              /\ task[i] = Claimed(p)
              /\ \/ proc[p].pc = "Dead"
                 \/ i \in proc[p].todo
                 \/ i = proc[p].cur

\* A claim is ended by its own process or by an operator's reclaim: never by
\* the worker that published the issue, nor by a process whose claim on the
\* task was put back and given to another.
ClaimEndedByOwner ==
    [][\A i \in Issue, p \in Proc :
         task[i] = Claimed(p) /\ task'[i] # task[i]
         => \/ proc'[p] # proc[p]
            \/ \E q \in Proc : Reclaim(q, p)]_vars

\* A published issue gets its vector unless it is withdrawn, even in batches of
\* one next to an issue that fails for ever.
EventuallyEmbedded ==
    \A i \in Lucky :
        pub[i] = "PUBLISHED" ~> vec[i] = "RIGHT" \/ pub[i] = "WITHDRAWN"
=============================================================================
