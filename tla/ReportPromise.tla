--------------------------- MODULE ReportPromise ---------------------------
(***************************************************************************)
(* What a member is promised about the report of one week.                 *)
(*                                                                         *)
(* A requested report waits, is worked on and ends.  The first AutoLimit   *)
(* tries need nobody; every further try, up to TotalLimit, is asked for by *)
(* the member.  A report is delivered once, only while everything it was   *)
(* written from is public, and then stays as it is until the member leaves.*)
(***************************************************************************)
EXTENDS Naturals

CONSTANTS Report, AutoLimit, TotalLimit

VARIABLES
    phase,   \* what the member sees of each report
    tries,   \* how many times each report was worked on
    open     \* whether the sources of each report are public

promiseVars == <<phase, tries, open>>

Phase == {"ABSENT", "QUEUED", "RUNNING", "SUCCEEDED", "FAILED", "DELETED"}

Init ==
    /\ phase = [r \in Report |-> "ABSENT"]
    /\ tries = [r \in Report |-> 0]
    /\ open = [r \in Report |-> TRUE]

Moves(r, from, to) == phase[r] = from /\ phase'[r] = to

Ask(r) == Moves(r, "ABSENT", "QUEUED") /\ tries'[r] = 0

AskAgain(r) ==
    /\ Moves(r, "FAILED", "QUEUED")
    /\ tries[r] < TotalLimit
    /\ tries'[r] = tries[r]

Start(r) ==
    /\ Moves(r, "QUEUED", "RUNNING")
    /\ tries[r] < TotalLimit
    /\ tries'[r] = tries[r] + 1

\* Nobody asked for it: only the first tries are repeated.
Requeue(r) ==
    /\ Moves(r, "RUNNING", "QUEUED")
    /\ tries[r] < AutoLimit
    /\ tries'[r] = tries[r]

\* Given up and started again in one step.
Takeover(r) ==
    /\ Moves(r, "RUNNING", "RUNNING")
    /\ tries[r] < AutoLimit
    /\ tries'[r] = tries[r] + 1

GiveUp(r) == Moves(r, "RUNNING", "FAILED") /\ tries'[r] = tries[r]

Deliver(r) ==
    /\ Moves(r, "RUNNING", "SUCCEEDED")
    /\ open[r]
    /\ tries'[r] = tries[r]

Leave(r) ==
    /\ phase[r] # "ABSENT"
    /\ phase'[r] = "DELETED"
    /\ tries'[r] = 0

Stay(r) == phase'[r] = phase[r] /\ tries'[r] = tries[r]

Next ==
    /\ phase' \in [Report -> Phase]
    /\ open' \in [Report -> BOOLEAN]
    /\ \A r \in Report :
          /\ open'[r] => open[r]
          /\ \/ Ask(r) \/ AskAgain(r) \/ Start(r) \/ Requeue(r) \/ Takeover(r)
             \/ GiveUp(r) \/ Deliver(r) \/ Leave(r) \/ Stay(r)

Spec == Init /\ [][Next]_promiseVars
=============================================================================
