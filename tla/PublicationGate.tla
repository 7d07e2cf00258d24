-------------------------- MODULE PublicationGate --------------------------
(***************************************************************************)
(* What the content pipeline promises to the readers of issues, whatever   *)
(* its workers, retries and interrupts do.                                 *)
(*                                                                         *)
(* There is one global slot.  A run enters it under a new attempt number,  *)
(* runs, and leaves it.  An issue is drafted by the running attempt and    *)
(* carries that attempt as a ticket; only a later attempt of the same run  *)
(* may renew the ticket of an issue that is still a draft.  An issue is    *)
(* published by the running attempt whose ticket it carries, at most once, *)
(* and never after it was withdrawn.                                       *)
(***************************************************************************)
EXTENDS Naturals

CONSTANTS Run, Issue, NoRun    \* NoRun is not in Run (PipelineAssumption)

VARIABLES
    slot,    \* the run in the slot, its attempt, and whether it has started
    last,    \* the last attempt of each run
    phase,   \* NONE, UNPUBLISHED, PUBLISHED, WITHDRAWN
    ticket   \* the run and attempt that may publish each issue

gateVars == <<slot, last, phase, ticket>>

Free == [run |-> NoRun, attempt |-> 0, live |-> FALSE]

Init ==
    /\ slot = Free
    /\ last = [r \in Run |-> 0]
    /\ phase = [i \in Issue |-> "NONE"]
    /\ ticket = [i \in Issue |-> [run |-> NoRun, attempt |-> 0]]

\* The drafts of a run whose tickets a new attempt may renew.
Drafts(r) == {i \in Issue : ticket[i].run = r /\ phase[i] = "UNPUBLISHED"}

Admit(r, renewed) ==
    /\ slot = Free
    /\ renewed \subseteq Drafts(r)
    /\ last' = [last EXCEPT ![r] = @ + 1]
    /\ slot' = [run |-> r, attempt |-> last[r] + 1, live |-> FALSE]
    /\ ticket' = [i \in Issue |->
                    IF i \in renewed
                    THEN [run |-> r, attempt |-> last[r] + 1]
                    ELSE ticket[i]]
    /\ phase' = phase

Start ==
    /\ slot # Free
    /\ ~slot.live
    /\ slot' = [slot EXCEPT !.live = TRUE]
    /\ UNCHANGED <<last, phase, ticket>>

Leave ==
    /\ slot.live
    /\ slot' = Free
    /\ UNCHANGED <<last, phase, ticket>>

Draft(i) ==
    /\ slot.live
    /\ phase[i] = "NONE"
    /\ phase' = [phase EXCEPT ![i] = "UNPUBLISHED"]
    /\ ticket' = [ticket EXCEPT ![i] = [run |-> slot.run,
                                        attempt |-> slot.attempt]]
    /\ UNCHANGED <<slot, last>>

Publish(i) ==
    /\ slot.live
    /\ phase[i] = "UNPUBLISHED"
    /\ ticket[i] = [run |-> slot.run, attempt |-> slot.attempt]
    /\ phase' = [phase EXCEPT ![i] = "PUBLISHED"]
    /\ UNCHANGED <<slot, last, ticket>>

Withdraw(i) ==
    /\ phase[i] \in {"UNPUBLISHED", "PUBLISHED"}
    /\ phase' = [phase EXCEPT ![i] = "WITHDRAWN"]
    /\ UNCHANGED <<slot, last, ticket>>

Next ==
    \/ \E r \in Run, renewed \in SUBSET Issue : Admit(r, renewed)
    \/ Start
    \/ Leave
    \/ \E i \in Issue : Draft(i) \/ Publish(i) \/ Withdraw(i)

Spec == Init /\ [][Next]_gateVars
=============================================================================
