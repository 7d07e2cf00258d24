--------------------------- MODULE OnboardingRead ---------------------------
(***************************************************************************)
(* GET of the onboarding state beside the writes of MemberInterest.  The   *)
(* service calls findOnboarding outside a transaction: the weights and the *)
(* contributions are read by two statements, each of a state of its own.   *)
(* The statements between them read rows that no choice is derived from.   *)
(***************************************************************************)
EXTENDS MemberInterest

CONSTANT Reader        \* concurrent GETs

VARIABLE reading       \* what the first statements of a GET have seen

Init ==
    /\ MemberInit
    /\ reading = [r \in Reader |-> NoRow]

GetOnboarding(r) ==
    /\ Member
    /\ reading[r] = NoRow
    /\ reading' = [reading EXCEPT ![r] = [weight |-> weight, chosen |-> chosen]]
    /\ UNCHANGED memberVars

\* The contributions are those of now.
FinishGetOnboarding(r) ==
    /\ reading[r] # NoRow
    /\ reading' = [reading EXCEPT ![r] = NoRow]
    /\ UNCHANGED memberVars

Next ==
    \/ MemberNext /\ UNCHANGED reading
    \/ \E r \in Reader : GetOnboarding(r) \/ FinishGetOnboarding(r)

Spec == Init /\ [][Next]_<<memberVars, reading>>

\* A GET that is answered shows a choice the member had while it ran: it is
\* derived from one state of the rows, as the review of the feature says.
\* (findSnapshot of postgresOnboarding.repository.ts.)
ReadShowsChoice ==
    [][\A r \in Reader :
         LET seen == reading[r]
         IN  seen # NoRow /\ reading'[r] = NoRow /\ Member
             /\ AllowedResiduals(seen.weight)
               => DerivedTopics(seen.weight) \in {seen.chosen, chosen}
      ]_<<memberVars, reading>>
=============================================================================
