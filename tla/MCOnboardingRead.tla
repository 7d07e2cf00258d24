-------------------------- MODULE MCOnboardingRead --------------------------
(* An instance of OnboardingRead. *)
EXTENDS OnboardingRead

CategoryOfIssue == [i \in Issue |-> CHOOSE c \in Category : TRUE]
=============================================================================
