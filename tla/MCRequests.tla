----------------------------- MODULE MCRequests -----------------------------
(***************************************************************************)
(* Instances of the parts that share no row their properties are about, in *)
(* one run: an execution is that of one part, chosen at the start, and the *)
(* state spaces add up.  They are the services that answer concurrent      *)
(* requests from the database.  Parts use the same model values where that *)
(* keeps the group of symmetries small.                                    *)
(***************************************************************************)
EXTENDS MemberInterest, AuthSession, FeedSession, TLC

CONSTANTS x1, x2, x3, b1, k1, k2

CategoryOfIssue == [i \in Issue |-> CHOOSE c \in Category : TRUE]
TopicA == [i \in Card |-> IF i = b1 THEN "B" ELSE "A"]

Symmetry ==
    Permutations({x1, x2, x3}) \cup Permutations({k1, k2}) \cup Permutations(View)

VARIABLE part    \* the part the execution is of

Init ==
    /\ part \in {"member", "auth", "feed"}
    /\ MemberInit /\ AuthInit /\ FeedInit

Next ==
    \/ /\ part = "member" /\ MemberNext
       /\ UNCHANGED <<part, authVars, feedVars>>
    \/ /\ part = "auth" /\ AuthNext
       /\ UNCHANGED <<part, memberVars, feedVars>>
    \/ /\ part = "feed" /\ FeedNext
       /\ UNCHANGED <<part, memberVars, authVars>>

Spec ==
    Init /\ [][Next]_<<part, memberVars, authVars, feedVars>>
=============================================================================
