----------------------------- MODULE MCServices -----------------------------
(***************************************************************************)
(* Instances of the parts that Services puts together: the state spaces    *)
(* add up.                                                                 *)
(***************************************************************************)
EXTENDS Services, TLC

MCPublisher == <<"p", "p", "q">>

MCQuota == [PERSONALIZED |-> 2, MAJOR |-> 1, CONNECTED |-> 0, EXPLORATION |-> 1, OPPOSITE |-> 0]
MCBefore == {[topic |-> Null, topicRun |-> 0, entity |-> Null, entityRun |-> 0],
             [topic |-> "A", topicRun |-> 1, entity |-> "E", entityRun |-> 2]}

Kind(topic, entity, match, unlike, flags) ==
    [topic |-> topic, entity |-> entity, match |-> match, unlike |-> unlike,
     connected |-> "connected" \in flags, high |-> "high" \in flags, acted |-> "acted" \in flags]
KindA == Kind("A", Null, {"category"}, {}, {})
KindB == Kind("B", Null, {"category"}, {}, {"connected"})
KindX == Kind("A", Null, {}, {"category"}, {"high", "acted"})
KindE == Kind("A", "E", {"category", "region"}, {}, {"connected"})
KindN == Kind(Null, "E", {}, {}, {})
KindR == Kind("B", Null, {"region"}, {}, {})
KindM == Kind("A", Null, {"category"}, {}, {"high"})
MCPools == UNION {[1..n -> {KindA, KindB, KindX, KindE, KindN}] : n \in 0..3}
             \cup [1..4 -> {KindB, KindX, KindE}]
             \cup {p \in [1..5 -> {KindA, KindB, KindX}] : p[1] = KindA /\ p[2] = KindX}
             \cup [1..6 -> {KindA, KindE}]
             \* the best of two kinds each take a slot that another could have filled
             \cup {<<KindA, KindR, KindM, KindN, KindX>>}

MCShares == [i \in Found |-> CASE i \in {1, 2} -> {"category"} [] i = 6 -> {"region"} [] OTHER -> {}]
MCDiffers == [i \in Found |-> CASE i \in {1, 3} -> {"region"} [] OTHER -> {}]

MCMax == [r \in Rule |-> IF r = "global-ip" THEN 2 ELSE 1]

TwoSections == <<"a", "a", "b">>

\* Similarities to the first two sources, with ties; the third has no vector.
Similarities == <<<<2, 2, 1, 0>>, <<3, 2, 0, 2>>, <<0, 0, 0, 0>>>>
MCLikenesses == {[p \in (1..3) \X (4..7) |-> Similarities[p[1]][p[2] - 3]]}
MCCategory == <<1, 1, 2, 1, 1, 1, 1>>
MCImportance == [i \in Further |-> IF i \in {4, 5} THEN 9 ELSE 8]
Related == {[issue |-> 5, source |-> 1], [issue |-> 5, source |-> 2], [issue |-> 9, source |-> 1]}
MCDrafts ==
    [connections : {<<>>, <<<<1, 2>>>>, <<<<1, 3>>, <<2, 3>>>>, <<<<1, 1>>>>, <<<<1, 5>>>>},
     related : {<<>>} \cup [1..1 -> Related] \cup [1..2 -> Related]]

ApprovedCodes ==
    [housing |-> "housing", politics |-> "politics", JUDICIARY |-> "politics"]
ApprovedNames == [justice |-> "politics"]

Symmetry == Permutations(Process)
=============================================================================
