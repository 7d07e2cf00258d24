------------------------------ MODULE Services ------------------------------
(***************************************************************************)
(* The stages of the daily pipeline, the fetch of an article, the read and *)
(* the choice of candidates, the pages of liked issues, the content of a   *)
(* report, the rate limiter and the migration of categories, together:     *)
(* they share no state that their properties are about, so an execution is *)
(* that of one part, chosen at the start.                                  *)
(***************************************************************************)
EXTENDS NewsStages, ArticleFetch, Recommendation, CandidatePool, LikedIssues,
        ReportContent, RateLimit, CategoryMigration

VARIABLE part    \* the part the execution is of

servicesVars == <<part, stageVars, recommendationVars, poolVars, likesVars, contentVars,
                  limitVars, fetchVars, migrationVars>>

Init ==
    /\ part \in {"stages", "recommendation", "pool", "likes", "content", "limit", "fetch",
                "migration"}
    /\ LimitInit
    /\ IF part = "stages" THEN StagesInit
       ELSE /\ today = 1 /\ index = 0 /\ checked = 0 /\ claims = 0 /\ happened = 0 /\ late = FALSE
            /\ runs = <<>>
            /\ definitions = [c \in Candidate |-> Unset]
            /\ process = [p \in Process |-> Idle]
    /\ IF part = "recommendation" THEN RecommendationInit
       ELSE pool = <<>> /\ previous = Null /\ output = [version |-> "none"]
    /\ IF part = "pool" THEN PoolInit
       ELSE /\ member = FALSE /\ public = {} /\ met = {} /\ linked = {}
            /\ changes = 0 /\ steady = {} /\ ever = {}
            /\ reader = [step |-> 1, ids |-> <<>>, connected |-> {}, result |-> <<>>, done |-> FALSE]
    /\ LikesInit /\ (part # "likes" => study.pc = "off")
    /\ ContentInit
    /\ part # "content" => input = {} /\ likeness = CHOOSE l \in Likenesses : TRUE
    /\ FetchInit /\ (part # "fetch" => pc = "search")
    /\ IF part = "migration" THEN MigrationInit
       ELSE db = Absent /\ legacyDb = Absent /\ outcome = "none"

Next ==
    \/ /\ part = "stages" /\ StagesNext
       /\ UNCHANGED <<part, recommendationVars, poolVars, likesVars,
                      contentVars, limitVars, fetchVars, migrationVars>>
    \/ /\ part = "recommendation" /\ RecommendationNext
       /\ UNCHANGED <<part, stageVars, poolVars, likesVars,
                      contentVars, limitVars, fetchVars, migrationVars>>
    \/ /\ part = "pool" /\ PoolNext
       /\ UNCHANGED <<part, stageVars, recommendationVars, likesVars,
                      contentVars, limitVars, fetchVars, migrationVars>>
    \/ /\ part = "likes" /\ LikesNext
       /\ UNCHANGED <<part, stageVars, recommendationVars, poolVars,
                      contentVars, limitVars, fetchVars, migrationVars>>
    \/ /\ part = "content" /\ ContentNext
       /\ UNCHANGED <<part, stageVars, recommendationVars, poolVars, likesVars,
                      limitVars, fetchVars, migrationVars>>
    \/ /\ part = "limit" /\ LimitNext
       /\ UNCHANGED <<part, stageVars, recommendationVars, poolVars,
                      likesVars, contentVars, fetchVars, migrationVars>>
    \/ /\ part = "fetch" /\ FetchNext
       /\ UNCHANGED <<part, stageVars, recommendationVars, poolVars,
                      likesVars, contentVars, limitVars, migrationVars>>
    \/ /\ part = "migration" /\ MigrateUp
       /\ UNCHANGED <<part, stageVars, recommendationVars, poolVars,
                      likesVars, contentVars, limitVars, fetchVars>>

Spec == Init /\ [][Next]_servicesVars

\* What is read by several queries, while others write: the pool that a feed batch
\* is made from, with the choice from it, the pages of liked issues, and what a
\* report is made from and shows.  Each is looked at where its part runs; the other
\* parts stand still there.
ReadsSound ==
    /\ part = "pool" => PoolSound
    /\ part = "recommendation" => RecommendationSound
    /\ part = "likes" => LikesSound
    /\ part = "content" => ReportContentSound
=============================================================================
