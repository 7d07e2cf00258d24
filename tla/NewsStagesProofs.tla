-------------------------- MODULE NewsStagesProofs --------------------------
(***************************************************************************)
(* The tables of the stages of the daily pipeline agree with each other,   *)
(* and what was saved once is kept: for every number of processes, days,   *)
(* claims, candidates and articles.  The fetch of an article asks checked  *)
(* addresses only, keeps every open connection timed, asks all addresses   *)
(* of a hop before it gives up, and returns what it has read: for every    *)
(* number of hops and addresses, every limit and whatever the network      *)
(* answers.                                                                *)
(***************************************************************************)
EXTENDS NewsStages, ArticleFetch, SetLemmas

-----------------------------------------------------------------------------
(* What a snapshot is.                                                     *)

DiscoverySnapshot ==
    [at : Day, since : {Unset, NoTrack} \cup Nat, results : Seq(SUBSET Candidate),
     candidates : {Unset} \cup SUBSET Candidate]

CollectionItem ==
    [existing : {Unset} \cup Int, duplicate : {Unset, "yes", "no"},
     articles : {Unset} \cup SUBSET Article, relevant : {Unset} \cup SUBSET Article,
     selected : SUBSET Article,
     status : {Unset, "DUPLICATE", "INSUFFICIENT_ARTICLES", "INSUFFICIENT_PUBLISHERS",
               "SELECTED"}]

GenerationItem ==
    [articles : SUBSET Article, fetchFailures : SUBSET Article, draft : {Unset, "checked"},
     classification : {Unset, "checked"}, glossary : {Unset, "DATABASE", "GENERATED"},
     status : {Unset, "INSUFFICIENT_BODIES", "GENERATED"}]

ValidationItem ==
    [terms : {"few", "many"}, initial : {Unset, "clean", "findings", "source"},
     initialTone : {Unset} \cup Tone, repair : {Unset, "applied", "INVALID"},
     final : {Unset, "clean", "findings", "source"}, finalTone : {Unset} \cup Tone,
     status : {Unset, "PASSED", "HELD"}]

Item(stage) == CASE stage = "collection" -> CollectionItem
                 [] stage = "generation" -> GenerationItem
                 [] OTHER -> ValidationItem

\* An item of a collection: what is selected was chosen by the rules.
Collected(at, i) ==
    /\ i.existing \in {Unset, at}
    /\ i.status = "SELECTED" =>
          /\ i.relevant \in SUBSET Article
          /\ i.selected = selectArticles(i.relevant)
          /\ Cardinality(i.selected) \in 2..MaxSelected
          /\ countPublishers(i.relevant) >= 2

\* An item of a validation by rules alone has its result with its review.
ReviewedByRules(i) ==
    /\ i.terms = "few"
    /\ i.status = Unset <=> i.initial = Unset
    /\ i.status = "PASSED" => i.initial = "clean"
    /\ i.status = "HELD" => i.initial # "clean"

\* An item of the other validation: after a repair it is reviewed again, and only
\* a repair can bring too many terms.
Clean(i) == IF i.repair = Unset THEN i.initial = "clean" /\ i.initialTone = "clean"
                                ELSE i.final = "clean" /\ i.finalTone = "clean"
ReviewedTwice(i) ==
    /\ i.repair = Unset => i.terms = "few" /\ i.final = Unset
    /\ i.repair # Unset =>
          \/ i.initial = "findings"
          \/ i.initial = "clean" /\ i.initialTone = "findings"
    /\ i.final = "clean" => i.terms = "few"
    /\ i.status = "PASSED" => Clean(i)
    /\ i.status = "HELD" => ~Clean(i)

ItemIsRight(stage, at, i, from) ==
    CASE stage = "collection" -> Collected(at, i)
      [] stage = "generation" -> i.articles \subseteq from.selected
      [] stage = "RULES_ONLY" -> ReviewedByRules(i)
      [] stage = "TONE" -> ReviewedTwice(i)

\* A snapshot of a stage that was given some results of the stage before.
Good(k, s, given, from) ==
    IF k[1] = "discovery" THEN s \in DiscoverySnapshot /\ s.at = k[2]
    ELSE /\ s \in [at : Day, results : [given -> Item(k[1])]]
         /\ \A c \in given : ItemIsRight(k[1], s.at, s.results[c], from[c])

From(k) == <<SourceOf(k[1]), k[2]>>
GoodHere(k, s) == Good(k, s, HandedOn(From(k)), ResultsOf(From(k)))

-----------------------------------------------------------------------------
(* The inductive invariant.                                                *)

Counters ==
    /\ today \in Day /\ index \in 0..LastDay /\ checked \in 0..LastDay
    /\ claims \in 0..MaxClaims /\ happened \in 0..MaxEvents /\ late \in BOOLEAN

\* A row is RUNNING or not, its source is complete and its snapshot good; a
\* complete discovery has made its groups; the index is that of a collection in
\* progress.
RowIsRight(k) ==
    LET row == runs[k] IN
    /\ DOMAIN row = {"status", "owner", "stale", "snapshot"}
    /\ row.status \in {"RUNNING", "FAILED", "COMPLETED"}
    /\ row.owner \in 0..claims /\ row.stale \in BOOLEAN
    /\ GoodHere(k, row.snapshot)
    /\ k[1] # "discovery" => Completed(From(k))
    /\ k[1] = "discovery" /\ row.status = "COMPLETED" =>
          row.snapshot.since # Unset /\ row.snapshot.candidates \in SUBSET Candidate
    /\ k[1] = "collection" /\ row.status = "RUNNING" => index = row.snapshot.at

Rows == DOMAIN runs \subseteq Key /\ \A k \in DOMAIN runs : RowIsRight(k)

\* The tracked issue: a window of day d may begin at t if another has ended there
\* and, as long as no discovery was claimed after its day, none is left out.
Discovery(d) == <<"discovery", d>>
SinceOf(d) == runs[Discovery(d)].snapshot.since
Followed(d) == d \in Day /\ Completed(Discovery(d)) /\ SinceOf(d) # NoTrack
Latest(d) == HasRow(Discovery(d)) /\ \A e \in Day : HasRow(Discovery(e)) => e <= d

Fits(t, d) ==
    /\ t < d
    /\ t = 0 \/ Followed(t)
    /\ ~late => \A e \in Day : Followed(e) /\ e < d => e <= t

\* Every window fits, of a discovery that is complete or not; and until one is
\* claimed too late, the one in progress is that of the last day that has one.
Tracks ==
    /\ \A d \in Day : HasRow(Discovery(d)) => d <= today
    /\ checked = 0 \/ \E e \in Day : Followed(e) /\ checked = e
    /\ \A d \in Day, t \in Nat : HasRow(Discovery(d)) /\ SinceOf(d) = t => Fits(t, d)
    /\ ~late => \A d \in Day :
          /\ HasRow(Discovery(d)) /\ runs[Discovery(d)].status = "RUNNING" => Latest(d)
          /\ Followed(d) => d <= checked

TermsPassed ==
    /\ definitions \in [Candidate -> {Unset, <<"published">>} \cup Key]
    /\ \A c \in Candidate : definitions[c] \in Key =>
          Completed(definitions[c]) /\ ResultsOf(definitions[c])[c].status = "PASSED"

\* A process that is not idle has claimed a row of its own.
Claimants ==
    /\ DOMAIN process = Process
    /\ \A p \in Process :
          /\ DOMAIN process[p] = {"pc", "key", "owner", "snapshot", "entered"}
          /\ process[p].pc \in {"Idle", "Work", "Save", "Complete", "Fail"}
          /\ process[p].pc # "Idle" => HasRow(process[p].key) /\ process[p].owner \in 1..claims
    /\ \A p, q \in Process :
          process[p].pc # "Idle" /\ process[q].pc # "Idle" /\ process[p].owner = process[q].owner
             => p = q

\* What an owner has in memory goes on from what is saved.
MemoryOf(w) ==
    LET k == w.key
        saved == runs[k].snapshot
    IN  /\ GoodHere(k, w.snapshot)
        /\ w.snapshot.at = saved.at
        /\ Kept(k, saved, w.snapshot)
        /\ k[1] = "discovery" => \A t \in Nat : w.snapshot.since = t => Fits(t, k[2])
        /\ w.pc = "Complete" => /\ k[1] = "discovery" /\ w.snapshot.since # Unset
                                /\ w.snapshot.candidates \in SUBSET Candidate

Holds(p) == process[p].pc \in {"Work", "Save", "Complete"} /\ Owned(p)
Memory == \A p \in Process : Holds(p) => MemoryOf(process[p])

StagesInv ==
    /\ Counters /\ Rows /\ OneRunPerStage /\ Tracks /\ TermsPassed /\ Claimants /\ Memory

-----------------------------------------------------------------------------
(* Collection.                                                             *)

\* No more articles are selected than may be.
LEMMA SelectedBound ==
    ASSUME NEW relevant \in SUBSET Article
    PROVE  /\ selectArticles(relevant) \in SUBSET Article
           /\ Cardinality(selectArticles(relevant)) \in 0..MaxSelected
<1> DEFINE n == Cardinality(Article)
           S == selectArticles(relevant)
           upTo(a) == {b \in relevant : b <= a}
<1>1. n \in Nat /\ S \subseteq relevant /\ S \in SUBSET (0..n) /\ S \in SUBSET Article
  BY StagesAssumption DEF selectArticles
<1>2. IsFiniteSet(1..n)
  BY <1>1, FS_Interval
<1>3. \A a : IsFiniteSet(upTo(a))
  BY <1>2, FS_Subset, StagesAssumption
<1>4. CASE S = {}
  BY <1>1, <1>4, FS_EmptySet, StagesAssumption
<1>5. CASE S # {}
  <2>1. Max(S) \in S /\ \A y \in S : y <= Max(S)
    BY <1>1, <1>5, GreatestIsIn
  <2>2. S \subseteq upTo(Max(S))
    BY <1>1, <2>1
  <2>3. Cardinality(S) <= Cardinality(upTo(Max(S))) /\ IsFiniteSet(S)
    BY <1>3, <2>2, FS_Subset
  <2>4. Cardinality(upTo(Max(S))) <= MaxSelected
    BY <2>1 DEF selectArticles
  <2>5. Cardinality(S) \in Nat /\ Cardinality(upTo(Max(S))) \in Nat
    BY <1>3, <2>3, FS_CardinalityType
  <2>6. QED
    BY <1>1, <2>3, <2>4, <2>5, StagesAssumption
<1>6. QED
  BY <1>4, <1>5

\* However many articles are found, their publishers are counted by a number.
LEMMA PublisherCount ==
    ASSUME NEW relevant \in SUBSET Article
    PROVE  countPublishers(relevant) \in Nat
<1>1. IsFiniteSet(Article)
  BY StagesAssumption, FS_Interval
<1>2. IsFiniteSet(relevant)
  BY <1>1, FS_Subset
<1> DEFINE publishers == {PublisherOf[a] : a \in relevant}
           f == [a \in relevant |-> PublisherOf[a]]
<1>3. f \in Surjection(relevant, publishers)
  BY DEF Surjection
<1>4. IsFiniteSet(publishers)
  BY <1>2, <1>3, FS_Surjection
<1>5. QED
  BY <1>4, FS_CardinalityType DEF countPublishers

\* A step of a collection keeps what its item has, and selects by the rules.
LEMMA CollectionStep ==
    ASSUME NEW i \in CollectionItem, i.status = Unset, Collected(index, i), index \in Int,
           NEW j \in CollectionSteps(i)
    PROVE  j \in CollectionItem /\ Collected(index, j) /\ KeptResult("collection", i, j)
<1> USE StagesAssumption
<1>1. CASE i.existing = Unset
  <2>1. j = [i EXCEPT !.existing = index]
    BY <1>1 DEF CollectionSteps
  <2>2. QED
    BY <1>1, <2>1 DEF CollectionItem, Collected, KeptResult
<1>2. CASE i.existing # Unset /\ i.duplicate = Unset
  <2>1. PICK d \in {"yes", "no"} : j = [i EXCEPT !.duplicate = d]
    BY <1>2 DEF CollectionSteps
  <2>2. QED
    BY <1>2, <2>1 DEF CollectionItem, Collected, KeptResult
<1>3. CASE i.existing # Unset /\ i.duplicate = "yes"
  <2>1. j = [i EXCEPT !.status = "DUPLICATE"]
    BY <1>3 DEF CollectionSteps
  <2>2. QED
    BY <1>3, <2>1 DEF CollectionItem, Collected, KeptResult
<1>4. CASE i.existing # Unset /\ i.duplicate \notin {Unset, "yes"} /\ i.articles = Unset
  <2>1. PICK found \in {{}, Article} : j = [i EXCEPT !.articles = found]
    BY <1>4 DEF CollectionSteps
  <2>2. QED
    BY <1>4, <2>1 DEF CollectionItem, Collected, KeptResult
<1>5. CASE /\ i.existing # Unset /\ i.duplicate \notin {Unset, "yes"}
           /\ i.articles # Unset /\ i.relevant = Unset
  <2>1. PICK kept \in SUBSET i.articles : j = [i EXCEPT !.relevant = kept]
    BY <1>5 DEF CollectionSteps
  <2>2. i.articles \in SUBSET Article
    BY <1>5 DEF CollectionItem
  <2>3. QED
    BY <1>5, <2>1, <2>2 DEF CollectionItem, Collected, KeptResult
<1>6. CASE /\ i.existing # Unset /\ i.duplicate \notin {Unset, "yes"}
           /\ i.articles # Unset /\ i.relevant # Unset
  <2>1. j = CollectionStatus(i)
    BY <1>6 DEF CollectionSteps
  <2>2. i.relevant \in SUBSET Article
    BY <1>6 DEF CollectionItem
  <2> DEFINE chosen == selectArticles(i.relevant)
             status == IF Cardinality(chosen) < 2 THEN "INSUFFICIENT_ARTICLES"
                       ELSE IF countPublishers(i.relevant) < 2 THEN "INSUFFICIENT_PUBLISHERS"
                       ELSE "SELECTED"
             selected == IF status = "SELECTED" THEN chosen ELSE {}
  <2>3. chosen \in SUBSET Article /\ Cardinality(chosen) \in 0..MaxSelected
    BY <2>2, SelectedBound
  <2>4. j = [i EXCEPT !.status = status, !.selected = selected]
    BY <2>1 DEF CollectionStatus
  <2> HIDE DEF chosen, status, selected
  <2>5. status \in {"INSUFFICIENT_ARTICLES", "INSUFFICIENT_PUBLISHERS", "SELECTED"}
    BY DEF status
  <2>6. /\ j.status = status /\ j.selected = selected /\ j.relevant = i.relevant
        /\ j.existing = i.existing
    BY <2>4 DEF CollectionItem
  <2>7. j \in CollectionItem
    BY <2>3, <2>4, <2>5 DEF CollectionItem, selected
  <2>8. Collected(index, j)
    <3>1. CASE status = "SELECTED"
      <4>1. Cardinality(chosen) >= 2 /\ ~ (countPublishers(i.relevant) < 2) /\ selected = chosen
        BY <2>3, <3>1 DEF status, selected
      <4>2. countPublishers(i.relevant) >= 2
        BY <2>2, <4>1, PublisherCount
      <4>3. QED
        BY <2>2, <2>3, <2>6, <4>1, <4>2 DEF Collected, chosen
    <3>2. QED
      BY <2>6, <3>1 DEF Collected
  <2>9. KeptResult("collection", i, j)
    BY <2>4 DEF KeptResult, CollectionItem
  <2>10. QED
    BY <2>7, <2>8, <2>9
<1>7. QED
  BY <1>1, <1>2, <1>3, <1>4, <1>5, <1>6

-----------------------------------------------------------------------------
(* Generation.                                                             *)

\* A step of a generation keeps what its item has, and fetches selected articles.
LEMMA GenerationStep ==
    ASSUME NEW i \in GenerationItem, i.status = Unset, NEW selected \in SUBSET Article,
           i.articles \subseteq selected, NEW c,
           NEW j \in GenerationSteps(c, i, selected)
    PROVE  /\ j \in GenerationItem /\ j.articles \subseteq selected
           /\ KeptResult("generation", i, j)
<1> DEFINE unread == selected \ (i.articles \cup i.fetchFailures)
           a == Min(unread)
<1>1. CASE unread # {}
  <2>1. a \in unread
    BY <1>1, LeastIsIn, StagesAssumption
  <2>2. \/ j = [i EXCEPT !.articles = @ \cup {a}]
        \/ j = [i EXCEPT !.fetchFailures = @ \cup {a}]
    BY <1>1 DEF GenerationSteps, FetchBody
  <2> HIDE DEF a
  <2>3. CASE j = [i EXCEPT !.articles = @ \cup {a}]
    BY <2>1, <2>3 DEF GenerationItem, KeptResult
  <2>4. CASE j = [i EXCEPT !.fetchFailures = @ \cup {a}]
    BY <2>1, <2>4 DEF GenerationItem, KeptResult
  <2>5. QED
    BY <2>2, <2>3, <2>4
<1>2. CASE unread = {} /\ Cardinality(i.articles) < 2
  <2>1. j = [i EXCEPT !.status = "INSUFFICIENT_BODIES"]
    BY <1>2 DEF GenerationSteps
  <2>2. QED
    BY <2>1 DEF GenerationItem, KeptResult
<1>3. CASE unread = {} /\ ~ (Cardinality(i.articles) < 2) /\ i.draft = Unset
  <2>1. j = [i EXCEPT !.draft = "checked"]
    BY <1>3 DEF GenerationSteps
  <2>2. QED
    BY <1>3, <2>1 DEF GenerationItem, KeptResult
<1>4. CASE /\ unread = {} /\ ~ (Cardinality(i.articles) < 2) /\ i.draft # Unset
           /\ i.classification = Unset
  <2>1. j = [i EXCEPT !.classification = "checked"]
    BY <1>4 DEF GenerationSteps
  <2>2. QED
    BY <1>4, <2>1 DEF GenerationItem, KeptResult
<1>5. CASE /\ unread = {} /\ ~ (Cardinality(i.articles) < 2) /\ i.draft # Unset
           /\ i.classification # Unset /\ i.glossary = Unset
  <2>1. j = [i EXCEPT !.glossary = Glossary(c)]
    BY <1>5 DEF GenerationSteps
  <2>2. Glossary(c) \in {"DATABASE", "GENERATED"}
    BY DEF Glossary
  <2>3. QED
    BY <1>5, <2>1, <2>2 DEF GenerationItem, KeptResult
<1>6. CASE /\ unread = {} /\ ~ (Cardinality(i.articles) < 2) /\ i.draft # Unset
           /\ i.classification # Unset /\ i.glossary # Unset
  <2>1. j = [i EXCEPT !.status = "GENERATED"]
    BY <1>6 DEF GenerationSteps
  <2>2. QED
    BY <2>1 DEF GenerationItem, KeptResult
<1>7. QED
  BY <1>1, <1>2, <1>3, <1>4, <1>5, <1>6

-----------------------------------------------------------------------------
(* Validation.                                                             *)

\* Rules find too many terms.
LEMMA RulesSee ==
    ASSUME NEW i, NEW r \in Rules(i)
    PROVE  r \in {"clean", "findings", "source"} /\ (r = "clean" => i.terms = "few")
BY DEF Rules

\* By rules alone: one review, which is the result.
LEMMA RulesOnlyStep ==
    ASSUME NEW i \in ValidationItem, ReviewedByRules(i), i.status = Unset,
           NEW j \in RulesOnly(i)
    PROVE  j \in ValidationItem /\ ReviewedByRules(j) /\ KeptResult("RULES_ONLY", i, j)
<1>1. PICK r \in Rules(i) :
        j = [i EXCEPT !.initial = r, !.status = IF r = "clean" THEN "PASSED" ELSE "HELD"]
  BY DEF RulesOnly
<1>2. r \in {"clean", "findings", "source"}
  BY RulesSee
<1>3. QED
  BY <1>1, <1>2, StagesAssumption DEF ValidationItem, ReviewedByRules, KeptResult

\* After a repair there is one more review.
LEMMA FinalReviewStep ==
    ASSUME NEW i \in ValidationItem, ReviewedTwice(i), i.status = Unset, i.repair # Unset,
           NEW j \in FinalReview(i)
    PROVE  j \in ValidationItem /\ ReviewedTwice(j) /\ KeptResult("TONE", i, j)
<1> USE StagesAssumption
<1>1. CASE i.final = Unset
  <2>1. PICK r \in Rules(i) : j = [i EXCEPT !.final = r]
    BY <1>1 DEF FinalReview
  <2>2. r \in {"clean", "findings", "source"} /\ (r = "clean" => i.terms = "few")
    BY RulesSee
  <2>3. QED
    BY <1>1, <2>1, <2>2 DEF ValidationItem, ReviewedTwice, Clean, KeptResult
<1>2. CASE i.final # Unset /\ i.final # "clean"
  <2>1. j = [i EXCEPT !.status = "HELD"]
    BY <1>2 DEF FinalReview
  <2>2. QED
    BY <1>2, <2>1 DEF ValidationItem, ReviewedTwice, Clean, KeptResult
<1>3. CASE i.final = "clean" /\ i.finalTone = Unset
  <2>1. PICK t \in Tone : j = [i EXCEPT !.finalTone = t]
    BY <1>3 DEF FinalReview
  <2>2. QED
    BY <1>3, <2>1 DEF ValidationItem, ReviewedTwice, Clean, KeptResult
<1>4. CASE i.final = "clean" /\ i.finalTone # Unset
  <2>1. j = [i EXCEPT !.status = IF i.finalTone = "clean" THEN "PASSED" ELSE "HELD"]
    BY <1>4 DEF FinalReview
  <2>2. QED
    BY <1>4, <2>1 DEF ValidationItem, ReviewedTwice, Clean, KeptResult
<1>5. QED
  BY <1>1, <1>2, <1>3, <1>4

\* Before it there is one, and the repair.
LEMMA InitialReviewStep ==
    ASSUME NEW i \in ValidationItem, ReviewedTwice(i), i.status = Unset,
           NEW j \in InitialReview(i)
    PROVE  j \in ValidationItem /\ ReviewedTwice(j) /\ KeptResult("TONE", i, j)
<1> USE StagesAssumption
<1>1. CASE i.initial = Unset
  <2>1. PICK r \in Rules(i) : j = [i EXCEPT !.initial = r]
    BY <1>1 DEF InitialReview
  <2>2. r \in {"clean", "findings", "source"}
    BY RulesSee
  <2>3. i.repair = Unset
    BY <1>1 DEF ReviewedTwice
  <2>4. QED
    BY <1>1, <2>1, <2>2, <2>3 DEF ValidationItem, ReviewedTwice, Clean, KeptResult
<1>2. CASE i.initial = "clean" /\ i.initialTone = Unset
  <2>1. PICK t \in Tone : j = [i EXCEPT !.initialTone = t]
    BY <1>2 DEF InitialReview
  <2>2. i.repair = Unset
    BY <1>2 DEF ReviewedTwice
  <2>3. QED
    BY <1>2, <2>1, <2>2 DEF ValidationItem, ReviewedTwice, Clean, KeptResult
<1>3. CASE i.initial = "clean" /\ i.initialTone = "clean"
  <2>1. j = [i EXCEPT !.status = "PASSED"]
    BY <1>3 DEF InitialReview
  <2>2. i.repair = Unset
    BY <1>3 DEF ReviewedTwice
  <2>3. QED
    BY <1>3, <2>1, <2>2 DEF ValidationItem, ReviewedTwice, Clean, KeptResult
<1>4. CASE i.initial = "source"
  <2>1. j = [i EXCEPT !.status = "HELD"]
    BY <1>4 DEF InitialReview
  <2>2. i.repair = Unset
    BY <1>4 DEF ReviewedTwice
  <2>3. QED
    BY <1>4, <2>1, <2>2 DEF ValidationItem, ReviewedTwice, Clean, KeptResult
<1> DEFINE Found == \/ i.initial = "findings"
                    \/ i.initial = "clean" /\ i.initialTone = "findings"
<1>5. CASE Found /\ i.repair = Unset
  <2>1. j \in Repaired(i)
    BY <1>5 DEF InitialReview
  <2>2. CASE j = [i EXCEPT !.repair = "INVALID", !.status = "HELD"]
    BY <1>5, <2>2 DEF ValidationItem, ReviewedTwice, Clean, KeptResult
  <2>3. ASSUME NEW n \in {"few", "many"}, j = [i EXCEPT !.repair = "applied", !.terms = n]
        PROVE  j \in ValidationItem /\ ReviewedTwice(j) /\ KeptResult("TONE", i, j)
    BY <1>5, <2>3 DEF ValidationItem, ReviewedTwice, Clean, KeptResult
  <2>4. QED
    BY <2>1, <2>2, <2>3 DEF Repaired
<1>6. CASE Found /\ i.repair # Unset
  <2>1. j \in FinalReview(i)
    BY <1>6 DEF InitialReview
  <2>2. QED
    BY <1>6, <2>1, FinalReviewStep
<1>7. QED
  BY <1>1, <1>2, <1>3, <1>4, <1>5, <1>6 DEF ValidationItem, Tone

\* A step of a validation.
LEMMA ValidationStep ==
    ASSUME NEW mode \in Mode, NEW at, NEW from, NEW i \in ValidationItem,
           ItemIsRight(mode, at, i, from), NEW c, NEW entered,
           i.status = Unset \/ (i.terms = "many" /\ c \notin entered),
           NEW j \in ValidationSteps(mode, c, i, entered)
    PROVE  j \in ValidationItem /\ ItemIsRight(mode, at, j, from) /\ KeptResult(mode, i, j)
<1>1. CASE mode = "RULES_ONLY"
  <2>1. ReviewedByRules(i) /\ i.terms = "few"
    BY <1>1 DEF ItemIsRight, ReviewedByRules
  <2>2. i.status = Unset /\ j \in RulesOnly(i)
    BY <1>1, <2>1 DEF ValidationSteps
  <2>3. QED
    BY <1>1, <2>1, <2>2, RulesOnlyStep DEF ItemIsRight
<1>2. CASE mode = "TONE"
  <2>1. ReviewedTwice(i)
    BY <1>2 DEF ItemIsRight
  <2>2. CASE i.terms = "many" /\ c \notin entered
    <3>1. j = [i EXCEPT !.terms = "few"]
      BY <2>2 DEF ValidationSteps
    <3>2. j \in ValidationItem /\ ReviewedTwice(j) /\ KeptResult("TONE", i, j)
      BY <2>1, <2>2, <3>1 DEF ValidationItem, ReviewedTwice, Clean, KeptResult
    <3>3. QED
      BY <1>2, <3>2 DEF ItemIsRight
  <2>3. CASE ~ (i.terms = "many" /\ c \notin entered)
    <3>1. j \in InitialReview(i)
      BY <1>2, <2>3 DEF ValidationSteps
    <3>2. QED
      BY <1>2, <2>1, <2>3, <3>1, InitialReviewStep DEF ItemIsRight
  <2>4. QED
    BY <2>2, <2>3
<1>3. QED
  BY <1>1, <1>2 DEF Mode

-----------------------------------------------------------------------------
(* What is kept of a snapshot.                                             *)

\* A prefix is a sequence that agrees with the longer one as far as it goes.
LEMMA PrefixElements ==
    ASSUME NEW S, NEW s \in Seq(S), NEW t \in Seq(S)
    PROVE  IsPrefix(s, t) <=> Len(s) <= Len(t) /\ \A n \in 1..Len(s) : s[n] = t[n]
<1>1. CASE Len(s) <= Len(t)
  <2>1. /\ Len(SubSeq(s, 1, Len(s))) = Len(s) /\ Len(SubSeq(t, 1, Len(s))) = Len(s)
        /\ \A n \in 1..Len(s) : /\ SubSeq(s, 1, Len(s))[n] = s[n]
                                /\ SubSeq(t, 1, Len(s))[n] = t[n]
    BY <1>1
  <2>2. SubSeq(s, 1, Len(s)) \in Seq(S) /\ SubSeq(t, 1, Len(s)) \in Seq(S)
    BY <1>1
  <2>3. SubSeq(s, 1, Len(s)) = SubSeq(t, 1, Len(s)) <=> \A n \in 1..Len(s) : s[n] = t[n]
    BY <2>1, <2>2
  <2>4. QED
    BY <1>1, <2>3 DEF IsPrefix
<1>2. QED
  BY <1>1 DEF IsPrefix

\* The items of one stage have the same fields.
LEMMA SameFields ==
    ASSUME NEW stage, NEW i \in Item(stage), NEW j \in Item(stage)
    PROVE  DOMAIN i = DOMAIN j
BY DEF Item, CollectionItem, GenerationItem, ValidationItem

\* A snapshot keeps what it has.
LEMMA KeptSame ==
    ASSUME NEW k, NEW s, NEW given, NEW from, Good(k, s, given, from)
    PROVE  Kept(k, s, s)
<1>1. CASE k[1] = "discovery"
  <2>1. s.results \in Seq(SUBSET Candidate)
    BY <1>1 DEF Good, DiscoverySnapshot
  <2>2. IsPrefix(s.results, s.results)
    BY <2>1, PrefixElements
  <2>3. QED
    BY <1>1, <2>2 DEF Kept
<1>2. CASE k[1] # "discovery"
  BY <1>2 DEF Kept, KeptResult
<1>3. QED
  BY <1>1, <1>2

\* What is kept in two steps is kept.
LEMMA KeptOn ==
    ASSUME NEW k, NEW r, NEW s, NEW t, NEW given, NEW from,
           Good(k, r, given, from), Good(k, s, given, from), Good(k, t, given, from),
           Kept(k, r, s), Kept(k, s, t)
    PROVE  Kept(k, r, t)
<1>1. CASE k[1] = "discovery"
  <2>1. /\ r.results \in Seq(SUBSET Candidate) /\ s.results \in Seq(SUBSET Candidate)
        /\ t.results \in Seq(SUBSET Candidate)
    BY <1>1 DEF Good, DiscoverySnapshot
  <2>2. IsPrefix(r.results, s.results) /\ IsPrefix(s.results, t.results)
    BY <1>1 DEF Kept
  <2>3. /\ Len(r.results) <= Len(s.results) /\ Len(s.results) <= Len(t.results)
        /\ \A n \in 1..Len(r.results) : r.results[n] = s.results[n]
        /\ \A n \in 1..Len(s.results) : s.results[n] = t.results[n]
    BY <2>1, <2>2, PrefixElements
  <2>4. Len(r.results) <= Len(t.results) /\ \A n \in 1..Len(r.results) : r.results[n] = t.results[n]
    <3>1. Len(r.results) \in Nat /\ Len(s.results) \in Nat /\ Len(t.results) \in Nat
      BY <2>1
    <3>2. QED
      BY <2>3, <3>1
  <2>5. IsPrefix(r.results, t.results)
    BY <2>1, <2>4, PrefixElements
  <2>6. r.since = Unset \/ t.since = r.since
    BY <1>1 DEF Kept
  <2>7. QED
    BY <1>1, <2>5, <2>6 DEF Kept
<1>2. CASE k[1] # "discovery"
  <2>1. DOMAIN r.results = given /\ DOMAIN s.results = given /\ DOMAIN t.results = given
    BY <1>2 DEF Good
  <2>2. ASSUME NEW c \in given
        PROVE  KeptResult(k[1], r.results[c], t.results[c])
    <3>1. KeptResult(k[1], r.results[c], s.results[c]) /\ KeptResult(k[1], s.results[c], t.results[c])
      BY <1>2, <2>1, <2>2 DEF Kept
    <3>2. r.results[c] \in Item(k[1]) /\ s.results[c] \in Item(k[1])
      BY <1>2, <2>2 DEF Good
    <3>3. DOMAIN r.results[c] = DOMAIN s.results[c]
      BY <3>2, SameFields
    <3>4. QED
      BY <3>1, <3>3 DEF KeptResult
  <2>3. QED
    BY <1>2, <2>1, <2>2 DEF Kept
<1>3. QED
  BY <1>1, <1>2

\* A step of a discovery keeps what there is, and looks back to where the issue
\* was followed last.
LEMMA DiscoveryStep ==
    ASSUME NEW k, k[1] = "discovery", NEW s \in DiscoverySnapshot, checked \in Nat,
           NEW j \in DiscoverySteps(s)
    PROVE  /\ j \in DiscoverySnapshot /\ j.at = s.at /\ Kept(k, s, j)
           /\ j.since \in Nat => j.since = s.since \/ (j.since = checked /\ checked < s.at)
           /\ AllQueried(s) => j.since # Unset /\ j.candidates \in SUBSET Candidate
<1> USE StagesAssumption DEF NoTrack
<1>0. s.results \in Seq(SUBSET Candidate)
  BY DEF DiscoverySnapshot
<1>1. CASE s.since = Unset
  <2>1. PICK t \in {NoTrack, checked} :
           j = [s EXCEPT !.since = t] /\ (t = checked => checked < s.at)
    BY <1>1 DEF DiscoverySteps
  <2>2. j \in DiscoverySnapshot /\ j.at = s.at /\ j.since = t /\ j.results = s.results
    BY <2>1 DEF DiscoverySnapshot
  <2>3. Kept(k, s, j)
    BY <1>0, <1>1, <2>2, PrefixElements DEF Kept
  <2>4. QED
    BY <1>1, <2>1, <2>2, <2>3 DEF AllQueried
<1>2. CASE s.since # Unset /\ ~AllQueried(s)
  <2>1. PICK found \in SUBSET Candidate : j = [s EXCEPT !.results = Append(@, found)]
    BY <1>2 DEF DiscoverySteps, Extracted
  <2> DEFINE more == Append(s.results, found)
  <2>2. /\ more \in Seq(SUBSET Candidate) /\ Len(s.results) <= Len(more)
        /\ \A n \in 1..Len(s.results) : s.results[n] = more[n]
    BY <1>0
  <2>3. IsPrefix(s.results, more)
    BY <1>0, <2>2, PrefixElements
  <2>4. j = [s EXCEPT !.results = more]
    BY <2>1
  <2> HIDE DEF more
  <2>5. j \in DiscoverySnapshot /\ j.at = s.at /\ j.since = s.since /\ j.results = more
    BY <2>2, <2>4 DEF DiscoverySnapshot
  <2>6. QED
    BY <1>2, <2>3, <2>5 DEF Kept
<1>3. CASE s.since # Unset /\ AllQueried(s)
  <2>1. PICK kept \in SUBSET UNION Range(s.results) : j = [s EXCEPT !.candidates = kept]
    BY <1>3 DEF DiscoverySteps, Grouped
  <2>2. kept \in SUBSET Candidate
    <3>1. \A found \in Range(s.results) : found \subseteq Candidate
      BY <1>0 DEF Range
    <3>2. QED
      BY <2>1, <3>1
  <2>3. /\ j \in DiscoverySnapshot /\ j.at = s.at /\ j.since = s.since /\ j.results = s.results
        /\ j.candidates = kept
    BY <2>1, <2>2 DEF DiscoverySnapshot
  <2>4. Kept(k, s, j)
    BY <1>0, <2>3, PrefixElements DEF Kept
  <2>5. QED
    BY <1>3, <2>2, <2>3, <2>4
<1>4. QED
  BY <1>1, <1>2, <1>3

\* A step of another stage changes one result.
LEMMA ResultStep ==
    ASSUME NEW k, k[1] # "discovery", NEW s, NEW given, NEW from, Good(k, s, given, from),
           NEW c \in given, NEW i \in Item(k[1]), ItemIsRight(k[1], s.at, i, from[c]),
           KeptResult(k[1], s.results[c], i)
    PROVE  LET t == [s EXCEPT !.results[c] = i]
           IN  Good(k, t, given, from) /\ t.at = s.at /\ Kept(k, s, t)
<1> DEFINE t == [s EXCEPT !.results[c] = i]
<1>1. s \in [at : Day, results : [given -> Item(k[1])]]
  BY DEF Good
<1>2. t.at = s.at /\ t.results = [s.results EXCEPT ![c] = i]
  BY <1>1
<1>3. t \in [at : Day, results : [given -> Item(k[1])]]
  BY <1>1
<1> HIDE DEF t
<1>4. \A d \in given : t.results[d] = IF d = c THEN i ELSE s.results[d]
  BY <1>1, <1>2
<1>5. Good(k, t, given, from)
  BY <1>2, <1>3, <1>4 DEF Good
<1>6. Kept(k, s, t)
  BY <1>1, <1>3, <1>4 DEF Kept, KeptResult
<1>7. QED
  BY <1>2, <1>5, <1>6 DEF t

-----------------------------------------------------------------------------
(* What a step leaves as it is.                                            *)

CompletedStay ==
    \A j \in DOMAIN runs : Completed(j) => j \in DOMAIN runs' /\ runs'[j] = runs[j]

\* A completed run, what it hands on and its results stay as they are.
LEMMA Frozen ==
    ASSUME CompletedStay, NEW CONSTANT j, Completed(j)
    PROVE  /\ Completed(j)' /\ HandedOn(j)' = HandedOn(j)
           /\ ResultsOf(j)' = ResultsOf(j)
BY DEF CompletedStay, Completed, HasRow, HandedOn, ResultsOf

\* A snapshot that was right for a run stays so: the run it was taken from is completed.
LEMMA GoodStays ==
    ASSUME CompletedStay, NEW CONSTANT k, NEW CONSTANT s,
           k[1] # "discovery" => Completed(From(k)), GoodHere(k, s)
    PROVE  GoodHere(k, s)'
<1>1. CASE k[1] = "discovery"
  BY <1>1 DEF GoodHere, Good
<1>2. CASE k[1] # "discovery"
  <2>1. /\ HandedOn(From(k))' = HandedOn(From(k))
        /\ ResultsOf(From(k))' = ResultsOf(From(k))
    BY <1>2, Frozen
  <2>2. QED
    BY <2>1 DEF GoodHere
<1>3. QED
  BY <1>1, <1>2

\* A row keeps its snapshot and stays as it is, or fails.
SameRow(old, new) ==
    /\ DOMAIN new = DOMAIN old /\ new.snapshot = old.snapshot /\ new.stale \in BOOLEAN
    /\ \/ new.status = old.status /\ new.owner = old.owner
       \/ old.status = "RUNNING" /\ new.status = "FAILED" /\ new.owner = 0

\* A row that a step leaves alone is right after it: neither claims nor the index it
\* rests on can be taken back under it.
LEMMA RowStays ==
    ASSUME Rows, CompletedStay, NEW CONSTANT j \in DOMAIN runs, SameRow(runs[j], runs'[j]),
           claims \in Nat, claims' \in Nat, claims <= claims',
           j[1] = "collection" /\ runs'[j].status = "RUNNING" => index' = index
    PROVE  RowIsRight(j)'
<1>1. RowIsRight(j)
  BY DEF Rows
<1>2. PICK s : s = runs[j].snapshot
  OBVIOUS
<1>3. runs'[j].snapshot = s
  BY <1>2 DEF SameRow
<1>4. GoodHere(j, s)'
  BY <1>1, <1>2, GoodStays DEF RowIsRight
<1>5. GoodHere(j, runs[j].snapshot)'
  BY <1>3, <1>4 DEF GoodHere
<1>6. j[1] # "discovery" => Completed(From(j))'
  BY <1>1, Frozen DEF RowIsRight
<1>7. /\ DOMAIN runs'[j] = {"status", "owner", "stale", "snapshot"}
      /\ runs'[j].status \in {"RUNNING", "FAILED", "COMPLETED"}
      /\ runs'[j].owner \in 0..claims' /\ runs'[j].stale \in BOOLEAN
  BY <1>1 DEF RowIsRight, SameRow
<1>8. /\ j[1] = "discovery" /\ runs'[j].status = "COMPLETED" =>
           runs'[j].snapshot.since # Unset /\ runs'[j].snapshot.candidates \in SUBSET Candidate
      /\ j[1] = "collection" /\ runs'[j].status = "RUNNING" => index' = runs'[j].snapshot.at
  BY <1>1 DEF RowIsRight, SameRow
<1>9. QED
  BY <1>5, <1>6, <1>7, <1>8 DEF RowIsRight

\* A window that fits goes on fitting.
WindowsStay == \A t \in Nat, d \in Day : Fits(t, d) => Fits(t, d)'

\* It does as long as no discovery is completed.
LEMMA WindowsFit ==
    ASSUME \A d : Followed(d)' = Followed(d), late => late'
    PROVE  WindowsStay
<1> SUFFICES ASSUME NEW CONSTANT t \in Nat, NEW CONSTANT d \in Day, Fits(t, d) PROVE Fits(t, d)'
  BY DEF WindowsStay
<1>1. t < d /\ (t = 0 \/ Followed(t)')
  BY DEF Fits
<1>2. ASSUME ~late', NEW CONSTANT e \in Day, Followed(e)', e < d PROVE e <= t
  BY <1>2 DEF Fits
<1>3. QED
  BY <1>1, <1>2 DEF Fits

\* What the rows of the discoveries say of the tracked issue, if the window of one
\* that runs fits.
LEMMA TracksStay ==
    ASSUME Tracks, \A d \in Day : HasRow(Discovery(d))' = HasRow(Discovery(d)),
           \A d \in Day : HasRow(Discovery(d)) =>
               \/ SameRow(runs[Discovery(d)], runs'[Discovery(d)])
               \/ /\ runs[Discovery(d)].status = "RUNNING" /\ runs'[Discovery(d)].status = "RUNNING"
                  /\ \A t \in Nat : SinceOf(d)' = t => Fits(t, d),
           checked' = checked, late => late', today \in Day, today' \in Day, today <= today'
    PROVE  Tracks' /\ WindowsStay
<1>1. \A d \in Day : Completed(Discovery(d))' = Completed(Discovery(d))
  BY DEF Completed, HasRow, SameRow
<1>2. \A d \in Day : Completed(Discovery(d)) => SinceOf(d)' = SinceOf(d)
  BY DEF SinceOf, SameRow, Completed
<1>3. \A d : Followed(d)' = Followed(d)
  BY <1>1, <1>2 DEF Followed
<1>4. WindowsStay
  BY <1>3, WindowsFit
<1>5. \A d \in Day : HasRow(Discovery(d))' => d <= today'
  BY DEF Tracks, Day
<1>6. checked' = 0 \/ \E e \in Day : Followed(e)' /\ checked' = e
  BY <1>3 DEF Tracks
<1>7. ASSUME NEW CONSTANT d \in Day, NEW CONSTANT t \in Nat, HasRow(Discovery(d))', SinceOf(d)' = t
      PROVE  Fits(t, d)'
  <2>1. HasRow(Discovery(d))
    BY <1>7
  <2>2. CASE SameRow(runs[Discovery(d)], runs'[Discovery(d)])
    <3>1. SinceOf(d) = t
      BY <1>7, <2>2 DEF SinceOf, SameRow
    <3>2. QED
      BY <1>4, <2>1, <3>1 DEF Tracks, WindowsStay
  <2>3. CASE ~SameRow(runs[Discovery(d)], runs'[Discovery(d)])
    <3>1. Fits(t, d)
      BY <1>7, <2>1, <2>3
    <3>2. QED
      BY <1>4, <3>1 DEF WindowsStay
  <2>4. QED
    BY <2>2, <2>3
<1>8. ASSUME ~late', NEW CONSTANT d \in Day
      PROVE  /\ HasRow(Discovery(d))' /\ runs'[Discovery(d)].status = "RUNNING" => Latest(d)'
             /\ Followed(d)' => d <= checked'
  <2>1. Latest(d)' = Latest(d)
    BY DEF Latest
  <2>2. HasRow(Discovery(d)) /\ runs'[Discovery(d)].status = "RUNNING" =>
          runs[Discovery(d)].status = "RUNNING"
    BY DEF SameRow
  <2>3. QED
    BY <1>3, <1>8, <2>1, <2>2 DEF Tracks
<1>9. QED
  BY <1>4, <1>5, <1>6, <1>7, <1>8 DEF Tracks

\* What is defined passed its validation in a completed run, and such a run stays.
LEMMA TermsStay ==
    ASSUME TermsPassed, CompletedStay, definitions' = definitions
    PROVE  TermsPassed'
BY DEF TermsPassed, CompletedStay, Completed, HasRow, ResultsOf

\* A process goes on with the row it has claimed, or becomes idle.
Continues(p) ==
    /\ DOMAIN process'[p] = {"pc", "key", "owner", "snapshot", "entered"}
    /\ process'[p].pc \in {"Idle", "Work", "Save", "Complete", "Fail"}
    /\ process'[p].pc # "Idle" => /\ process[p].pc # "Idle"
                                  /\ process'[p].key = process[p].key
                                  /\ process'[p].owner = process[p].owner

\* Processes that go on with what they claimed are still claimants after the step.
LEMMA ClaimantsContinue ==
    ASSUME Claimants, DOMAIN process' = Process, \A p \in Process : Continues(p),
           DOMAIN runs \subseteq DOMAIN runs', claims' = claims
    PROVE  Claimants'
BY DEF Claimants, Continues, HasRow

\* What a process has in memory stays right with its row.
LEMMA MemoryStays ==
    ASSUME Rows, Claimants, Memory, CompletedStay, NEW CONSTANT p \in Process,
           process'[p] = process[p], Holds(p)',
           SameRow(runs[process[p].key], runs'[process[p].key]),
           process[p].key[1] = "discovery" => WindowsStay
    PROVE  MemoryOf(process[p])'
<1>1. PICK w : w = process[p]
  OBVIOUS
<1>2. Holds(p)
  BY <1>1 DEF Holds, Owned, SameRow
<1>3. MemoryOf(w)
  BY <1>1, <1>2 DEF Memory
<1>4. HasRow(w.key) /\ (w.key[1] # "discovery" => Completed(From(w.key)))
  BY <1>1, <1>2 DEF Claimants, Holds, HasRow, Rows, RowIsRight
<1>5. GoodHere(w.key, w.snapshot)'
  BY <1>3, <1>4, GoodStays DEF MemoryOf
<1>6. w.key[1] = "discovery" => \A t \in Nat : w.snapshot.since = t => Fits(t, w.key[2])'
  <2>1. w.key[2] \in Day
    BY <1>4 DEF Rows, HasRow, Key
  <2>2. QED
    BY <1>1, <1>3, <2>1 DEF MemoryOf, WindowsStay
<1>7. MemoryOf(w)'
  BY <1>1, <1>3, <1>5, <1>6 DEF MemoryOf, SameRow
<1>8. QED
  BY <1>1, <1>7 DEF MemoryOf, GoodHere, Fits

-----------------------------------------------------------------------------
(* What a stage hands on.                                                  *)

\* What a completed run hands on are candidates, and what generation is handed was
\* selected by a collection run.
LEMMA HandsOn ==
    ASSUME Rows, NEW k \in Key, k[1] # "discovery", Completed(From(k))
    PROVE  /\ HandedOn(From(k)) \subseteq Candidate
           /\ k[1] = "generation" => \A c \in HandedOn(From(k)) :
                  /\ ResultsOf(From(k))[c] \in CollectionItem
                  /\ Collected(runs[From(k)].snapshot.at, ResultsOf(From(k))[c])
                  /\ ResultsOf(From(k))[c].status = "SELECTED"
<1>1. ASSUME NEW d \in Day, Completed(<<"discovery", d>>)
      PROVE  HandedOn(<<"discovery", d>>) \subseteq Candidate
  BY <1>1 DEF Rows, RowIsRight, Completed, HasRow, HandedOn
<1>2. ASSUME NEW d \in Day, Completed(<<"collection", d>>)
      PROVE  /\ HandedOn(<<"collection", d>>) \subseteq Candidate
             /\ \A c \in HandedOn(<<"collection", d>>) :
                  /\ ResultsOf(<<"collection", d>>)[c] \in CollectionItem
                  /\ Collected(runs[<<"collection", d>>].snapshot.at, ResultsOf(<<"collection", d>>)[c])
                  /\ ResultsOf(<<"collection", d>>)[c].status = "SELECTED"
  <2> DEFINE j == <<"collection", d>>
             s == runs[j].snapshot
  <2>1. j[1] = "collection" /\ j[2] = d /\ From(j) = <<"discovery", d>> /\ Item(j[1]) = CollectionItem
    BY DEF From, SourceOf, Item
  <2>2. RowIsRight(j)
    BY <1>2 DEF Rows, Completed, HasRow
  <2>3. GoodHere(j, s) /\ Completed(From(j))
    BY <2>1, <2>2 DEF RowIsRight
  <2> DEFINE given == HandedOn(From(j))
  <2>4. /\ s.results \in [given -> CollectionItem]
        /\ \A c \in given : Collected(s.at, s.results[c])
    BY <2>1, <2>3 DEF GoodHere, Good, ItemIsRight
  <2>5. given \subseteq Candidate
    BY <1>1, <2>1, <2>3
  <2>6. /\ HandedOn(j) = {c \in DOMAIN s.results : s.results[c].status = "SELECTED"}
        /\ ResultsOf(j) = s.results
    BY <2>1 DEF HandedOn, ResultsOf
  <2> HIDE DEF given, s
  <2>7. QED
    BY <2>4, <2>5, <2>6 DEF s
<1>3. ASSUME NEW d \in Day, Completed(<<"generation", d>>)
      PROVE  HandedOn(<<"generation", d>>) \subseteq Candidate
  <2> DEFINE j == <<"generation", d>>
             s == runs[j].snapshot
  <2>1. j[1] = "generation" /\ j[2] = d /\ From(j) = <<"collection", d>>
    BY DEF From, SourceOf
  <2>2. RowIsRight(j)
    BY <1>3 DEF Rows, Completed, HasRow
  <2>3. GoodHere(j, s) /\ Completed(From(j))
    BY <2>1, <2>2 DEF RowIsRight
  <2>4. DOMAIN s.results = HandedOn(From(j))
    BY <2>1, <2>3 DEF GoodHere, Good
  <2>5. HandedOn(From(j)) \subseteq Candidate
    BY <1>2, <2>1, <2>3
  <2>6. HandedOn(j) \subseteq DOMAIN s.results
    BY <2>1 DEF HandedOn
  <2>7. QED
    BY <2>4, <2>5, <2>6
<1>4. k[2] \in Day /\ k[1] \in {"collection", "generation"} \cup Mode
  BY DEF Key, Stage
<1>5. CASE k[1] = "collection"
  BY <1>1, <1>4, <1>5 DEF From, SourceOf
<1>6. CASE k[1] = "generation"
  BY <1>2, <1>4, <1>6 DEF From, SourceOf
<1>7. CASE k[1] \in Mode
  BY <1>3, <1>4, <1>7 DEF From, SourceOf, Mode
<1>8. QED
  BY <1>4, <1>5, <1>6, <1>7

-----------------------------------------------------------------------------
(* Steps that change no snapshot.                                          *)

\* A process goes on as it was, or has nothing in memory any more.
Calm(p) ==
    \/ process'[p] = process[p]
    \/ Continues(p) /\ process'[p].pc \in {"Idle", "Fail"}

\* A step that leaves the rows alone and lets every process at most give up what it
\* holds keeps the invariant.
LEMMA QuietStep ==
    ASSUME StagesInv, Counters', TermsPassed',
           DOMAIN runs' = DOMAIN runs, \A k \in DOMAIN runs : SameRow(runs[k], runs'[k]),
           \A k \in DOMAIN runs : Completed(k) => runs'[k] = runs[k],
           \/ index' = index
           \/ \A k \in DOMAIN runs : k[1] = "collection" => runs[k].status # "RUNNING",
           checked' = checked, claims' = claims, late' = late, today <= today',
           DOMAIN process' = Process, \A p \in Process : Calm(p)
    PROVE  StagesInv'
<1>1. CompletedStay
  BY DEF CompletedStay
<1>2. Rows'
  <2>1. ASSUME NEW j \in DOMAIN runs PROVE RowIsRight(j)'
    <3>1. j[1] = "collection" /\ runs'[j].status = "RUNNING" => index' = index
      BY <2>1 DEF SameRow
    <3>2. claims \in Nat /\ claims' \in Nat /\ claims <= claims'
      BY DEF StagesInv, Counters
    <3>3. QED
      BY <1>1, <2>1, <3>1, <3>2, RowStays DEF StagesInv
  <2>2. QED
    BY <2>1 DEF StagesInv, Rows
<1>3. OneRunPerStage'
  <2>1. \A k \in DOMAIN runs : runs'[k].status = "RUNNING" => runs[k].status = "RUNNING"
    BY DEF SameRow
  <2>2. QED
    BY <2>1 DEF StagesInv, OneRunPerStage
<1>4. Tracks' /\ WindowsStay
  <2>1. \A d \in Day : HasRow(Discovery(d))' = HasRow(Discovery(d))
    BY DEF HasRow
  <2>2. \A d \in Day : HasRow(Discovery(d)) =>
           SameRow(runs[Discovery(d)], runs'[Discovery(d)])
    BY DEF HasRow
  <2>3. QED
    BY <2>1, <2>2, TracksStay DEF StagesInv, Counters
<1>5. Claimants'
  <2>1. \A p \in Process : Continues(p)
    BY DEF Calm, Continues, StagesInv, Claimants
  <2>2. QED
    BY <2>1, ClaimantsContinue DEF StagesInv
<1>6. Memory'
  <2> SUFFICES ASSUME NEW p \in Process, Holds(p)' PROVE MemoryOf(process[p])'
    BY DEF Memory
  <2>1. process'[p] = process[p]
    BY DEF Calm, Holds
  <2>2. process[p].key \in DOMAIN runs
    BY <2>1 DEF StagesInv, Claimants, HasRow, Holds
  <2>3. QED
    BY <1>1, <1>4, <2>1, <2>2, MemoryStays DEF StagesInv
<1>7. QED
  BY <1>2, <1>3, <1>4, <1>5, <1>6 DEF StagesInv

\* What is not read does not matter.
LEMMA StutterStep == ASSUME StagesInv, UNCHANGED stageVars PROVE StagesInv'
<1>1. Counters' /\ TermsPassed'
  BY DEF StagesInv, stageVars, Counters, TermsPassed, Completed, HasRow, ResultsOf
<1>2. \A k \in DOMAIN runs : SameRow(runs[k], runs'[k])
  BY DEF StagesInv, Rows, RowIsRight, SameRow, stageVars
<1>3. today <= today'
  BY DEF stageVars, StagesInv, Counters, Day
<1>4. DOMAIN process' = Process
  BY DEF stageVars, StagesInv, Claimants
<1>5. QED
  BY <1>1, <1>2, <1>3, <1>4, QuietStep DEF stageVars, Calm

\* The rest of the system.
LEMMA EnvironmentStep ==
    ASSUME StagesInv,
           \/ RefreshSearchIndex \/ NextDay
           \/ \E c \in Candidate : PrepareTerms(c)
           \/ \E k \in Key : LeaseExpires(k)
           \/ \E p \in Process : Heartbeat(p)
    PROVE  StagesInv'
<1>1. Counters /\ Rows /\ TermsPassed /\ DOMAIN process = Process
  BY DEF StagesInv, Claimants
<1>2. \A k \in DOMAIN runs : SameRow(runs[k], runs[k])
  BY <1>1 DEF Rows, RowIsRight, SameRow
<1>3. today \in Nat /\ today <= today
  BY <1>1 DEF Counters, Day
<1>4. CASE RefreshSearchIndex
  <2>1. Counters' /\ TermsPassed' /\ today' = today
    BY <1>1, <1>4, StagesAssumption
       DEF RefreshSearchIndex, Happens, Counters, Day, TermsPassed, Completed, HasRow, ResultsOf
  <2>2. \A k \in DOMAIN runs : k[1] = "collection" => runs[k].status # "RUNNING"
    BY <1>4 DEF RefreshSearchIndex, Rivals, Table, Mode
  <2>3. QED
    BY <1>1, <1>2, <1>3, <1>4, <2>1, <2>2, QuietStep DEF RefreshSearchIndex, Happens, Calm
<1>5. CASE NextDay
  <2>1. Counters' /\ TermsPassed' /\ today <= today'
    BY <1>1, <1>5, StagesAssumption
       DEF NextDay, tables, bounds, Counters, Day, TermsPassed, Completed, HasRow, ResultsOf
  <2>2. QED
    BY <1>1, <1>2, <1>5, <2>1, QuietStep DEF NextDay, tables, bounds, Calm
<1>6. ASSUME NEW c \in Candidate, PrepareTerms(c) PROVE StagesInv'
  <2>1. Counters'
    BY <1>1, <1>6, StagesAssumption DEF PrepareTerms, Happens, Counters
  <2>2. <<"published">> \notin Key
    BY DEF Key
  <2>3. TermsPassed'
    <3>1. \A d \in Candidate : definitions'[d] \in Key => definitions'[d] = definitions[d]
      BY <1>1, <1>6, <2>2 DEF PrepareTerms, TermsPassed
    <3>2. definitions' \in [Candidate -> {Unset, <<"published">>} \cup Key]
      BY <1>1, <1>6 DEF PrepareTerms, TermsPassed
    <3>3. runs' = runs
      BY <1>6 DEF PrepareTerms
    <3>4. QED
      BY <1>1, <3>1, <3>2, <3>3 DEF TermsPassed, Completed, HasRow, ResultsOf
  <2>4. QED
    BY <1>1, <1>2, <1>3, <1>6, <2>1, <2>3, QuietStep DEF PrepareTerms, Calm
<1>7. ASSUME NEW k \in DOMAIN runs, NEW b \in BOOLEAN, runs[k].status = "RUNNING",
             runs' = [runs EXCEPT ![k].stale = b],
             UNCHANGED <<today, index, checked, definitions, process, bounds>>
      PROVE  StagesInv'
  <2>1. DOMAIN runs' = DOMAIN runs /\ \A j \in DOMAIN runs : j # k => runs'[j] = runs[j]
    BY <1>7
  <2>2. SameRow(runs[k], runs'[k])
    BY <1>1, <1>7 DEF Rows, RowIsRight, SameRow
  <2>3. \A j \in DOMAIN runs : Completed(j) => runs'[j] = runs[j]
    BY <1>7, <2>1 DEF Completed
  <2>4. Counters' /\ TermsPassed'
    BY <1>1, <1>7, <2>1, <2>3, TermsStay DEF Counters, CompletedStay, bounds
  <2>5. \A j \in DOMAIN runs : SameRow(runs[j], runs'[j])
    BY <1>2, <2>1, <2>2
  <2>6. QED
    BY <1>1, <1>3, <1>7, <2>1, <2>3, <2>4, <2>5, QuietStep DEF Calm, bounds
<1>8. ASSUME NEW k \in Key, LeaseExpires(k) PROVE StagesInv'
  BY <1>7, <1>8 DEF LeaseExpires, HasRow
<1>9. ASSUME NEW p \in Process, Heartbeat(p) PROVE StagesInv'
  <2>1. process[p].key \in DOMAIN runs
    BY <1>9 DEF StagesInv, Claimants, Heartbeat, HasRow
  <2>2. QED
    BY <1>7, <1>9, <2>1 DEF Heartbeat, Owned
<1>10. QED
  BY <1>4, <1>5, <1>6, <1>8, <1>9

-----------------------------------------------------------------------------
(* Steps of a process that ends, or has lost its row.                      *)

\* A process that gives up leaves the others as they are.
LEMMA GivesUp ==
    ASSUME Claimants, NEW p \in Process, process[p].pc # "Idle", GiveUp(p)
    PROVE  DOMAIN process' = Process /\ \A q \in Process : Calm(q)
<1>1. /\ DOMAIN process' = Process /\ \A q \in Process : q # p => process'[q] = process[q]
      /\ process'[p].pc = "Fail" /\ process'[p].key = process[p].key
      /\ process'[p].owner = process[p].owner
      /\ DOMAIN process'[p] = DOMAIN process[p]
  BY DEF Claimants, GiveUp
<1>2. QED
  BY <1>1 DEF Claimants, Calm, Continues

\* So does one that is stopped.
LEMMA Quits ==
    ASSUME Claimants, NEW p \in Process, Quit(p)
    PROVE  DOMAIN process' = Process /\ \A q \in Process : Calm(q)
<1>1. /\ DOMAIN process' = Process /\ \A q \in Process : q # p => process'[q] = process[q]
      /\ process'[p] = Idle
  BY DEF Claimants, Quit
<1>2. Continues(p) /\ process'[p].pc = "Idle"
  BY <1>1 DEF Continues, Idle
<1>3. QED
  BY <1>1, <1>2 DEF Calm

\* It leaves its row, or closes it.
LEMMA LeaveStep ==
    ASSUME StagesInv, NEW p \in Process, process[p].pc # "Idle", Quit(p) \/ GiveUp(p),
           \/ runs' = runs
           \/ /\ Owned(p)
              /\ runs' = [runs EXCEPT ![process[p].key] = Ended(@, "FAILED")],
           UNCHANGED <<today, index, checked, definitions, bounds>>
    PROVE  StagesInv'
<1>1. Counters /\ Rows /\ TermsPassed /\ Claimants
  BY DEF StagesInv
<1>2. DOMAIN process' = Process /\ \A q \in Process : Calm(q)
  BY <1>1, GivesUp, Quits
<1>3. PICK k : k = process[p].key
  OBVIOUS
<1>4. k \in DOMAIN runs
  BY <1>1, <1>3 DEF Claimants, HasRow
<1>5. /\ DOMAIN runs' = DOMAIN runs /\ \A j \in DOMAIN runs : SameRow(runs[j], runs'[j])
      /\ \A j \in DOMAIN runs : Completed(j) => runs'[j] = runs[j]
  <2>1. \A j \in DOMAIN runs : SameRow(runs[j], runs[j])
    BY <1>1 DEF Rows, RowIsRight, SameRow
  <2>2. CASE runs' = runs
    BY <2>1, <2>2
  <2>3. CASE Owned(p) /\ runs' = [runs EXCEPT ![k] = Ended(@, "FAILED")]
    <3>1. runs[k].status = "RUNNING"
      BY <1>3, <2>3 DEF Owned
    <3>2. runs'[k] = Ended(runs[k], "FAILED") /\ \A j \in DOMAIN runs : j # k => runs'[j] = runs[j]
      BY <1>4, <2>3
    <3>3. SameRow(runs[k], runs'[k])
      BY <1>1, <1>4, <3>1, <3>2 DEF Rows, RowIsRight, SameRow, Ended
    <3>4. QED
      BY <2>1, <2>3, <3>1, <3>2, <3>3 DEF Completed
  <2>4. QED
    BY <1>3, <2>2, <2>3
<1>6. Counters' /\ TermsPassed' /\ today <= today'
  BY <1>1, <1>5, TermsStay DEF Counters, CompletedStay, Day, bounds
<1>7. QED
  BY <1>2, <1>5, <1>6, QuietStep DEF bounds

-----------------------------------------------------------------------------
(* Steps in memory.                                                        *)

\* Work in the memory of one process keeps the invariant, if what it keeps in memory
\* is what the stage allows for the claim it holds.
LEMMA WorkStep ==
    ASSUME StagesInv, NEW CONSTANT p \in Process, NEW CONSTANT w,
           process[p].pc # "Idle", process' = [process EXCEPT ![p] = w],
           DOMAIN w = DOMAIN process[p], w.pc \in {"Work", "Save", "Complete"},
           process[p].pc \in {"Work", "Save", "Complete"},
           w.key = process[p].key, w.owner = process[p].owner,
           Holds(p) => MemoryOf(w),
           UNCHANGED <<today, tables, bounds>>
    PROVE  StagesInv'
<1>1. /\ DOMAIN process' = Process /\ process'[p] = w
      /\ \A q \in Process : q # p => process'[q] = process[q]
  BY DEF StagesInv, Claimants
<1>2. Counters' /\ TermsPassed' /\ Rows' /\ OneRunPerStage' /\ Tracks'
  <2>1. Counters' /\ TermsPassed' /\ OneRunPerStage'
    BY DEF StagesInv, tables, bounds, Counters, TermsPassed, OneRunPerStage, Completed, HasRow, ResultsOf
  <2>2. Rows'
    BY DEF StagesInv, tables, bounds, Rows, RowIsRight, GoodHere, HandedOn, ResultsOf, Completed, HasRow
  <2>3. Tracks'
    BY DEF StagesInv, tables, bounds, Tracks, Fits, Latest, Followed, SinceOf, Completed, HasRow
  <2>4. QED
    BY <2>1, <2>2, <2>3
<1>3. Claimants'
  <2>1. \A q \in Process : Continues(q)
    BY <1>1 DEF StagesInv, Claimants, Continues
  <2>2. QED
    BY <1>1, <2>1, ClaimantsContinue DEF StagesInv, tables, bounds
<1>4. Memory'
  <2> SUFFICES ASSUME NEW q \in Process, Holds(q)' PROVE MemoryOf(process[q])'
    BY DEF Memory
  <2>1. runs' = runs
    BY DEF tables
  <2>2. \A t, d : Fits(t, d)' <=> Fits(t, d)
    BY DEF tables, bounds, Fits, Followed, SinceOf, Completed, HasRow
  <2>3. CASE q = p
    <3>1. Holds(p)
      BY <1>1, <2>1, <2>3 DEF Holds, Owned
    <3>2. MemoryOf(w)'
      BY <2>1, <2>2, <3>1 DEF MemoryOf, GoodHere, HandedOn, ResultsOf
    <3>3. QED
      BY <1>1, <2>3, <3>2 DEF MemoryOf, GoodHere, Fits
  <2>4. CASE q # p
    <3>1. process'[q] = process[q] /\ Holds(q)
      BY <1>1, <2>1, <2>4 DEF Holds, Owned
    <3>2. MemoryOf(process[q])
      BY <3>1 DEF StagesInv, Memory
    <3>3. PICK v : v = process[q]
      OBVIOUS
    <3>4. MemoryOf(v)'
      BY <2>1, <2>2, <3>2, <3>3 DEF MemoryOf, GoodHere, HandedOn, ResultsOf
    <3>5. QED
      BY <3>1, <3>3, <3>4 DEF MemoryOf, GoodHere, Fits
  <2>5. QED
    BY <2>3, <2>4
<1>5. QED
  BY <1>2, <1>3, <1>4 DEF StagesInv

\* Discovery: one more query keeps the invariant.
LEMMA WorkOnQueriesStep ==
    ASSUME StagesInv, NEW CONSTANT p \in Process, WorkOnQueries(p)
    PROVE  StagesInv'
<1>1. PICK v : v = process[p]
  OBVIOUS
<1>2. /\ v.pc = "Work" /\ v.key[1] = "discovery"
      /\ DOMAIN v = {"stage", "key", "owner", "snapshot", "entered"}
  BY <1>1 DEF WorkOnQueries, StagesInv, Claimants
<1>3. PICK s \in DiscoverySteps(v.snapshot) :
        process' = [process EXCEPT ![p].snapshot = s,
                                   ![p].pc = IF AllQueried(v.snapshot) THEN "Complete" ELSE "Save"]
  BY <1>1 DEF WorkOnQueries
<1>4. PICK stage : stage = IF AllQueried(v.snapshot) THEN "Complete" ELSE "Save"
  OBVIOUS
<1>5. PICK w : w = [v EXCEPT !.snapshot = s, !.pc = stage]
  OBVIOUS
<1>6. process' = [process EXCEPT ![p] = w]
  BY <1>1, <1>3, <1>4, <1>5
<1>7. /\ DOMAIN w = DOMAIN v /\ w.pc = stage /\ w.snapshot = s
      /\ w.key = v.key /\ w.owner = v.owner
  BY <1>2, <1>5
<1>8. ASSUME Holds(p) PROVE MemoryOf(w)
  <2> DEFINE k == v.key
             saved == runs[k].snapshot
  <2>1. MemoryOf(v)
    BY <1>1, <1>8 DEF StagesInv, Memory
  <2>2. k \in DOMAIN runs /\ GoodHere(k, saved)
    BY <1>1, <1>2 DEF StagesInv, Claimants, HasRow, Rows, RowIsRight
  <2>3. v.snapshot \in DiscoverySnapshot /\ v.snapshot.at = k[2] /\ checked \in Nat
    BY <1>2, <2>1 DEF MemoryOf, GoodHere, Good, StagesInv, Counters
  <2>4. /\ s \in DiscoverySnapshot /\ s.at = v.snapshot.at /\ Kept(k, v.snapshot, s)
        /\ s.since \in Nat => s.since = v.snapshot.since \/ (s.since = checked /\ checked < k[2])
        /\ AllQueried(v.snapshot) => s.since # Unset /\ s.candidates \in SUBSET Candidate
    BY <1>2, <1>3, <2>3, DiscoveryStep
  <2>5. GoodHere(k, s)
    BY <1>2, <2>3, <2>4 DEF GoodHere, Good
  <2>6. Kept(k, saved, v.snapshot) /\ GoodHere(k, v.snapshot) /\ v.snapshot.at = saved.at
    BY <2>1 DEF MemoryOf
  <2>7. Kept(k, saved, s)
    BY <2>2, <2>4, <2>5, <2>6, KeptOn DEF GoodHere
  <2>8. ASSUME NEW t \in Nat, s.since = t PROVE Fits(t, k[2])
    <3>1. CASE t = v.snapshot.since
      BY <1>2, <2>1, <3>1 DEF MemoryOf
    <3>2. CASE t = checked /\ checked < k[2]
      BY <3>2 DEF StagesInv, Tracks, Fits
    <3>3. QED
      BY <2>4, <2>8, <3>1, <3>2
  <2>9. QED
    BY <1>2, <1>4, <1>7, <2>4, <2>5, <2>6, <2>7, <2>8 DEF MemoryOf
<1>9. QED
  BY <1>1, <1>2, <1>4, <1>6, <1>7, <1>8, WorkStep DEF WorkOnQueries

\* The other stages: one more item keeps the invariant.
LEMMA WorkOnResultsStep ==
    ASSUME StagesInv, NEW CONSTANT p \in Process, WorkOnResults(p)
    PROVE  StagesInv'
<1>1. PICK v : v = process[p]
  OBVIOUS
<1>2. /\ v.pc = "Work" /\ v.key[1] # "discovery" /\ Pending(v) # {}
      /\ DOMAIN v = {"pc", "key", "owner", "snapshot", "entered"}
  BY <1>1 DEF WorkOnResults, StagesInv, Claimants
<1>3. PICK c : c = Min(Pending(v))
  OBVIOUS
<1>4. PICK i \in ResultSteps(v, c) :
        process' = [process EXCEPT ![p].snapshot.results[c] = i,
                                   ![p].entered = @ \cup {c}, ![p].pc = "Save"]
  BY <1>1, <1>3 DEF WorkOnResults
<1>5. PICK s : s = [v.snapshot EXCEPT !.results[c] = i]
  OBVIOUS
<1>6. PICK w : w = [v EXCEPT !.snapshot = s, !.entered = @ \cup {c}, !.pc = "Save"]
  OBVIOUS
<1>7. process' = [process EXCEPT ![p] = w]
  <2>1. p \in DOMAIN process
    BY DEF StagesInv, Claimants
  <2>2. QED
    BY <1>1, <1>4, <1>5, <1>6, <2>1
<1>8. /\ DOMAIN w = DOMAIN v /\ w.pc = "Save" /\ w.snapshot = s
      /\ w.key = v.key /\ w.owner = v.owner
  BY <1>2, <1>6
<1>9. ASSUME Holds(p) PROVE MemoryOf(w)
  <2> DEFINE k == v.key
             saved == runs[k].snapshot
             given == HandedOn(From(k))
             from == ResultsOf(From(k))
  <2>1. MemoryOf(v)
    BY <1>1, <1>9 DEF StagesInv, Memory
  <2>2. k \in DOMAIN runs /\ RowIsRight(k) /\ k \in Key
    BY <1>1, <1>2 DEF StagesInv, Claimants, HasRow, Rows
  <2>3. Kept(k, saved, v.snapshot) /\ Good(k, v.snapshot, given, from) /\ v.snapshot.at = saved.at
    BY <2>1 DEF MemoryOf, GoodHere
  <2>4. c \in given
    <3>1. DOMAIN v.snapshot.results = given
      BY <1>2, <2>3 DEF Good
    <3>2. Pending(v) \subseteq given
      BY <3>1 DEF Pending
    <3>3. given \subseteq Nat
      BY <1>2, <2>2, HandsOn, StagesAssumption DEF RowIsRight, StagesInv
    <3>4. QED
      BY <1>2, <1>3, <3>2, <3>3, LeastIsIn
  <2>5. /\ i \in Item(k[1]) /\ ItemIsRight(k[1], v.snapshot.at, i, from[c])
        /\ KeptResult(k[1], v.snapshot.results[c], i)
    <3> DEFINE old == v.snapshot.results[c]
    <3>1. /\ old \in Item(k[1]) /\ ItemIsRight(k[1], v.snapshot.at, old, from[c])
          /\ DOMAIN v.snapshot.results = given
      BY <1>2, <2>3, <2>4 DEF Good
    <3>2. \/ old.status = Unset
          \/ k[1] \in Mode /\ old.terms = "many" /\ c \notin v.entered
      <4>1. c \in Pending(v)
        BY <1>2, <1>3, <3>1, LeastIsIn, HandsOn, StagesAssumption, <2>2
           DEF Pending, RowIsRight, StagesInv
      <4>2. QED
        BY <4>1 DEF Pending
    <3>3. CASE k[1] = "collection"
      <4>1. index = v.snapshot.at
        BY <1>1, <1>9, <2>2, <2>3, <3>3 DEF Holds, Owned, RowIsRight
      <4>2. index \in Int
        BY DEF StagesInv, Counters
      <4>3. old \in CollectionItem /\ Collected(index, old) /\ old.status = Unset
        BY <3>1, <3>2, <3>3, <4>1 DEF Item, ItemIsRight, Mode
      <4>4. i \in CollectionSteps(old)
        BY <1>4, <3>3 DEF ResultSteps
      <4>5. i \in CollectionItem /\ Collected(index, i) /\ KeptResult("collection", old, i)
        BY <4>2, <4>3, <4>4, CollectionStep
      <4>6. QED
        BY <3>3, <4>1, <4>5 DEF Item, ItemIsRight
    <3>4. CASE k[1] = "generation"
      <4>1. from[c].selected \in SUBSET Article
        BY <1>2, <2>2, <2>4, <3>4, HandsOn DEF CollectionItem, RowIsRight, StagesInv
      <4>2. from[c].selected = runs[<<"collection", k[2]>>].snapshot.results[c].selected
        BY <3>4 DEF From, SourceOf, ResultsOf
      <4>3. old \in GenerationItem /\ old.articles \subseteq from[c].selected /\ old.status = Unset
        BY <3>1, <3>2, <3>4 DEF Item, ItemIsRight, Mode
      <4>4. i \in GenerationSteps(c, old, from[c].selected)
        BY <1>4, <3>4, <4>2 DEF ResultSteps
      <4>5. /\ i \in GenerationItem /\ i.articles \subseteq from[c].selected
            /\ KeptResult("generation", old, i)
        BY <4>1, <4>3, <4>4, GenerationStep
      <4>6. QED
        BY <3>4, <4>5 DEF Item, ItemIsRight
    <3>5. CASE k[1] \in Mode
      <4>1. old \in ValidationItem
        BY <3>1, <3>5 DEF Item, Mode
      <4>2. i \in ValidationSteps(k[1], c, old, v.entered)
        BY <1>4, <3>5 DEF ResultSteps, Mode
      <4>3. /\ i \in ValidationItem /\ ItemIsRight(k[1], v.snapshot.at, i, from[c])
            /\ KeptResult(k[1], old, i)
        BY <3>1, <3>2, <3>5, <4>1, <4>2, ValidationStep
      <4>4. QED
        BY <3>5, <4>3 DEF Item, Mode
    <3>6. QED
      BY <1>2, <2>2, <3>3, <3>4, <3>5 DEF Key, Stage
  <2>6. Good(k, s, given, from) /\ s.at = v.snapshot.at /\ Kept(k, v.snapshot, s)
    BY <1>2, <1>5, <2>3, <2>4, <2>5, ResultStep
  <2>7. Kept(k, saved, s)
    BY <2>2, <2>3, <2>6, KeptOn DEF RowIsRight, GoodHere
  <2>8. QED
    BY <1>2, <1>8, <2>3, <2>6, <2>7 DEF MemoryOf, GoodHere
<1>10. QED
  BY <1>1, <1>2, <1>7, <1>8, <1>9, WorkStep DEF WorkOnResults

-----------------------------------------------------------------------------
(* Saving.                                                                 *)

\* What an owner writes, into a row that stays RUNNING.
LEMMA WriteStep ==
    ASSUME StagesInv, NEW CONSTANT p \in Process, Holds(p),
           runs' = [runs EXCEPT ![process[p].key].snapshot = process[p].snapshot,
                                ![process[p].key].stale = FALSE],
           Goto(p, "Work") \/ GiveUp(p),
           UNCHANGED <<today, index, checked, definitions, bounds>>
    PROVE  StagesInv'
<1>0. /\ claims \in Nat /\ claims' \in Nat /\ claims <= claims'
      /\ today \in Day /\ today' \in Day /\ today <= today'
  BY DEF StagesInv, Counters, Day, bounds
<1>1. PICK v : v = process[p]
  OBVIOUS
<1>2. PICK k : k = v.key
  OBVIOUS
<1>3. PICK s : s = v.snapshot
  OBVIOUS
<1>4. /\ v.pc # "Idle" /\ k \in DOMAIN runs /\ MemoryOf(v) /\ RowIsRight(k)
      /\ runs[k].status = "RUNNING" /\ runs[k].owner = v.owner
      /\ DOMAIN v = {"pc", "key", "owner", "snapshot", "entered"}
  BY <1>1, <1>2 DEF StagesInv, Claimants, HasRow, Holds, Memory, Owned, Rows
<1>5. /\ DOMAIN runs' = DOMAIN runs /\ \A j \in DOMAIN runs : j # k => runs'[j] = runs[j]
      /\ DOMAIN runs'[k] = DOMAIN runs[k] /\ runs'[k].snapshot = s /\ runs'[k].stale = FALSE
      /\ runs'[k].status = "RUNNING" /\ runs'[k].owner = v.owner
  BY <1>1, <1>2, <1>3, <1>4 DEF RowIsRight
<1>6. GoodHere(k, s) /\ s.at = runs[k].snapshot.at
  BY <1>2, <1>3, <1>4 DEF MemoryOf
<1>7. CompletedStay
  BY <1>4, <1>5 DEF CompletedStay, Completed
<1>8. \A j \in DOMAIN runs : SameRow(runs[j], runs[j])
  BY DEF StagesInv, Rows, RowIsRight, SameRow
<1>9. GoodHere(k, s)'
  BY <1>4, <1>6, <1>7, GoodStays DEF RowIsRight
<1>10. Rows'
  <2>1. ASSUME NEW j \in DOMAIN runs, j # k PROVE RowIsRight(j)'
    <3>1. SameRow(runs[j], runs'[j])
      BY <1>5, <1>8, <2>1
    <3>2. QED
      BY <1>0, <1>7, <2>1, <3>1, RowStays DEF StagesInv
  <2>2. GoodHere(k, runs[k].snapshot)'
    BY <1>5, <1>9 DEF GoodHere
  <2>3. k[1] # "discovery" => Completed(From(k))'
    BY <1>4, <1>7, Frozen DEF RowIsRight
  <2>4. RowIsRight(k)'
    BY <1>4, <1>5, <1>6, <2>2, <2>3 DEF RowIsRight, bounds
  <2>5. QED
    BY <1>5, <2>1, <2>4 DEF StagesInv, Rows
<1>11. Counters' /\ TermsPassed' /\ OneRunPerStage'
  <2>1. Counters' /\ TermsPassed'
    BY <1>7, TermsStay DEF StagesInv, Counters, bounds
  <2>2. OneRunPerStage'
    BY <1>4, <1>5 DEF StagesInv, OneRunPerStage
  <2>3. QED
    BY <2>1, <2>2
<1>12. Tracks' /\ WindowsStay
  <2>1. \A d \in Day : HasRow(Discovery(d))' = HasRow(Discovery(d))
    BY <1>5 DEF HasRow
  <2>2. \A d \in Day : HasRow(Discovery(d)) =>
               \/ SameRow(runs[Discovery(d)], runs'[Discovery(d)])
               \/ /\ runs[Discovery(d)].status = "RUNNING" /\ runs'[Discovery(d)].status = "RUNNING"
                  /\ \A t \in Nat : SinceOf(d)' = t => Fits(t, d)
    <3> SUFFICES ASSUME NEW d \in Day, HasRow(Discovery(d)), Discovery(d) = k
                 PROVE  \A t \in Nat : SinceOf(d)' = t => Fits(t, d)
      BY <1>4, <1>5, <1>8 DEF HasRow
    <3>1. k[1] = "discovery" /\ k[2] = d /\ SinceOf(d)' = s.since
      BY <1>5 DEF Discovery, SinceOf
    <3>2. QED
      BY <1>2, <1>3, <1>4, <3>1 DEF MemoryOf
  <2>3. QED
    BY <1>0, <2>1, <2>2, TracksStay DEF StagesInv, bounds
<1>13. /\ DOMAIN process' = Process /\ \A q \in Process : q # p => process'[q] = process[q]
       /\ \A q \in Process : Continues(q)
       /\ Goto(p, "Work") => process'[p] = [v EXCEPT !.pc = "Work"]
       /\ GiveUp(p) => process'[p].pc = "Fail"
  <2>1. CASE Goto(p, "Work")
    <3>1. /\ DOMAIN process' = Process /\ \A q \in Process : q # p => process'[q] = process[q]
          /\ process'[p] = [v EXCEPT !.pc = "Work"]
      BY <1>1, <2>1 DEF StagesInv, Claimants, Goto
    <3>2. Continues(p)
      BY <1>1, <1>4, <3>1 DEF Continues
    <3>3. GiveUp(p) => process'[p].pc = "Fail"
      BY <1>1, <1>4 DEF StagesInv, Claimants, GiveUp
    <3>4. QED
      BY <3>1, <3>2, <3>3 DEF StagesInv, Claimants, Continues
  <2>2. CASE GiveUp(p)
    <3>1. /\ DOMAIN process' = Process /\ \A q \in Process : q # p => process'[q] = process[q]
          /\ process'[p].pc = "Fail"
      BY <1>1, <1>4, <2>2 DEF StagesInv, Claimants, GiveUp
    <3>2. \A q \in Process : Calm(q)
      BY <1>1, <1>4, <2>2, GivesUp DEF StagesInv
    <3>3. Goto(p, "Work") => process'[p].pc = "Work"
      BY <1>1, <1>4 DEF StagesInv, Claimants, Goto
    <3>4. QED
      BY <3>1, <3>2, <3>3 DEF Calm, Continues, StagesInv, Claimants
  <2>3. QED
    BY <2>1, <2>2
<1>14. Claimants'
  BY <1>5, <1>13, ClaimantsContinue DEF StagesInv, bounds
<1>15. Memory'
  <2> SUFFICES ASSUME NEW q \in Process, Holds(q)' PROVE MemoryOf(process[q])'
    BY DEF Memory
  <2>1. CASE q # p
    <3>1. process'[q] = process[q] /\ process[q].pc # "Idle" /\ process[q].key \in DOMAIN runs
      BY <1>13, <2>1 DEF Holds, StagesInv, Claimants, HasRow
    <3>2. process[q].key # k
      BY <1>1, <1>2, <1>4, <1>5, <2>1, <3>1 DEF Holds, Owned, StagesInv, Claimants
    <3>3. SameRow(runs[process[q].key], runs'[process[q].key])
      BY <1>5, <1>8, <3>1, <3>2
    <3>4. QED
      BY <1>7, <1>12, <3>1, <3>3, MemoryStays DEF StagesInv
  <2>2. CASE q = p
    <3>1. Goto(p, "Work")
      BY <1>13, <2>2 DEF Holds
    <3>2. PICK w : w = [v EXCEPT !.pc = "Work"]
      OBVIOUS
    <3>3. process'[q] = w /\ w.key = k /\ w.snapshot = s /\ w.pc = "Work"
      BY <1>2, <1>3, <1>4, <1>13, <2>2, <3>1, <3>2
    <3>4. Kept(k, s, s)
      BY <1>6, KeptSame DEF GoodHere
    <3>5. k[1] = "discovery" => \A t \in Nat : s.since = t => Fits(t, k[2])'
      <4>1. k[2] \in Day
        BY <1>4 DEF StagesInv, Rows, Key
      <4>2. QED
        BY <1>2, <1>3, <1>4, <1>12, <4>1 DEF MemoryOf, WindowsStay
    <3>6. MemoryOf(w)'
      BY <1>5, <1>9, <3>3, <3>4, <3>5 DEF MemoryOf
    <3>7. QED
      BY <3>3, <3>6 DEF MemoryOf, GoodHere, Fits
  <2>3. QED
    BY <2>1, <2>2
<1>16. QED
  BY <1>10, <1>11, <1>12, <1>14, <1>15 DEF StagesInv

-----------------------------------------------------------------------------
(* Completion.                                                             *)

\* A discovery completes.  The track moves on with it if its window begins where the
\* track is, and that is so unless a discovery was claimed after its day.
LEMMA TracksMove ==
    ASSUME Tracks, NEW CONSTANT n \in Day, HasRow(Discovery(n)),
           runs[Discovery(n)].status = "RUNNING",
           \A d \in Day : HasRow(Discovery(d))' = HasRow(Discovery(d)),
           \A d \in Day : d # n /\ HasRow(Discovery(d)) =>
               runs'[Discovery(d)] = runs[Discovery(d)],
           runs'[Discovery(n)].status = "COMPLETED",
           NEW CONSTANT u \in {NoTrack} \cup Nat, SinceOf(n)' = u, u \in Nat => Fits(u, n),
           checked' = IF u = checked THEN n ELSE checked,
           checked \in Nat, today' = today, late' = late
    PROVE  Tracks'
<1>1. Completed(Discovery(n))' /\ ~Followed(n)
  BY DEF Followed, Completed, HasRow
<1>2. \A d \in Day : d # n => Followed(d)' = Followed(d)
  BY DEF Followed, Completed, HasRow, SinceOf
<1>3. \A e \in Day : /\ Followed(e) => Followed(e)' /\ e # n /\ HasRow(Discovery(e))
                     /\ Followed(e)' => Followed(e) \/ e = n
  BY <1>1, <1>2 DEF Followed, Completed
<1>4. Followed(n)' <=> u \in Nat
  BY <1>1 DEF Followed, NoTrack
<1>5. ~late => \A d \in Day : HasRow(Discovery(d)) => d <= n
  BY DEF Tracks, Latest
<1>6. ASSUME NEW CONSTANT d \in Day, HasRow(Discovery(d)), NEW CONSTANT t \in Nat, Fits(t, d)
      PROVE  Fits(t, d)'
  <2>1. t < d /\ (t = 0 \/ Followed(t)')
    BY <1>3, <1>6 DEF Fits, Followed
  <2>2. ASSUME ~late, NEW e \in Day, Followed(e)', e < d PROVE e <= t
    <3>1. d <= n /\ d \in Nat /\ e \in Nat /\ n \in Nat
      BY <1>5, <1>6, <2>2 DEF Day
    <3>2. e # n
      BY <2>2, <3>1
    <3>3. QED
      BY <1>3, <1>6, <2>2, <3>2 DEF Fits
  <2>3. QED
    BY <2>1, <2>2 DEF Fits
<1>7. \A d \in Day : HasRow(Discovery(d))' => d <= today'
  BY DEF Tracks
<1>8. checked' = 0 \/ \E e \in Day : Followed(e)' /\ checked' = e
  <2>1. CASE u = checked
    BY <1>4, <2>1
  <2>2. CASE u # checked
    BY <1>3, <2>2 DEF Tracks
  <2>3. QED
    BY <2>1, <2>2
<1>9. ASSUME NEW CONSTANT d \in Day, NEW CONSTANT t \in Nat, HasRow(Discovery(d))', SinceOf(d)' = t
      PROVE  Fits(t, d)'
  <2>1. Fits(t, d)
    <3>1. CASE d = n
      BY <1>9, <3>1
    <3>2. CASE d # n
      <4>1. SinceOf(d) = t
        BY <1>9, <3>2 DEF SinceOf
      <4>2. QED
        BY <1>9, <4>1 DEF Tracks
    <3>3. QED
      BY <3>1, <3>2
  <2>2. QED
    BY <1>6, <1>9, <2>1
<1>10. ASSUME ~late', NEW d \in Day, HasRow(Discovery(d))', runs'[Discovery(d)].status = "RUNNING"
       PROVE  Latest(d)'
  <2>1. HasRow(Discovery(d)) /\ runs[Discovery(d)].status = "RUNNING"
    BY <1>10
  <2>2. Latest(d)' = Latest(d)
    BY DEF Latest
  <2>3. QED
    BY <1>10, <2>1, <2>2 DEF Tracks
<1>11. ASSUME ~late', NEW d \in Day, Followed(d)' PROVE d <= checked'
  <2>1. \A e \in Day : Followed(e) => e <= checked /\ e < n
    <3>1. \A e \in Day : Followed(e) => e <= n /\ e # n
      BY <1>3, <1>5, <1>11
    <3>2. \A e \in Day : Followed(e) => e <= checked
      BY <1>11 DEF Tracks
    <3>3. QED
      BY <3>1, <3>2 DEF Day
  <2>2. CASE d # n
    BY <1>3, <1>11, <2>1, <2>2 DEF Day
  <2>3. CASE d = n
    <3>1. u \in Nat /\ Fits(u, n)
      BY <1>4, <1>11, <2>3
    <3>2. checked <= u
      <4>1. CASE checked = 0
        BY <3>1, <4>1
      <4>2. ASSUME NEW e \in Day, Followed(e), checked = e PROVE checked <= u
        BY <1>11, <2>1, <3>1, <4>2 DEF Fits
      <4>3. QED
        BY <4>1, <4>2 DEF Tracks
    <3>3. u <= checked
      BY <2>1, <3>1 DEF Fits, Followed
    <3>4. u = checked
      BY <3>1, <3>2, <3>3
    <3>5. QED
      BY <2>3, <3>4 DEF Day
  <2>4. QED
    BY <2>2, <2>3
<1>12. QED
  BY <1>7, <1>8, <1>9, <1>10, <1>11 DEF Tracks

\* The owner of a run completes it.
LEMMA CompleteStep ==
    ASSUME StagesInv, NEW CONSTANT p \in Process, Complete(p), Owned(p)
    PROVE  StagesInv'
<1>0. /\ claims \in Nat /\ claims' \in Nat /\ claims <= claims'
      /\ today \in Day /\ today' \in Day /\ today <= today'
  BY DEF StagesInv, Counters, Day, Complete, bounds
<1>1. PICK v : v = process[p]
  OBVIOUS
<1>2. PICK k : k = v.key
  OBVIOUS
<1>3. PICK s : s = v.snapshot
  OBVIOUS
<1>4. /\ v.pc \in {"Work", "Complete"} /\ (v.pc = "Work" => k[1] # "discovery")
      /\ Quit(p)
      /\ runs' = [runs EXCEPT ![k] = Ended([@ EXCEPT !.snapshot = s], "COMPLETED")]
      /\ checked' = IF k[1] = "discovery" THEN Tracked(s) ELSE checked
      /\ definitions' = IF k[1] \in Mode THEN Published(k, s) ELSE definitions
      /\ UNCHANGED <<today, index, claims, happened, late>>
  BY <1>1, <1>2, <1>3 DEF Complete, AllDone, bounds
<1>5. /\ k \in DOMAIN runs /\ k \in Key /\ MemoryOf(v) /\ RowIsRight(k)
      /\ runs[k].status = "RUNNING" /\ runs[k].owner = v.owner
  BY <1>1, <1>2, <1>4 DEF StagesInv, Claimants, HasRow, Holds, Memory, Owned, Rows
<1>6. /\ DOMAIN runs' = DOMAIN runs /\ \A j \in DOMAIN runs : j # k => runs'[j] = runs[j]
      /\ DOMAIN runs'[k] = DOMAIN runs[k] /\ runs'[k].snapshot = s /\ runs'[k].stale = FALSE
      /\ runs'[k].status = "COMPLETED" /\ runs'[k].owner = 0
  BY <1>4, <1>5 DEF RowIsRight, Ended
<1>7. CompletedStay
  BY <1>5, <1>6 DEF CompletedStay, Completed
<1>8. \A j \in DOMAIN runs : SameRow(runs[j], runs[j])
  BY DEF StagesInv, Rows, RowIsRight, SameRow
<1>9. GoodHere(k, s)
  BY <1>2, <1>3, <1>5 DEF MemoryOf
<1>10. Rows'
  <2>1. ASSUME NEW j \in DOMAIN runs, j # k PROVE RowIsRight(j)'
    <3>1. SameRow(runs[j], runs'[j])
      BY <1>6, <1>8, <2>1
    <3>2. QED
      BY <1>0, <1>4, <1>7, <2>1, <3>1, RowStays DEF StagesInv
  <2>2. GoodHere(k, runs[k].snapshot)'
    <3>1. GoodHere(k, s)'
      BY <1>5, <1>7, <1>9, GoodStays DEF RowIsRight
    <3>2. QED
      BY <1>6, <3>1 DEF GoodHere
  <2>3. k[1] # "discovery" => Completed(From(k))'
    BY <1>5, <1>7, Frozen DEF RowIsRight
  <2>4. k[1] = "discovery" => s.since # Unset /\ s.candidates \in SUBSET Candidate
    BY <1>2, <1>3, <1>4, <1>5 DEF MemoryOf
  <2>5. /\ DOMAIN runs'[k] = {"status", "owner", "stale", "snapshot"}
        /\ runs'[k].owner \in 0..claims' /\ runs'[k].stale \in BOOLEAN
    <3>1. DOMAIN runs'[k] = {"status", "owner", "stale", "snapshot"} /\ runs'[k].stale \in BOOLEAN
      BY <1>5, <1>6 DEF RowIsRight
    <3>2. 0 \in 0..claims'
      BY <1>0
    <3>3. QED
      BY <1>6, <3>1, <3>2
  <2>6. RowIsRight(k)'
    BY <1>6, <2>2, <2>3, <2>4, <2>5 DEF RowIsRight
  <2>7. QED
    BY <1>6, <2>1, <2>6 DEF StagesInv, Rows
<1>11. OneRunPerStage'
  BY <1>5, <1>6 DEF StagesInv, OneRunPerStage
<1>12. Counters' /\ Tracks' /\ (k[1] # "discovery" => WindowsStay)
  <2>1. \A d \in Day : HasRow(Discovery(d))' = HasRow(Discovery(d))
    BY <1>6 DEF HasRow
  <2>2. CASE k[1] # "discovery"
    <3>1. \A d \in Day : HasRow(Discovery(d)) =>
                 SameRow(runs[Discovery(d)], runs'[Discovery(d)])
      BY <1>6, <1>8, <2>2 DEF HasRow, Discovery
    <3>2. checked' = checked
      BY <1>4, <2>2
    <3>3. QED
      BY <1>0, <1>4, <2>1, <3>1, <3>2, TracksStay DEF StagesInv, Counters
  <2>3. CASE k[1] = "discovery"
    <3>1. PICK n \in Day : n = k[2] /\ k = Discovery(n)
      BY <1>5, <2>3 DEF Key, Discovery
    <3>2. /\ s \in DiscoverySnapshot /\ s.at = n
          /\ \A t \in Nat : s.since = t => Fits(t, n)
          /\ s.since # Unset
      BY <1>2, <1>3, <1>4, <1>5, <1>9, <2>3, <3>1 DEF MemoryOf, GoodHere, Good
    <3>3. s.since \in {NoTrack} \cup Nat
      BY <3>2 DEF DiscoverySnapshot
    <3>4. PICK u \in {NoTrack} \cup Nat : u = s.since
      BY <3>3
    <3>5. SinceOf(n)' = u /\ (u \in Nat => Fits(u, n))
      BY <1>6, <3>1, <3>2, <3>4 DEF SinceOf
    <3>6. checked' = IF u = checked THEN n ELSE checked
      BY <1>4, <2>3, <3>2, <3>4 DEF Tracked
    <3>7. checked \in Nat /\ checked' \in 0..LastDay
      BY <3>6 DEF StagesInv, Counters, Day
    <3>8. \A d \in Day : d # n /\ HasRow(Discovery(d)) =>
               runs'[Discovery(d)] = runs[Discovery(d)]
      BY <1>6, <3>1 DEF Discovery, HasRow
    <3>9. Tracks'
      BY <1>4, <1>5, <1>6, <2>1, <3>1, <3>6, <3>7, <3>8, <3>5, TracksMove
         DEF StagesInv, HasRow
    <3>10. QED
      BY <1>0, <1>4, <2>3, <3>7, <3>9 DEF StagesInv, Counters
  <2>4. QED
    BY <2>2, <2>3
<1>13. TermsPassed'
  <2>1. CASE k[1] \notin Mode
    BY <1>4, <1>7, <2>1, TermsStay DEF StagesInv
  <2>2. CASE k[1] \in Mode
    <3>1. /\ definitions' \in [Candidate -> {Unset, <<"published">>} \cup Key]
          /\ \A c \in Candidate :
               \/ definitions'[c] = definitions[c]
               \/ definitions'[c] = k /\ s.results[c].status = "PASSED"
      BY <1>4, <1>5, <2>2 DEF Published, StagesInv, TermsPassed
    <3>2. Completed(k)' /\ ResultsOf(k)' = s.results
      BY <1>5, <1>6 DEF Completed, HasRow, ResultsOf
    <3>3. ASSUME NEW c \in Candidate, definitions'[c] \in Key
          PROVE  Completed(definitions[c])' /\ ResultsOf(definitions[c])'[c].status = "PASSED"
      <4>1. PICK j : j = definitions'[c]
        OBVIOUS
      <4>2. CASE j = k /\ s.results[c].status = "PASSED"
        BY <3>2, <4>1, <4>2 DEF Completed, HasRow, ResultsOf
      <4>3. CASE j = definitions[c]
        <5>1. Completed(j) /\ ResultsOf(j)[c].status = "PASSED"
          BY <3>3, <4>1, <4>3 DEF StagesInv, TermsPassed
        <5>2. Completed(j)' /\ ResultsOf(j)' = ResultsOf(j)
          BY <1>7, <5>1, Frozen
        <5>3. QED
          BY <4>1, <5>1, <5>2 DEF Completed, HasRow, ResultsOf
      <4>4. QED
        BY <3>1, <4>1, <4>2, <4>3
    <3>4. QED
      BY <3>1, <3>3 DEF TermsPassed
  <2>3. QED
    BY <2>1, <2>2
<1>14. DOMAIN process' = Process /\ (\A q \in Process : Calm(q)) /\ process'[p] = Idle
  BY <1>4, Quits DEF StagesInv, Claimants, Quit
<1>15. Claimants'
  <2>1. \A q \in Process : Continues(q)
    BY <1>14 DEF Calm, Continues, StagesInv, Claimants
  <2>2. QED
    BY <1>4, <1>6, <1>14, <2>1, ClaimantsContinue DEF StagesInv
<1>16. Memory'
  <2> SUFFICES ASSUME NEW q \in Process, Holds(q)' PROVE MemoryOf(process[q])'
    BY DEF Memory
  <2>1. /\ process'[q] = process[q] /\ process[q].pc # "Idle"
        /\ process[q].key \in DOMAIN runs /\ runs'[process[q].key].status = "RUNNING"
    BY <1>14 DEF Holds, Idle, Calm, StagesInv, Claimants, HasRow, Owned
  <2>2. process[q].key # k
    BY <1>6, <2>1
  <2>3. /\ SameRow(runs[process[q].key], runs'[process[q].key])
        /\ runs[process[q].key].status = "RUNNING"
    BY <1>6, <1>8, <2>1, <2>2
  <2>4. process[q].key[1] = "discovery" => WindowsStay
    <3>1. process[q].key[1] = "discovery" => k[1] # "discovery"
      BY <1>5, <2>1, <2>2, <2>3 DEF StagesInv, OneRunPerStage
    <3>2. QED
      BY <1>12, <3>1
  <2>5. QED
    BY <1>7, <2>1, <2>3, <2>4, MemoryStays DEF StagesInv
<1>17. QED
  BY <1>10, <1>11, <1>12, <1>13, <1>15, <1>16 DEF StagesInv

-----------------------------------------------------------------------------
(* Claims.                                                                 *)

\* The snapshot a run is created with is right for it.
LEMMA NewIsGood ==
    ASSUME today \in Day, NEW k \in Key
    PROVE  GoodHere(k, NewSnapshot(k))
<1> USE StagesAssumption
<1> DEFINE given == HandedOn(From(k))
           s == NewSnapshot(k)
           new == CASE k[1] = "collection" -> NewCollection
                    [] k[1] = "generation" -> NewGeneration
                    [] OTHER -> NewValidation
<1>0. k[2] \in Day /\ k[1] \in {"discovery", "collection", "generation"} \cup Mode
  BY DEF Key, Stage
<1>1. CASE k[1] = "discovery"
  <2>1. s = [at |-> k[2], since |-> Unset, results |-> <<>>, candidates |-> Unset]
    BY <1>1 DEF NewSnapshot, NewDiscovery
  <2>2. <<>> \in Seq(SUBSET Candidate)
    OBVIOUS
  <2>3. s \in DiscoverySnapshot /\ s.at = k[2]
    BY <1>0, <2>1, <2>2 DEF DiscoverySnapshot
  <2>4. QED
    BY <1>1, <2>3 DEF GoodHere, Good
<1>2. CASE k[1] # "discovery"
  <2>1. s = [at |-> today, results |-> [c \in given |-> new]]
    BY <1>2 DEF NewSnapshot, From
  <2>2. new \in Item(k[1]) /\ \A from : ItemIsRight(k[1], today, new, from)
    <3>1. CASE k[1] = "collection"
      <4>1. new = NewCollection
        BY <3>1
      <4>2. QED
        BY <3>1, <4>1 DEF NewCollection, Item, CollectionItem, ItemIsRight, Collected
    <3>2. CASE k[1] = "generation"
      <4>1. new = NewGeneration
        BY <3>2
      <4>2. QED
        BY <3>2, <4>1 DEF NewGeneration, Item, GenerationItem, ItemIsRight
    <3>3. CASE k[1] = "RULES_ONLY"
      <4>1. new = NewValidation
        BY <3>3
      <4>2. QED
        BY <3>3, <4>1 DEF NewValidation, Item, ValidationItem, ItemIsRight, ReviewedByRules
    <3>4. CASE k[1] = "TONE"
      <4>1. new = NewValidation
        BY <3>4
      <4>2. QED
        BY <3>4, <4>1 DEF NewValidation, Item, ValidationItem, ItemIsRight, ReviewedTwice, Clean
    <3>5. QED
      BY <1>0, <1>2, <3>1, <3>2, <3>3, <3>4 DEF Mode
  <2> HIDE DEF new, given, s
  <2>3. s.at = today /\ s \in [at : Day, results : [given -> Item(k[1])]]
    BY <2>1, <2>2
  <2>4. \A c \in given : s.results[c] = new
    BY <2>1
  <2>5. QED
    BY <1>2, <2>2, <2>3, <2>4 DEF GoodHere, Good, given, s
<1>3. QED
  BY <1>1, <1>2

\* A process claims a row: it is new, or was left by another.
LEMMA ClaimStep ==
    ASSUME StagesInv, NEW CONSTANT p \in Process, NEW CONSTANT k \in Key, Claim(p, k),
           k[1] = "discovery" => k[2] <= today, k[1] # "discovery" => Completed(From(k)),
           late' \in BOOLEAN, late => late', k[1] = "discovery" /\ ~late' => k[2] = today,
           index' = IF k[1] = "collection" THEN Claimed(k)[k].snapshot.at ELSE index,
           UNCHANGED <<today, checked, definitions, happened>>
    PROVE  StagesInv'
<1>0. /\ claims \in Nat /\ claims' = claims + 1 /\ claims' \in 0..MaxClaims
      /\ today \in Day /\ today' \in Day /\ today <= today'
  BY StagesAssumption DEF StagesInv, Counters, Day, Claim
<1>1. PICK s : s = IF HasRow(k) THEN runs[k].snapshot ELSE NewSnapshot(k)
  OBVIOUS
<1>2. PICK w : w = [pc |-> "Work", key |-> k, owner |-> claims + 1, snapshot |-> s, entered |-> {}]
  OBVIOUS
<1>3. /\ DOMAIN runs' = DOMAIN runs \cup {k}
      /\ runs'[k] = [status |-> "RUNNING", owner |-> claims + 1, stale |-> FALSE, snapshot |-> s]
      /\ \A j \in DOMAIN runs : j # k =>
            runs'[j] = IF j \in Rivals(k) THEN Ended(runs[j], "FAILED") ELSE runs[j]
  BY <1>1 DEF Claim, Claimed
<1>4. /\ DOMAIN process' = Process /\ process'[p] = w
      /\ \A q \in Process : q # p => process'[q] = process[q]
  BY <1>1, <1>2 DEF Claim, Claimed, StagesInv, Claimants
<1>5. GoodHere(k, s) /\ s.at \in Day
  <2>1. GoodHere(k, s)
    BY <1>0, <1>1, NewIsGood DEF StagesInv, Rows, RowIsRight, HasRow
  <2>2. k[2] \in Day
    BY DEF Key
  <2>3. QED
    BY <2>1, <2>2 DEF GoodHere, Good
<1>6. ASSUME NEW j \in DOMAIN runs, j # k
      PROVE  /\ SameRow(runs[j], runs'[j])
             /\ j[1] \in Table(k[1]) => runs'[j].status # "RUNNING"
             /\ runs[j].status # "RUNNING" => runs'[j] = runs[j]
  <2>1. RowIsRight(j)
    BY <1>6 DEF StagesInv, Rows
  <2>2. CASE j \in Rivals(k)
    <3>1. runs'[j] = Ended(runs[j], "FAILED") /\ runs[j].status = "RUNNING"
      BY <1>3, <1>6, <2>2 DEF Rivals
    <3>2. QED
      BY <2>1, <3>1 DEF SameRow, RowIsRight, Ended
  <2>3. CASE j \notin Rivals(k)
    <3>1. runs'[j] = runs[j] /\ (j[1] \in Table(k[1]) => runs[j].status # "RUNNING")
      BY <1>3, <1>6, <2>3 DEF Rivals
    <3>2. QED
      BY <2>1, <3>1 DEF SameRow, RowIsRight
  <2>4. QED
    BY <2>2, <2>3
<1>7. CompletedStay
  BY <1>3, <1>6 DEF CompletedStay, Completed, Claim
<1>8. GoodHere(k, s)'
  BY <1>5, <1>7, GoodStays
<1>9. Rows'
  <2>1. ASSUME NEW j \in DOMAIN runs, j # k PROVE RowIsRight(j)'
    <3>1. j[1] = "collection" /\ runs'[j].status = "RUNNING" => index' = index
      BY <1>6, <2>1 DEF Table, Mode
    <3>2. SameRow(runs[j], runs'[j])
      BY <1>6, <2>1
    <3>3. claims' \in Nat /\ claims <= claims'
      BY <1>0
    <3>4. QED
      BY <1>0, <1>7, <2>1, <3>1, <3>2, <3>3, RowStays DEF StagesInv
  <2>2. GoodHere(k, runs[k].snapshot)'
    BY <1>3, <1>8 DEF GoodHere
  <2>3. k[1] # "discovery" => Completed(From(k))'
    BY <1>7, Frozen
  <2>4. k[1] = "collection" => index' = s.at
    BY <1>1 DEF Claimed
  <2>5. claims + 1 \in 0..claims'
    BY <1>0
  <2>6. RowIsRight(k)'
    BY <1>3, <2>2, <2>3, <2>4, <2>5 DEF RowIsRight
  <2>7. QED
    BY <1>3, <2>1, <2>6 DEF StagesInv, Rows
<1>10. OneRunPerStage'
  <2> SUFFICES ASSUME NEW i \in DOMAIN runs', NEW j \in DOMAIN runs',
                      runs'[i].status = "RUNNING", runs'[j].status = "RUNNING",
                      i[1] = j[1] \/ {i[1], j[1]} = Mode
               PROVE  i = j
    BY DEF OneRunPerStage
  <2>1. \A h \in DOMAIN runs : h # k /\ runs'[h].status = "RUNNING" =>
            runs[h].status = "RUNNING" /\ h[1] \notin Table(k[1])
    BY <1>6 DEF SameRow
  <2>2. CASE i # k /\ j # k
    BY <1>3, <2>1, <2>2 DEF StagesInv, OneRunPerStage
  <2>3. CASE i = k /\ j # k
    <3>1. j[1] \notin Table(i[1])
      BY <1>3, <2>1, <2>3
    <3>2. QED
      BY <3>1 DEF Table, Mode
  <2>4. CASE i # k /\ j = k
    <3>1. i[1] \notin Table(j[1])
      BY <1>3, <2>1, <2>4
    <3>2. QED
      BY <3>1 DEF Table, Mode
  <2>5. QED
    BY <2>2, <2>3, <2>4
<1>11. Counters' /\ TermsPassed'
  <2>1. index' \in 0..LastDay
    <3>1. Claimed(k)[k].snapshot = s
      BY <1>1 DEF Claimed
    <3>2. QED
      BY <1>5, <3>1 DEF StagesInv, Counters, Day
  <2>2. QED
    BY <1>0, <1>7, <2>1, TermsStay DEF StagesInv, Counters
<1>12. k[1] = "discovery" => \A t \in Nat : s.since = t => Fits(t, k[2])
  <2> SUFFICES ASSUME k[1] = "discovery", NEW t \in Nat, s.since = t PROVE Fits(t, k[2])
    OBVIOUS
  <2>1. k[2] \in Day /\ k = Discovery(k[2])
    BY DEF Discovery, Key
  <2>2. HasRow(k)
    BY <1>1, StagesAssumption DEF NewSnapshot, NewDiscovery
  <2>3. SinceOf(k[2]) = t
    BY <1>1, <2>1, <2>2 DEF SinceOf
  <2>4. QED
    BY <2>1, <2>2, <2>3 DEF StagesInv, Tracks
<1>13. Tracks' /\ WindowsStay
  <2>1. CASE k[1] # "discovery"
    <3>1. \A d \in Day : HasRow(Discovery(d))' = HasRow(Discovery(d)) /\ Discovery(d) # k
      BY <1>3, <2>1 DEF HasRow, Discovery
    <3>2. \A d \in Day : HasRow(Discovery(d)) =>
               SameRow(runs[Discovery(d)], runs'[Discovery(d)])
      BY <1>6, <3>1 DEF HasRow
    <3>3. QED
      BY <1>0, <3>1, <3>2, TracksStay DEF StagesInv
  <2>2. CASE k[1] = "discovery"
    <3>1. PICK n \in Day : n = k[2] /\ k = Discovery(n) /\ n <= today /\ (~late' => n = today)
      BY <2>2 DEF Discovery, Key
    <3>2. \A d \in Day : /\ HasRow(Discovery(d))' <=> HasRow(Discovery(d)) \/ d = n
                         /\ Discovery(d) = k <=> d = n
      BY <1>3, <3>1 DEF HasRow, Discovery
    <3>3. \A d \in Day : HasRow(Discovery(d))' => d <= today'
      BY <3>1, <3>2 DEF StagesInv, Tracks
    <3>4. \A d \in Day : HasRow(Discovery(d)) /\ d # n =>
              /\ SameRow(runs[Discovery(d)], runs'[Discovery(d)])
              /\ runs'[Discovery(d)].status # "RUNNING"
      BY <1>6, <3>2, <2>2 DEF HasRow, Table, Discovery, Mode
    <3>5. \A d \in Day : Completed(Discovery(d))' = Completed(Discovery(d))
      BY <1>3, <3>2, <3>4 DEF Completed, HasRow, SameRow, Claim
    <3>6. \A d \in Day : Completed(Discovery(d)) => SinceOf(d)' = SinceOf(d)
      BY <3>2, <3>4 DEF SinceOf, SameRow, Completed, Claim
    <3>7. \A d : Followed(d)' = Followed(d)
      BY <3>5, <3>6 DEF Followed
    <3>8. WindowsStay
      BY <3>7, WindowsFit
    <3>9. checked' = 0 \/ \E e \in Day : Followed(e)' /\ checked' = e
      BY <3>7 DEF StagesInv, Tracks
    <3>10. ASSUME NEW CONSTANT d \in Day, NEW CONSTANT t \in Nat, HasRow(Discovery(d))',
                  SinceOf(d)' = t
           PROVE  Fits(t, d)'
      <4>1. CASE d = n
        <5>1. SinceOf(d)' = s.since
          BY <1>3, <3>1, <4>1 DEF SinceOf
        <5>2. Fits(t, d)
          BY <1>12, <2>2, <3>1, <3>10, <4>1, <5>1
        <5>3. QED
          BY <3>8, <5>2 DEF WindowsStay
      <4>2. CASE d # n
        <5>1. HasRow(Discovery(d)) /\ SinceOf(d) = t
          BY <3>2, <3>4, <3>10, <4>2 DEF SinceOf, SameRow
        <5>2. QED
          BY <3>8, <5>1 DEF StagesInv, Tracks, WindowsStay
      <4>3. QED
        BY <4>1, <4>2
    <3>11. ASSUME ~late', NEW d \in Day
           PROVE  /\ HasRow(Discovery(d))' /\ runs'[Discovery(d)].status = "RUNNING" => Latest(d)'
                  /\ Followed(d)' => d <= checked'
      <4>1. n = today /\ today' = today /\ ~late
        BY <3>1, <3>11
      <4>2. HasRow(Discovery(d))' /\ runs'[Discovery(d)].status = "RUNNING" => d = n
        BY <3>2, <3>4
      <4>3. d = n => Latest(d)'
        BY <3>2, <3>3, <4>1 DEF Latest
      <4>4. Followed(d)' => d <= checked'
        BY <3>7, <4>1 DEF StagesInv, Tracks
      <4>5. QED
        BY <4>2, <4>3, <4>4
    <3>12. QED
      BY <3>3, <3>8, <3>9, <3>10, <3>11 DEF Tracks
  <2>3. QED
    BY <2>1, <2>2
<1>14. Claimants'
  <2>1. /\ w.pc = "Work" /\ w.key = k /\ w.owner = claims + 1
        /\ DOMAIN w = {"pc", "key", "owner", "snapshot", "entered"}
    BY <1>2
  <2>2. claims + 1 \in 1..claims'
    BY <1>0
  <2>3. \A q \in Process : q # p =>
           /\ process'[q] = process[q]
           /\ process[q].pc # "Idle" =>
                 process[q].key \in DOMAIN runs' /\ process[q].owner \in 1..claims
    BY <1>3, <1>4 DEF StagesInv, Claimants, HasRow
  <2>4. \A n \in 1..claims : n \in 1..claims' /\ n # claims + 1
    BY <1>0
  <2>5. ASSUME NEW q \in Process
        PROVE  /\ DOMAIN process'[q] = {"pc", "key", "owner", "snapshot", "entered"}
               /\ process'[q].pc \in {"Idle", "Work", "Save", "Complete", "Fail"}
               /\ process'[q].pc # "Idle" =>
                     process'[q].key \in DOMAIN runs' /\ process'[q].owner \in 1..claims'
    <3>1. CASE q = p
      <4>1. process'[q] = w /\ k \in DOMAIN runs'
        BY <1>3, <1>4, <3>1
      <4>2. QED
        BY <2>1, <2>2, <4>1
    <3>2. CASE q # p
      BY <2>3, <2>4, <3>2 DEF StagesInv, Claimants
    <3>3. QED
      BY <3>1, <3>2
  <2>6. ASSUME NEW q \in Process, NEW r \in Process, process'[q].pc # "Idle",
               process'[r].pc # "Idle", process'[q].owner = process'[r].owner
        PROVE  q = r
    <3>1. \A h \in Process : h # p /\ process'[h].pc # "Idle" => process'[h].owner # claims + 1
      BY <2>3, <2>4
    <3>2. process'[p].owner = claims + 1
      BY <1>4, <2>1
    <3>3. CASE q = p \/ r = p
      BY <2>6, <3>1, <3>2, <3>3
    <3>4. CASE q # p /\ r # p
      BY <2>3, <2>6, <3>4 DEF StagesInv, Claimants
    <3>5. QED
      BY <3>3, <3>4
  <2>7. QED
    BY <1>4, <2>5, <2>6 DEF Claimants, HasRow
<1>15. Memory'
  <2> SUFFICES ASSUME NEW q \in Process, Holds(q)' PROVE MemoryOf(process[q])'
    BY DEF Memory
  <2>1. CASE q # p
    <3>1. /\ process'[q] = process[q] /\ process[q].pc # "Idle"
          /\ process[q].key \in DOMAIN runs /\ process[q].owner \in 1..claims
      BY <1>4, <2>1 DEF Holds, StagesInv, Claimants, HasRow
    <3>2. process[q].key # k
      BY <1>0, <1>3, <3>1 DEF Holds, Owned
    <3>3. SameRow(runs[process[q].key], runs'[process[q].key])
      BY <1>6, <3>1, <3>2
    <3>4. QED
      BY <1>7, <1>13, <3>1, <3>3, MemoryStays DEF StagesInv
  <2>2. CASE q = p
    <3>1. process'[q] = w /\ w.key = k /\ w.snapshot = s /\ w.pc = "Work"
      BY <1>2, <1>4, <2>2
    <3>2. Kept(k, s, s)
      BY <1>5, KeptSame DEF GoodHere
    <3>3. k[1] = "discovery" => \A t \in Nat : s.since = t => Fits(t, k[2])'
      BY <1>12, <1>13 DEF WindowsStay, Key
    <3>4. MemoryOf(w)'
      BY <1>3, <1>8, <3>1, <3>2, <3>3 DEF MemoryOf
    <3>5. QED
      BY <3>1, <3>4 DEF MemoryOf, GoodHere, Fits
  <2>3. QED
    BY <2>1, <2>2
<1>16. QED
  BY <1>9, <1>10, <1>11, <1>13, <1>14, <1>15 DEF StagesInv

-----------------------------------------------------------------------------
(* The initial states.                                                     *)

\* The collection that is complete at the beginning selects by the rules.
LEMMA DoneItem ==
    ASSUME NEW c \in Candidate
    PROVE  /\ DoneCollection.results[c] \in CollectionItem
           /\ Collected(1, DoneCollection.results[c])
           /\ DoneCollection.results[c].status = "SELECTED" =>
                 DoneCollection.results[c].selected = selectArticles(Article)
<1> DEFINE i == [existing |-> 1, duplicate |-> "no", articles |-> Article,
                 relevant |-> Article, selected |-> {}, status |-> Unset]
           chosen == selectArticles(Article)
           status == IF Cardinality(chosen) < 2 THEN "INSUFFICIENT_ARTICLES"
                     ELSE IF countPublishers(Article) < 2 THEN "INSUFFICIENT_PUBLISHERS"
                     ELSE "SELECTED"
           selected == IF status = "SELECTED" THEN chosen ELSE {}
           j == DoneCollection.results[c]
<1>1. j = [i EXCEPT !.status = status, !.selected = selected]
  BY DEF DoneCollection, CollectionStatus
<1>2. chosen \in SUBSET Article /\ Cardinality(chosen) \in 0..MaxSelected
  BY SelectedBound
<1>3. countPublishers(Article) \in Nat
  BY PublisherCount
<1>4. status \in {"INSUFFICIENT_ARTICLES", "INSUFFICIENT_PUBLISHERS", "SELECTED"}
  OBVIOUS
<1>5. status = "SELECTED" =>
         Cardinality(chosen) \in 2..MaxSelected /\ countPublishers(Article) >= 2 /\ selected = chosen
  BY <1>2, <1>3, StagesAssumption
<1>6. selected \in SUBSET Article
  BY <1>2
<1> HIDE DEF chosen, status, selected
<1>7. j = [existing |-> 1, duplicate |-> "no", articles |-> Article,
           relevant |-> Article, selected |-> selected, status |-> status]
  BY <1>1
<1> HIDE DEF j
<1>8. j \in CollectionItem
  BY <1>4, <1>6, <1>7 DEF CollectionItem
<1>9. Collected(1, j)
  BY <1>5, <1>7 DEF Collected, chosen
<1>10. QED
  BY <1>5, <1>7, <1>8, <1>9 DEF j, chosen

\* The rows that are there at the beginning are right.
LEMMA DoneRows ==
    ASSUME NEW D \in {DoneOnDay1, DoneOnDay2, DoneOnDay2 \cup {<<"generation", 1>>}},
           runs = [k \in D |-> DoneRow(k)], claims = 0
    PROVE  Rows /\ OneRunPerStage
<1> USE StagesAssumption
<1>1. D \subseteq Key /\ 1 \in Day /\ 2 \in Day /\ <<"discovery", 1>> \in D
  BY DEF DoneOnDay1, DoneOnDay2, Key, Stage, Day
<1>2. \A k \in D : /\ DOMAIN runs[k] = {"status", "owner", "stale", "snapshot"}
                   /\ runs[k].status = "COMPLETED" /\ runs[k].owner = 0 /\ runs[k].stale = FALSE
                   /\ runs[k].snapshot = DoneRow(k).snapshot
                   /\ Completed(k)
  BY DEF DoneRow, Completed, HasRow
<1>3. \A k \in D : runs[k].owner \in 0..claims /\ runs[k].stale \in BOOLEAN
  <2>1. 0 \in 0..claims /\ FALSE \in BOOLEAN
    OBVIOUS
  <2>2. QED
    BY <1>2, <2>1
<1>4. /\ DoneRow(<<"discovery", 1>>).snapshot = DoneDiscovery
      /\ DoneRow(<<"discovery", 2>>).snapshot = EmptyDiscovery
      /\ DoneRow(<<"collection", 1>>).snapshot = DoneCollection
      /\ DoneRow(<<"generation", 1>>).snapshot = DoneGeneration
  BY DEF DoneRow
<1>5. HandedOn(<<"discovery", 1>>) = Candidate
  BY <1>1, <1>2, <1>4 DEF HandedOn, DoneDiscovery
<1>6. ASSUME NEW k \in D, k[1] = "discovery" PROVE RowIsRight(k)
  <2>1. k = <<"discovery", 1>> \/ k = <<"discovery", 2>>
    BY <1>6 DEF DoneOnDay1, DoneOnDay2
  <2>2. <<Candidate, {}>> \in Seq(SUBSET Candidate) /\ <<{}, {}>> \in Seq(SUBSET Candidate)
    OBVIOUS
  <2>3. DoneDiscovery \in DiscoverySnapshot /\ EmptyDiscovery \in DiscoverySnapshot
    BY <1>1, <2>2 DEF DiscoverySnapshot, DoneDiscovery, EmptyDiscovery
  <2>4. /\ DoneDiscovery.at = 1 /\ EmptyDiscovery.at = 2
        /\ DoneDiscovery.since = 0 /\ EmptyDiscovery.since = 1
        /\ DoneDiscovery.candidates \in SUBSET Candidate
        /\ EmptyDiscovery.candidates \in SUBSET Candidate
    BY DEF DoneDiscovery, EmptyDiscovery
  <2>5. /\ runs[k].snapshot \in DiscoverySnapshot /\ runs[k].snapshot.at = k[2]
        /\ runs[k].snapshot.since # Unset /\ runs[k].snapshot.candidates \in SUBSET Candidate
    BY <1>2, <1>4, <2>1, <2>3, <2>4
  <2>6. QED
    BY <1>2, <1>3, <1>6, <2>5 DEF RowIsRight, GoodHere, Good
<1>7. ASSUME NEW k \in D, k[1] = "collection" PROVE RowIsRight(k) /\ k = <<"collection", 1>>
  <2>1. k = <<"collection", 1>> /\ From(k) = <<"discovery", 1>>
    BY <1>7 DEF DoneOnDay1, DoneOnDay2, From, SourceOf
  <2>2. runs[k].snapshot = DoneCollection
    BY <1>2, <1>4, <2>1
  <2>3. DoneCollection \in [at : Day, results : [Candidate -> CollectionItem]]
    <3>1. DOMAIN DoneCollection = {"at", "results"} /\ DoneCollection.at = 1
      BY DEF DoneCollection
    <3>2. DoneCollection.results \in [Candidate -> CollectionItem]
      <4>1. PICK f : f = [c \in Candidate |-> DoneCollection.results[c]]
        OBVIOUS
      <4>2. DoneCollection.results = f
        BY <4>1 DEF DoneCollection
      <4>3. QED
        BY <4>1, <4>2, DoneItem
    <3>3. DoneCollection = [at |-> 1, results |-> DoneCollection.results]
      BY DEF DoneCollection
    <3>4. QED
      BY <1>1, <3>2, <3>3
  <2>4. DoneCollection.at = 1
    BY DEF DoneCollection
  <2>5. \A c \in Candidate : Collected(1, DoneCollection.results[c])
    BY DoneItem
  <2>6. GoodHere(k, runs[k].snapshot)
    BY <1>5, <1>7, <2>1, <2>2, <2>3, <2>4, <2>5 DEF GoodHere, Good, Item, ItemIsRight
  <2>7. QED
    BY <1>1, <1>2, <1>3, <1>7, <2>1, <2>6 DEF RowIsRight
<1>8. ASSUME NEW k \in D, k[1] = "generation" PROVE RowIsRight(k)
  <2>1. k = <<"generation", 1>> /\ From(k) = <<"collection", 1>> /\ <<"collection", 1>> \in D
    BY <1>8 DEF DoneOnDay1, DoneOnDay2, From, SourceOf
  <2>2. runs[k].snapshot = DoneGeneration /\ runs[From(k)].snapshot = DoneCollection
    BY <1>2, <1>4, <2>1
  <2> DEFINE given == {c \in Candidate : DoneCollection.results[c].status = "SELECTED"}
             item == [articles |-> selectArticles(Article), fetchFailures |-> {},
                      draft |-> "checked", classification |-> "checked",
                      glossary |-> "GENERATED", status |-> "GENERATED"]
  <2>3. DOMAIN DoneCollection.results = Candidate
    BY DEF DoneCollection
  <2>4. HandedOn(From(k)) = given
    BY <2>1, <2>2, <2>3 DEF HandedOn
  <2>5. DoneGeneration = [at |-> 1, results |-> [c \in given |-> item]]
    BY DEF DoneGeneration
  <2>6. item \in GenerationItem
    BY SelectedBound DEF GenerationItem
  <2>7. \A c \in given : item.articles = DoneCollection.results[c].selected
    BY DoneItem
  <2> HIDE DEF given, item
  <2>8. DoneGeneration \in [at : Day, results : [given -> GenerationItem]]
    BY <1>1, <2>5, <2>6
  <2>9. \A c \in given :
           ItemIsRight("generation", DoneGeneration.at, DoneGeneration.results[c],
                       DoneCollection.results[c])
    BY <2>5, <2>7 DEF ItemIsRight
  <2>10. GoodHere(k, runs[k].snapshot)
    BY <1>8, <2>2, <2>4, <2>8, <2>9 DEF GoodHere, Good, Item, ResultsOf
  <2>11. QED
    BY <1>2, <1>3, <1>8, <2>1, <2>10 DEF RowIsRight
<1>9. \A k \in D : k[1] \in {"discovery", "collection", "generation"}
  BY DEF DoneOnDay1, DoneOnDay2
<1>10. DOMAIN runs = D
  OBVIOUS
<1>11. QED
  BY <1>1, <1>2, <1>6, <1>7, <1>8, <1>9, <1>10 DEF Rows, OneRunPerStage

\* So are those of the discoveries of which the first has failed.
LEMMA FollowedRows ==
    ASSUME runs = [k \in DiscoveriesOnDay2 |-> IF k[2] = 1 THEN FailedRow(k) ELSE FollowedRow(k)],
           claims = 0
    PROVE  /\ Rows /\ OneRunPerStage
           /\ \A d \in Day : HasRow(Discovery(d)) <=> d \in {1, 2}
           /\ runs[Discovery(1)].status = "FAILED" /\ SinceOf(1) = 0
           /\ runs[Discovery(2)].status = "COMPLETED" /\ SinceOf(2) = 0
<1> USE StagesAssumption
<1>1. /\ DOMAIN runs = {Discovery(1), Discovery(2)} /\ 1 \in Day /\ 2 \in Day
      /\ runs[Discovery(1)] = FailedRow(Discovery(1))
      /\ runs[Discovery(2)] = FollowedRow(Discovery(2))
  BY DEF DiscoveriesOnDay2, Discovery, Day
<1>2. Discovery(1) \in Key /\ Discovery(2) \in Key
  BY <1>1 DEF Discovery, Key, Stage
<1>3. PICK first : first = [at |-> 1, since |-> 0, results |-> <<>>, candidates |-> Unset]
  OBVIOUS
<1>4. PICK second : second = [EmptyDiscovery EXCEPT !.since = 0]
  OBVIOUS
<1>5. runs[Discovery(1)] = [status |-> "FAILED", owner |-> 0, stale |-> FALSE, snapshot |-> first]
  BY <1>1, <1>3 DEF FailedRow, NewDiscovery, Discovery
<1>6. runs[Discovery(2)] = [status |-> "COMPLETED", owner |-> 0, stale |-> FALSE, snapshot |-> second]
  <2>1. PICK row : row = [status |-> "COMPLETED", owner |-> 0, stale |-> FALSE,
                          snapshot |-> EmptyDiscovery]
    OBVIOUS
  <2>2. DoneRow(Discovery(2)) = row
    BY <2>1 DEF DoneRow, Discovery
  <2>3. runs[Discovery(2)] = [row EXCEPT !.snapshot = [row.snapshot EXCEPT !.since = 0]]
    BY <1>1, <2>2 DEF FollowedRow
  <2>4. row.snapshot = EmptyDiscovery
    BY <2>1
  <2>5. runs[Discovery(2)] = [row EXCEPT !.snapshot = second]
    BY <1>4, <2>3, <2>4
  <2>6. QED
    BY <2>1, <2>5
<1>7. 0 \in 0..claims /\ FALSE \in BOOLEAN
  OBVIOUS
<1>8. RowIsRight(Discovery(1))
  <2>1. <<>> \in Seq(SUBSET Candidate)
    OBVIOUS
  <2>2. first \in DiscoverySnapshot /\ first.at = 1
    BY <1>1, <1>3, <2>1 DEF DiscoverySnapshot
  <2>3. GoodHere(Discovery(1), runs[Discovery(1)].snapshot)
    BY <1>5, <2>2 DEF GoodHere, Good, Discovery
  <2>4. runs[Discovery(1)].owner \in 0..claims /\ runs[Discovery(1)].stale \in BOOLEAN
    <3>1. runs[Discovery(1)].owner = 0 /\ runs[Discovery(1)].stale = FALSE
      BY <1>5
    <3>2. QED
      BY <1>7, <3>1
  <2>5. /\ DOMAIN runs[Discovery(1)] = {"status", "owner", "stale", "snapshot"}
        /\ runs[Discovery(1)].status = "FAILED"
    BY <1>5
  <2>6. Discovery(1)[1] = "discovery"
    BY DEF Discovery
  <2>7. QED
    BY <2>3, <2>4, <2>5, <2>6 DEF RowIsRight
<1>9. RowIsRight(Discovery(2))
  <2>1. <<{}, {}>> \in Seq(SUBSET Candidate) /\ {} \in SUBSET Candidate
    OBVIOUS
  <2>2. EmptyDiscovery \in DiscoverySnapshot /\ EmptyDiscovery.at = 2
    BY <1>1, <2>1 DEF DiscoverySnapshot, EmptyDiscovery
  <2>3. second \in DiscoverySnapshot /\ second.at = 2 /\ second.since = 0
        /\ second.candidates = EmptyDiscovery.candidates
    BY <1>4, <2>2 DEF DiscoverySnapshot
  <2>4. GoodHere(Discovery(2), runs[Discovery(2)].snapshot)
    BY <1>6, <2>3 DEF GoodHere, Good, Discovery
  <2>5. second.since # Unset /\ second.candidates \in SUBSET Candidate
    BY <2>3 DEF EmptyDiscovery
  <2>6. runs[Discovery(2)].owner \in 0..claims /\ runs[Discovery(2)].stale \in BOOLEAN
    <3>1. runs[Discovery(2)].owner = 0 /\ runs[Discovery(2)].stale = FALSE
      BY <1>6
    <3>2. QED
      BY <1>7, <3>1
  <2>7. /\ DOMAIN runs[Discovery(2)] = {"status", "owner", "stale", "snapshot"}
        /\ runs[Discovery(2)].status = "COMPLETED"
    BY <1>6
  <2>8. Discovery(2)[1] = "discovery"
    BY DEF Discovery
  <2>9. QED
    BY <1>6, <2>4, <2>5, <2>6, <2>7, <2>8 DEF RowIsRight
<1>10. \A k \in DOMAIN runs : runs[k].status # "RUNNING"
  BY <1>1, <1>5, <1>6
<1>11. Rows /\ OneRunPerStage
  BY <1>1, <1>2, <1>8, <1>9, <1>10 DEF Rows, OneRunPerStage
<1>12. \A d \in Day : HasRow(Discovery(d)) <=> d \in {1, 2}
  BY <1>1 DEF HasRow, Discovery
<1>13. first.since = 0 /\ second.since = 0
  BY <1>3, <1>4 DEF EmptyDiscovery
<1>14. QED
  BY <1>5, <1>6, <1>11, <1>12, <1>13 DEF SinceOf

\* The invariant holds in the beginning.
LEMMA InitStep == StagesInit => StagesInv
<1> SUFFICES ASSUME StagesInit PROVE StagesInv
  OBVIOUS
<1> USE StagesAssumption
<1>1. Counters /\ claims = 0 /\ ~late
  <2>1. claims = 0 /\ happened = 0 /\ late = FALSE
    BY DEF StagesInit
  <2>2. today \in {1, 2} /\ index \in {0, 2} /\ checked \in 0..2
    BY DEF StagesInit
  <2>3. ~late /\ late \in BOOLEAN
    BY <2>1
  <2>4. QED
    BY <2>1, <2>2, <2>3 DEF Counters, Day
<1>2. TermsPassed
  BY DEF StagesInit, TermsPassed
<1>3. Claimants
  BY DEF StagesInit, Claimants, Idle
<1>4. Memory
  BY DEF StagesInit, Memory, Holds, Idle
<1>5. CASE runs = <<>> /\ today = 1 /\ checked = 0
  <2>1. DOMAIN runs = {}
    BY <1>5
  <2>2. Rows /\ OneRunPerStage
    BY <2>1 DEF Rows, OneRunPerStage
  <2>3. Tracks
    BY <1>5, <2>1 DEF Tracks, HasRow, Followed, Completed
  <2>4. QED
    BY <1>1, <1>2, <1>3, <1>4, <2>2, <2>3 DEF StagesInv
<1>6. CASE runs = [k \in DoneOnDay1 |-> DoneRow(k)] /\ today = 1 /\ checked = 1
  <2>1. Rows /\ OneRunPerStage
    BY <1>1, <1>6, DoneRows
  <2>2. \A d \in Day : HasRow(Discovery(d)) <=> d = 1
    BY <1>6 DEF HasRow, Discovery, DoneOnDay1
  <2>3. runs[Discovery(1)].status = "COMPLETED" /\ SinceOf(1) = 0
    BY <1>6 DEF Discovery, SinceOf, DoneOnDay1, DoneRow, DoneDiscovery
  <2>4. 1 \in Day /\ \A d \in Day : Followed(d) <=> d = 1
    BY <2>2, <2>3 DEF Followed, Completed, NoTrack, Day
  <2>5. \A d \in Day : HasRow(Discovery(d)) =>
            d <= today /\ runs[Discovery(d)].status # "RUNNING" /\ Completed(Discovery(d))
    BY <1>6, <2>2, <2>3 DEF Completed
  <2>6. \A d \in Day : Followed(d) => d <= checked
    BY <1>6, <2>4
  <2>7. checked = 0 \/ \E e \in Day : Followed(e) /\ checked = e
    BY <1>6, <2>4
  <2>8. ASSUME NEW d \in Day, NEW t \in Nat, HasRow(Discovery(d)), SinceOf(d) = t
        PROVE  Fits(t, d)
    <3>1. d = 1 /\ t = 0
      BY <2>2, <2>3, <2>8
    <3>2. QED
      BY <3>1 DEF Fits, Day
  <2>9. Tracks
    BY <2>5, <2>6, <2>7, <2>8 DEF Tracks
  <2>10. QED
    BY <1>1, <1>2, <1>3, <1>4, <2>1, <2>9 DEF StagesInv
<1>7. ASSUME NEW D \in {DoneOnDay2, DoneOnDay2 \cup {<<"generation", 1>>}},
             runs = [k \in D |-> DoneRow(k)], today = 2, checked = 2
      PROVE  StagesInv
  <2>1. Rows /\ OneRunPerStage
    BY <1>1, <1>7, DoneRows
  <2>2. \A d \in Day : HasRow(Discovery(d)) <=> d \in {1, 2}
    BY <1>7 DEF HasRow, Discovery, DoneOnDay2
  <2>3. Discovery(1) \in D /\ Discovery(2) \in D
    BY DEF Discovery, DoneOnDay2
  <2>4. /\ runs[Discovery(1)].status = "COMPLETED" /\ SinceOf(1) = 0
        /\ runs[Discovery(2)].status = "COMPLETED" /\ SinceOf(2) = 1
    BY <1>7, <2>3 DEF SinceOf, Discovery, DoneRow, DoneDiscovery, EmptyDiscovery
  <2>5. /\ 1 \in Day /\ 2 \in Day
        /\ \A d \in Day : Followed(d) <=> d \in {1, 2}
    BY <2>2, <2>4 DEF Followed, Completed, NoTrack, Day
  <2>6. \A d \in Day : HasRow(Discovery(d)) =>
            d <= today /\ runs[Discovery(d)].status # "RUNNING" /\ Completed(Discovery(d))
    <3>1. ASSUME NEW d \in Day, HasRow(Discovery(d))
          PROVE  d <= today /\ runs[Discovery(d)].status = "COMPLETED"
      BY <1>7, <2>2, <2>4, <3>1
    <3>2. QED
      BY <3>1 DEF Completed
  <2>7. \A d \in Day : Followed(d) => d <= checked
    BY <1>7, <2>5
  <2>8. checked = 0 \/ \E e \in Day : Followed(e) /\ checked = e
    BY <1>7, <2>5
  <2>9. ASSUME NEW d \in Day, NEW t \in Nat, HasRow(Discovery(d)), SinceOf(d) = t
        PROVE  Fits(t, d)
    <3>1. (d = 1 /\ t = 0) \/ (d = 2 /\ t = 1)
      BY <2>2, <2>4, <2>9
    <3>2. \A e \in Day : e < d => e <= t
      BY <3>1 DEF Day
    <3>3. t < d /\ (t = 0 \/ Followed(t))
      BY <2>5, <3>1
    <3>4. QED
      BY <3>2, <3>3 DEF Fits
  <2>10. Tracks
    BY <2>6, <2>7, <2>8, <2>9 DEF Tracks
  <2>11. QED
    BY <1>1, <1>2, <1>3, <1>4, <2>1, <2>10 DEF StagesInv
<1>8. CASE /\ today = 2 /\ checked = 2
           /\ runs = [k \in DiscoveriesOnDay2 |->
                        IF k[2] = 1 THEN FailedRow(k) ELSE FollowedRow(k)]
  <2>1. /\ Rows /\ OneRunPerStage
        /\ \A d \in Day : HasRow(Discovery(d)) <=> d \in {1, 2}
        /\ runs[Discovery(1)].status = "FAILED" /\ SinceOf(1) = 0
        /\ runs[Discovery(2)].status = "COMPLETED" /\ SinceOf(2) = 0
    BY <1>1, <1>8, FollowedRows
  <2>2. 2 \in Day /\ \A d \in Day : Followed(d) <=> d = 2
    BY <2>1 DEF Followed, Completed, NoTrack, Day
  <2>3. ASSUME NEW d \in Day, NEW t \in Nat, HasRow(Discovery(d)), SinceOf(d) = t
        PROVE  Fits(t, d)
    <3>1. d \in {1, 2} /\ t = 0
      BY <2>1, <2>3
    <3>2. \A e \in Day : ~ (Followed(e) /\ e < d)
      BY <2>2, <3>1
    <3>3. QED
      BY <3>1, <3>2 DEF Fits
  <2>4. \A d \in Day : HasRow(Discovery(d)) =>
            d <= today /\ runs[Discovery(d)].status # "RUNNING"
    BY <1>8, <2>1
  <2>5. Tracks
    BY <1>8, <2>2, <2>3, <2>4 DEF Tracks
  <2>6. QED
    BY <1>1, <1>2, <1>3, <1>4, <2>1, <2>5 DEF StagesInv
<1>9. QED
  BY <1>5, <1>6, <1>7, <1>8 DEF StagesInit

-----------------------------------------------------------------------------
(* The theorems.                                                           *)

\* Every step of the stages keeps the invariant.
LEMMA NextStep == ASSUME StagesInv, StagesNext PROVE StagesInv'
<1>0. late \in BOOLEAN /\ today \in Nat
  BY DEF StagesInv, Counters, Day
<1>1. ASSUME NEW p \in Process, NEW d \in Day, ClaimDiscovery(p, d) PROVE StagesInv'
  <2>1. PICK k \in Key : k = <<"discovery", d>>
    BY DEF Key, Stage
  <2>2. late' \in BOOLEAN /\ (late => late')
    BY <1>0, <1>1 DEF ClaimDiscovery
  <2>3. ~late' => d = today
    <3>1. ~late' => ~(d < today) /\ d <= today
      BY <1>1 DEF ClaimDiscovery
    <3>2. QED
      BY <1>0, <3>1 DEF Day
  <2>4. QED
    BY <1>1, <2>1, <2>2, <2>3, ClaimStep DEF ClaimDiscovery
<1>2. ASSUME NEW p \in Process, NEW d \in Day, ClaimCollection(p, d) PROVE StagesInv'
  <2>1. PICK k \in Key : k = <<"collection", d>>
    BY DEF Key, Stage
  <2>2. From(k) = <<"discovery", d>>
    BY <2>1 DEF From, SourceOf
  <2>3. QED
    BY <1>0, <1>2, <2>1, <2>2, ClaimStep DEF ClaimCollection
<1>3. ASSUME NEW p \in Process, NEW d \in Day, ClaimGeneration(p, d) PROVE StagesInv'
  <2>1. PICK k \in Key : k = <<"generation", d>>
    BY DEF Key, Stage
  <2>2. From(k) = <<"collection", d>>
    BY <2>1 DEF From, SourceOf
  <2>3. QED
    BY <1>0, <1>3, <2>1, <2>2, ClaimStep DEF ClaimGeneration
<1>4. ASSUME NEW p \in Process, NEW d \in Day, NEW m \in Mode, ClaimValidation(p, m, d)
      PROVE  StagesInv'
  <2>1. PICK k \in Key : k = <<m, d>>
    BY DEF Key, Stage
  <2>2. From(k) = <<"generation", d>> /\ k[1] \notin {"discovery", "collection"}
    BY <2>1 DEF From, SourceOf, Mode
  <2>3. QED
    BY <1>0, <1>4, <2>1, <2>2, ClaimStep DEF ClaimValidation
<1>5. ASSUME NEW p \in Process, WorkOnQueries(p) \/ WorkOnResults(p) PROVE StagesInv'
  BY <1>5, WorkOnQueriesStep, WorkOnResultsStep
<1>6. ASSUME NEW p \in Process, Save(p) PROVE StagesInv'
  <2>1. CASE Owned(p)
    BY <1>6, <2>1, WriteStep DEF Save, Holds
  <2>2. CASE ~Owned(p)
    BY <1>6, <2>2, LeaveStep DEF Save
  <2>3. QED
    BY <2>1, <2>2
<1>7. ASSUME NEW p \in Process, Complete(p) PROVE StagesInv'
  <2>1. CASE Owned(p)
    BY <1>7, <2>1, CompleteStep
  <2>2. CASE ~Owned(p)
    <3>1. /\ process[p].pc # "Idle" /\ GiveUp(p) /\ runs' = runs
          /\ UNCHANGED <<today, index, checked, definitions, bounds>>
      BY <1>7, <2>2 DEF Complete, bounds
    <3>2. QED
      BY <3>1, LeaveStep
  <2>3. QED
    BY <2>1, <2>2
<1>8. ASSUME NEW p \in Process, Stop(p) PROVE StagesInv'
  BY <1>8, LeaveStep, WriteStep DEF Stop, Holds
<1>9. ASSUME NEW p \in Process, Fail(p) \/ Crash(p) PROVE StagesInv'
  BY <1>9, LeaveStep DEF Fail, Crash, tables
<1>10. ASSUME NEW p \in Process, Heartbeat(p) PROVE StagesInv'
  BY <1>10, EnvironmentStep
<1>11. ASSUME \/ RefreshSearchIndex \/ NextDay
              \/ \E c \in Candidate : PrepareTerms(c)
              \/ \E k \in Key : LeaseExpires(k)
       PROVE  StagesInv'
  BY <1>11, EnvironmentStep
<1>12. QED
  BY <1>1, <1>2, <1>3, <1>4, <1>5, <1>6, <1>7, <1>8, <1>9, <1>10, <1>11 DEF StagesNext

\* So it holds always.
LEMMA StagesInvCorrect == StagesSpec => []StagesInv
<1>1. StagesInit => StagesInv
  BY InitStep
<1>2. StagesInv /\ [StagesNext]_stageVars => StagesInv'
  BY NextStep, StutterStep
<1>3. QED
  BY <1>1, <1>2, PTL DEF StagesSpec

\* The inductive invariant says what the tables say of each other.
LEMMA StagesInvMeans == ASSUME StagesInv PROVE StagesSound
<1> USE StagesAssumption
<1>1. Counters /\ Rows /\ Tracks /\ TermsPassed /\ Claimants /\ OneRunPerStage
  BY DEF StagesInv
<1>2. StagesTypeOK
  <2>1. \A k \in DOMAIN runs :
           /\ runs[k].status \in {"RUNNING", "FAILED", "COMPLETED"}
           /\ runs[k].owner \in 0..claims /\ runs[k].stale \in BOOLEAN
           /\ runs[k].snapshot.at \in Day
    BY <1>1 DEF Rows, RowIsRight, GoodHere, Good, DiscoverySnapshot
  <2>2. DOMAIN definitions = Candidate
    BY <1>1 DEF TermsPassed
  <2>3. QED
    BY <1>1, <2>1, <2>2 DEF StagesTypeOK, Counters, Rows, Claimants
<1>3. FollowsSource
  <2> SUFFICES ASSUME NEW k \in DOMAIN runs, k[1] # "discovery"
               PROVE  /\ Completed(From(k))
                      /\ DOMAIN ResultsOf(k) = HandedOn(From(k))
                      /\ k[1] = "generation" =>
                           \A c \in DOMAIN ResultsOf(k) :
                               /\ Cardinality(ResultsOf(From(k))[c].selected) \in 2..MaxSelected
                               /\ countPublishers(ResultsOf(From(k))[c].relevant) >= 2
                               /\ ResultsOf(k)[c].articles \subseteq ResultsOf(From(k))[c].selected
    BY DEF FollowsSource, From
  <2>1. k \in Key /\ RowIsRight(k) /\ Completed(From(k))
    BY <1>1 DEF Rows, RowIsRight
  <2>2. /\ DOMAIN ResultsOf(k) = HandedOn(From(k))
        /\ \A c \in HandedOn(From(k)) :
             ItemIsRight(k[1], runs[k].snapshot.at, ResultsOf(k)[c], ResultsOf(From(k))[c])
    BY <2>1 DEF RowIsRight, GoodHere, Good, ResultsOf
  <2>3. ASSUME k[1] = "generation", NEW c \in HandedOn(From(k))
        PROVE  /\ Cardinality(ResultsOf(From(k))[c].selected) \in 2..MaxSelected
               /\ countPublishers(ResultsOf(From(k))[c].relevant) >= 2
               /\ ResultsOf(k)[c].articles \subseteq ResultsOf(From(k))[c].selected
    <3>1. /\ Collected(runs[From(k)].snapshot.at, ResultsOf(From(k))[c])
          /\ ResultsOf(From(k))[c].status = "SELECTED"
      BY <1>1, <2>1, <2>3, HandsOn
    <3>2. ResultsOf(k)[c].articles \subseteq ResultsOf(From(k))[c].selected
      BY <2>2, <2>3 DEF ItemIsRight
    <3>3. QED
      BY <3>1, <3>2 DEF Collected
  <2>4. QED
    BY <2>1, <2>2, <2>3
<1>4. IndexOfOwnTime
  <2> SUFFICES ASSUME NEW d \in Day, NEW k \in DOMAIN runs, k = <<"collection", d>>
               PROVE  /\ runs[k].status = "RUNNING" => index = runs[k].snapshot.at
                      /\ \A c \in DOMAIN runs[k].snapshot.results :
                           runs[k].snapshot.results[c].existing \in {Unset, runs[k].snapshot.at}
    BY DEF IndexOfOwnTime, HasRow
  <2>1. RowIsRight(k) /\ k[1] = "collection"
    BY <1>1 DEF Rows
  <2>2. QED
    BY <2>1 DEF RowIsRight, GoodHere, Good, ItemIsRight, Collected
<1>5. FollowUpsJoin
  <2> DEFINE followed == {d \in Day : Completed(<<"discovery", d>>)
                             /\ runs[<<"discovery", d>>].snapshot.since # NoTrack}
  <2>1. \A d \in Day : /\ d \in followed <=> Followed(d)
                       /\ SinceOf(d) = runs[<<"discovery", d>>].snapshot.since
    BY DEF Followed, Discovery, SinceOf
  <2>2. \A d : Followed(d) => d \in followed
    BY <2>1 DEF Followed
  <2>3. followed \subseteq Day
    OBVIOUS
  <2> HIDE DEF followed
  <2>4. checked \in {0} \cup followed
    BY <1>1, <2>2 DEF Tracks
  <2>5. ASSUME NEW d \in followed
        PROVE  /\ SinceOf(d) \in {0} \cup followed /\ SinceOf(d) < d
               /\ ~late => d <= checked /\ \A e \in followed : e < d => e <= SinceOf(d)
    <3>1. d \in Day /\ Followed(d) /\ HasRow(Discovery(d))
      BY <2>1, <2>3 DEF Followed, Completed
    <3>2. SinceOf(d) \in Nat
      <4>1. RowIsRight(Discovery(d)) /\ runs[Discovery(d)].status = "COMPLETED"
        BY <1>1, <3>1 DEF Rows, HasRow, Followed, Completed
      <4>2. SinceOf(d) # Unset /\ SinceOf(d) \in {Unset, NoTrack} \cup Nat
        BY <4>1 DEF RowIsRight, GoodHere, Good, DiscoverySnapshot, SinceOf, Discovery
      <4>3. QED
        BY <3>1, <4>2 DEF Followed
    <3>3. Fits(SinceOf(d), d) /\ (~late => d <= checked)
      BY <1>1, <3>1, <3>2 DEF Tracks
    <3>4. \A e \in followed : e \in Day /\ Followed(e)
      BY <2>1, <2>3
    <3>5. QED
      BY <2>2, <3>3, <3>4 DEF Fits
  <2>6. QED
    BY <2>1, <2>3, <2>4, <2>5 DEF FollowUpsJoin, followed
<1>6. PassedIsClean
  <2>1. ASSUME NEW k \in DOMAIN runs, k[1] \in Mode, NEW c \in DOMAIN ResultsOf(k)
        PROVE  LET r == ResultsOf(k)[c]
                   clean == IF k[1] = "RULES_ONLY" THEN r.initial = "clean"
                            ELSE IF r.repair = Unset
                            THEN r.initial = "clean" /\ r.initialTone = "clean"
                            ELSE r.final = "clean" /\ r.finalTone = "clean"
               IN  /\ r.status = "PASSED" => clean /\ r.terms = "few"
                   /\ r.status = "HELD" => ~clean
    <3> DEFINE r == ResultsOf(k)[c]
    <3>1. RowIsRight(k)
      BY <1>1 DEF Rows
    <3>2. r \in ValidationItem /\ \E from : ItemIsRight(k[1], runs[k].snapshot.at, r, from)
      BY <2>1, <3>1 DEF RowIsRight, GoodHere, Good, ResultsOf, Item, Mode
    <3> HIDE DEF r
    <3>3. CASE k[1] = "RULES_ONLY"
      <4>1. ReviewedByRules(r)
        BY <3>2, <3>3 DEF ItemIsRight
      <4>2. QED
        BY <3>3, <4>1 DEF ReviewedByRules, r
    <3>4. CASE k[1] = "TONE"
      <4>1. ReviewedTwice(r)
        BY <3>2, <3>4 DEF ItemIsRight
      <4>2. r.status = "PASSED" => Clean(r) /\ r.terms = "few"
        BY <4>1 DEF ReviewedTwice, Clean
      <4>3. r.status = "HELD" => ~Clean(r)
        BY <4>1 DEF ReviewedTwice
      <4>4. QED
        BY <3>4, <4>2, <4>3 DEF Clean, r
    <3>5. QED
      BY <2>1, <3>3, <3>4 DEF Mode
  <2>2. QED
    BY <1>1, <2>1 DEF PassedIsClean, TermsPassed
<1>7. QED
  BY <1>1, <1>2, <1>3, <1>4, <1>5, <1>6 DEF StagesSound

\* There is one run of a stage at a time; a stage works on what the one before
\* has handed on, which is complete; a collection is compared with the index of
\* its own time; the windows of the follow-ups join, and do not overlap as long as
\* no discovery is claimed after its day; and what has passed was
\* found clean as it is.  So it is in every state, whoever loses his lease,
\* stops, crashes or comes late.
THEOREM StagesSoundCorrect == StagesSpec => []StagesSound
<1>1. StagesInv => StagesSound
  BY StagesInvMeans
<1>2. QED
  BY <1>1, StagesInvCorrect, PTL

-----------------------------------------------------------------------------
(* What is kept.                                                           *)

RowKept(k) ==
    /\ k \in DOMAIN runs'
    /\ runs'[k] # runs[k] =>
          ~Completed(k) /\ Kept(k, runs[k].snapshot, runs'[k].snapshot)

\* A row that is not complete keeps its snapshot if nothing writes it.
LEMMA SnapshotStays ==
    ASSUME Rows, NEW k \in DOMAIN runs, ~Completed(k), k \in DOMAIN runs',
           runs'[k].snapshot = runs[k].snapshot
    PROVE  RowKept(k)
<1>1. GoodHere(k, runs[k].snapshot)
  BY DEF Rows, RowIsRight
<1>2. Kept(k, runs[k].snapshot, runs[k].snapshot)
  BY <1>1, KeptSame DEF GoodHere
<1>3. QED
  BY <1>2 DEF RowKept

\* What an owner writes goes on from what is saved.
LEMMA WrittenIsKept ==
    ASSUME StagesInv, NEW p \in Process, Holds(p), NEW row,
           row.snapshot = process[p].snapshot,
           runs' = [runs EXCEPT ![process[p].key] = row]
    PROVE  \A k \in DOMAIN runs : RowKept(k)
<1>1. PICK j : j = process[p].key
  OBVIOUS
<1>2. /\ j \in DOMAIN runs /\ ~Completed(j)
      /\ Kept(j, runs[j].snapshot, row.snapshot)
  BY <1>1 DEF StagesInv, Claimants, HasRow, Holds, Owned, Completed, Memory, MemoryOf
<1>3. DOMAIN runs' = DOMAIN runs /\ runs'[j] = row /\ \A k \in DOMAIN runs : k # j => runs'[k] = runs[k]
  BY <1>1, <1>2
<1>4. QED
  BY <1>2, <1>3 DEF RowKept

\* A claim leaves every row that was there what it may be left.
LEMMA ClaimKeeps ==
    ASSUME StagesInv, NEW p \in Process, NEW k \in Key, Claim(p, k)
    PROVE  \A j \in DOMAIN runs : RowKept(j)
<1> SUFFICES ASSUME NEW j \in DOMAIN runs PROVE RowKept(j)
  OBVIOUS
<1>1. Rows /\ RowIsRight(j)
  BY DEF StagesInv, Rows
<1>2. j \in DOMAIN runs'
  BY DEF Claim, Claimed
<1>3. CASE j = k
  <2>1. ~Completed(j) /\ runs'[j].snapshot = runs[j].snapshot
    BY <1>2, <1>3 DEF Claim, Claimed, HasRow
  <2>2. QED
    BY <1>1, <1>2, <2>1, SnapshotStays
<1>4. CASE j # k /\ j \in Rivals(k)
  <2>1. runs'[j] = Ended(runs[j], "FAILED") /\ ~Completed(j)
    BY <1>4 DEF Claim, Claimed, Rivals, Completed
  <2>2. runs'[j].snapshot = runs[j].snapshot
    BY <1>1, <2>1 DEF Ended, RowIsRight
  <2>3. QED
    BY <1>1, <1>2, <2>1, <2>2, SnapshotStays
<1>5. CASE j # k /\ j \notin Rivals(k)
  <2>1. runs'[j] = runs[j]
    BY <1>5 DEF Claim, Claimed
  <2>2. QED
    BY <1>2, <2>1 DEF RowKept
<1>6. QED
  BY <1>3, <1>4, <1>5

\* A field of a row that runs is changed, and not its snapshot.
LEMMA FieldKeeps ==
    ASSUME StagesInv, NEW j \in DOMAIN runs, runs[j].status = "RUNNING", NEW row,
           row.snapshot = runs[j].snapshot, runs' = [runs EXCEPT ![j] = row]
    PROVE  \A k \in DOMAIN runs : RowKept(k)
<1>1. ~Completed(j) /\ Rows
  BY DEF StagesInv, Completed
<1>2. DOMAIN runs' = DOMAIN runs /\ runs'[j] = row /\ \A k \in DOMAIN runs : k # j => runs'[k] = runs[k]
  OBVIOUS
<1>3. RowKept(j)
  BY <1>1, <1>2, SnapshotStays
<1>4. QED
  BY <1>2, <1>3 DEF RowKept

\* So does every step that changes the rows.
LEMMA RowsKept ==
    ASSUME StagesInv, StagesNext, runs' # runs
    PROVE  \A k \in DOMAIN runs : RowKept(k)
<1>1. \A p \in Process : DOMAIN process[p] = {"pc", "key", "owner", "snapshot", "entered"}
  BY DEF StagesInv, Claimants
<1>2. \A k \in DOMAIN runs : DOMAIN runs[k] = {"status", "owner", "stale", "snapshot"}
  BY DEF StagesInv, Rows, RowIsRight
<1>3. ASSUME NEW p \in Process, NEW k \in Key, Claim(p, k)
      PROVE  \A j \in DOMAIN runs : RowKept(j)
  BY <1>3, ClaimKeeps
<1>4. CASE \E p \in Process :
              \E d \in Day : \/ ClaimDiscovery(p, d)
                             \/ ClaimCollection(p, d)
                             \/ ClaimGeneration(p, d)
                             \/ \E m \in Mode : ClaimValidation(p, m, d)
  <2>1. \E p \in Process, k \in Key : Claim(p, k)
    <3>1. \A d \in Day, stage \in Stage : <<stage, d>> \in Key
      BY DEF Key
    <3>3. {"discovery", "collection", "generation"} \subseteq Stage /\ Mode \subseteq Stage
      BY DEF Stage
    <3>4. ASSUME NEW p \in Process, NEW d \in Day, ClaimDiscovery(p, d)
          PROVE  \E k \in Key : Claim(p, k)
      BY <3>1, <3>3, <3>4 DEF ClaimDiscovery
    <3>5. ASSUME NEW p \in Process, NEW d \in Day, ClaimCollection(p, d) \/ ClaimGeneration(p, d)
          PROVE  \E k \in Key : Claim(p, k)
      BY <3>1, <3>3, <3>5 DEF ClaimCollection, ClaimGeneration
    <3>6. ASSUME NEW p \in Process, NEW d \in Day, NEW m \in Mode, ClaimValidation(p, m, d)
          PROVE  \E k \in Key : Claim(p, k)
      BY <3>1, <3>3, <3>6 DEF ClaimValidation
    <3>7. QED
      BY <1>4, <3>4, <3>5, <3>6
  <2>2. QED
    BY <1>3, <2>1
<1>5. ASSUME NEW p \in Process, process[p].pc \in {"Work", "Save", "Complete"}, Owned(p),
             runs' = [runs EXCEPT ![process[p].key].snapshot = process[p].snapshot,
                                  ![process[p].key].stale = FALSE]
      PROVE  \A j \in DOMAIN runs : RowKept(j)
  <2>1. PICK j : j = process[p].key
    OBVIOUS
  <2>2. j \in DOMAIN runs
    BY <1>5, <2>1 DEF StagesInv, Claimants, HasRow
  <2>3. PICK row : row = [runs[j] EXCEPT !.snapshot = process[p].snapshot, !.stale = FALSE]
    OBVIOUS
  <2>4. runs' = [runs EXCEPT ![j] = row] /\ row.snapshot = process[p].snapshot
    BY <1>2, <1>5, <2>1, <2>2, <2>3
  <2>5. QED
    BY <1>5, <2>1, <2>4, WrittenIsKept DEF Holds
<1>6. ASSUME NEW p \in Process, Complete(p)
      PROVE  \A j \in DOMAIN runs : RowKept(j)
  <2>1. PICK j : j = process[p].key
    OBVIOUS
  <2>2. /\ Owned(p) /\ process[p].pc \in {"Work", "Complete"}
        /\ runs' = [runs EXCEPT ![j] = Ended([@ EXCEPT !.snapshot = process[p].snapshot], "COMPLETED")]
    BY <1>6, <2>1 DEF Complete
  <2>3. j \in DOMAIN runs
    BY <2>1, <2>2 DEF StagesInv, Claimants, HasRow
  <2>4. PICK row : row = Ended([runs[j] EXCEPT !.snapshot = process[p].snapshot], "COMPLETED")
    OBVIOUS
  <2>5. runs' = [runs EXCEPT ![j] = row] /\ row.snapshot = process[p].snapshot
    BY <1>2, <2>2, <2>3, <2>4 DEF Ended
  <2>6. QED
    BY <2>1, <2>2, <2>5, WrittenIsKept DEF Holds
<1>7. ASSUME NEW p \in Process, Fail(p) \/ Heartbeat(p)
      PROVE  \A j \in DOMAIN runs : RowKept(j)
  <2>1. PICK j : j = process[p].key
    OBVIOUS
  <2>2. j \in DOMAIN runs /\ runs[j].status = "RUNNING"
    BY <1>7, <2>1 DEF Fail, Heartbeat, Owned, StagesInv, Claimants, HasRow
  <2>3. \E row : row.snapshot = runs[j].snapshot /\ runs' = [runs EXCEPT ![j] = row]
    <3>1. CASE Fail(p)
      <4>1. runs' = [runs EXCEPT ![j] = Ended(runs[j], "FAILED")]
        BY <2>1, <3>1 DEF Fail
      <4>2. Ended(runs[j], "FAILED").snapshot = runs[j].snapshot
        BY <1>2, <2>2 DEF Ended
      <4>3. QED
        BY <4>1, <4>2
    <3>2. CASE Heartbeat(p)
      <4>1. runs' = [runs EXCEPT ![j] = [runs[j] EXCEPT !.stale = FALSE]]
        BY <2>1, <3>2 DEF Heartbeat
      <4>2. [runs[j] EXCEPT !.stale = FALSE].snapshot = runs[j].snapshot
        BY <1>2, <2>2
      <4>3. QED
        BY <4>1, <4>2
    <3>3. QED
      BY <1>7, <3>1, <3>2
  <2>4. QED
    BY <2>2, <2>3, FieldKeeps
<1>8. ASSUME NEW j \in Key, LeaseExpires(j)
      PROVE  \A k \in DOMAIN runs : RowKept(k)
  <2>1. j \in DOMAIN runs /\ runs[j].status = "RUNNING"
    BY <1>8 DEF LeaseExpires, HasRow
  <2>2. runs' = [runs EXCEPT ![j] = [runs[j] EXCEPT !.stale = TRUE]]
    BY <1>8 DEF LeaseExpires
  <2>3. [runs[j] EXCEPT !.stale = TRUE].snapshot = runs[j].snapshot
    BY <1>2, <2>1
  <2>4. QED
    BY <2>1, <2>2, <2>3, FieldKeeps
<1>9. ASSUME NEW p \in Process,
             \/ WorkOnQueries(p) \/ WorkOnResults(p) \/ Save(p)
             \/ Stop(p) \/ Crash(p)
      PROVE  \A j \in DOMAIN runs : RowKept(j)
  BY <1>5, <1>9 DEF WorkOnQueries, WorkOnResults, Save, Stop, Crash, tables
<1>10. QED
  BY <1>4, <1>6, <1>7, <1>8, <1>9
     DEF StagesNext, RefreshSearchIndex, PrepareTerms, NextDay, tables

\* A definition once written is not written again.
LEMMA DefinitionsStay ==
    ASSUME StagesInv, [StagesNext]_stageVars, NEW c \in Candidate, definitions[c] # Unset
    PROVE  definitions'[c] = definitions[c]
<1>1. ASSUME NEW p \in Process, Complete(p) PROVE definitions'[c] = definitions[c]
  BY <1>1 DEF Complete, Published
<1>2. ASSUME NEW e \in Candidate, PrepareTerms(e) PROVE definitions'[c] = definitions[c]
  BY <1>2 DEF PrepareTerms, StagesInv, TermsPassed
<1>3. definitions' = definitions \/ (\E p \in Process : Complete(p)) \/ (\E e \in Candidate : PrepareTerms(e))
  BY DEF StagesNext, stageVars, ClaimDiscovery, ClaimCollection, ClaimGeneration, ClaimValidation,
         WorkOnQueries, WorkOnResults, Save, Stop, Fail, Heartbeat, Crash, LeaseExpires,
         RefreshSearchIndex, NextDay, tables
<1>4. QED
  BY <1>1, <1>2, <1>3

\* The track moves on only from where a window begins, to the day of the window.
LEMMA TrackMovesOn ==
    ASSUME StagesInv, [StagesNext]_stageVars
    PROVE  checked' >= checked
<1>1. checked \in Nat
  BY DEF StagesInv, Counters
<1>2. ASSUME NEW p \in Process, Complete(p) PROVE checked' >= checked
  <2>1. PICK w : w = process[p]
    OBVIOUS
  <2>2. CASE Owned(p) /\ w.key[1] = "discovery" /\ w.snapshot.since = checked
    <3>1. MemoryOf(w)
      BY <1>2, <2>1, <2>2 DEF Complete, Holds, StagesInv, Memory
    <3>2. checked < w.key[2] /\ w.snapshot.at = w.key[2]
      BY <1>1, <2>2, <3>1 DEF MemoryOf, Fits, GoodHere, Good
    <3>3. checked' = w.snapshot.at
      BY <1>2, <2>1, <2>2 DEF Complete, Tracked
    <3>4. w.key[2] \in Nat
      BY <1>2, <2>1, <2>2 DEF Complete, StagesInv, Claimants, HasRow, Rows, Key, Day
    <3>5. QED
      BY <1>1, <3>2, <3>3, <3>4
  <2>3. CASE ~(Owned(p) /\ w.key[1] = "discovery" /\ w.snapshot.since = checked)
    <3>1. checked' = checked
      BY <1>2, <2>1, <2>3 DEF Complete, Tracked
    <3>2. QED
      BY <1>1, <3>1
  <2>4. QED
    BY <2>2, <2>3
<1>3. checked' = checked \/ \E p \in Process : Complete(p)
  BY DEF StagesNext, stageVars, ClaimDiscovery, ClaimCollection, ClaimGeneration, ClaimValidation,
         WorkOnQueries, WorkOnResults, Save, Stop, Fail, Heartbeat, Crash, LeaseExpires,
         RefreshSearchIndex, PrepareTerms, NextDay, tables
<1>4. QED
  BY <1>1, <1>2, <1>3

\* What was saved once is not lost or replaced, by whoever writes or claims, a
\* completed run is final, and a definition too; the track never goes back.
THEOREM SavedWorkStaysCorrect == StagesSpec => SavedWorkStays
<1>1. StagesInv /\ [StagesNext]_stageVars =>
         [/\ runs' # runs =>
                \A k \in DOMAIN runs :
                    /\ k \in DOMAIN runs'
                    /\ runs'[k] # runs[k] =>
                          ~Completed(k) /\ Kept(k, runs[k].snapshot, runs'[k].snapshot)
          /\ checked' >= checked
          /\ \A c \in Candidate :
                definitions[c] # Unset => definitions'[c] = definitions[c]]_stageVars
  <2> SUFFICES ASSUME StagesInv, [StagesNext]_stageVars
               PROVE  /\ runs' # runs =>
                            \A k \in DOMAIN runs :
                                /\ k \in DOMAIN runs'
                                /\ runs'[k] # runs[k] =>
                                      ~Completed(k) /\ Kept(k, runs[k].snapshot, runs'[k].snapshot)
                      /\ checked' >= checked
                      /\ \A c \in Candidate :
                            definitions[c] # Unset => definitions'[c] = definitions[c]
    OBVIOUS
  <2>1. ASSUME runs' # runs PROVE \A k \in DOMAIN runs : RowKept(k)
    <3>1. StagesNext
      BY <2>1 DEF stageVars
    <3>2. QED
      BY <2>1, <3>1, RowsKept
  <2>2. QED
    BY <2>1, DefinitionsStay, TrackMovesOn DEF RowKept
<1>2. QED
  BY <1>1, StagesInvCorrect, PTL DEF StagesSpec, SavedWorkStays

-----------------------------------------------------------------------------
(* The fetch of an article.                                                *)

FetchTypes ==
    /\ pc \in {"search", "hits", "check", "ask", "wait", "redirect", "header", "body", "end"}
    /\ hop \in 0 .. MaxHops
    /\ queue \in Seq(Server)
    /\ verified \subseteq [hop : Nat, address : Server]
    /\ total \in Nat

\* What the caller has at each place: addresses to ask, an answer, a result.
Phases ==
    /\ pc \in {"search", "hits", "check"} => queue = <<>>
    /\ pc \in {"ask", "wait", "redirect", "header", "body"} => queue # <<>>
    /\ pc \in {"search", "hits"} => asked = {} /\ verified = {}
    /\ pc \in {"search", "hits", "check", "ask", "wait"} => answer = NoAnswer
    /\ pc \in {"redirect", "header"} =>
          answer.status \in StatusClass /\ answer.declared \in Nat /\ total = 0
    /\ pc = "header" => answer.status # "redirect"
    /\ pc \in {"wait", "redirect", "header", "body"} => Now \in asked
    /\ pc = "body" => /\ answer.status = "ok" /\ answer.html
                      /\ answer.declared <= MaxBytes /\ total <= MaxBytes
    /\ pc # "end" => result = None

\* A connection is that of the request of this moment, and none is open while
\* the next request is prepared.
Connections ==
    /\ timed = open
    /\ open \subseteq IF queue = <<>> THEN {} ELSE {Now}
    /\ pc \in {"search", "hits", "check", "ask"} => open = {}

\* What is in the queue was verified for this hop, and what was verified for it
\* was asked or is in the queue.
AddressesKnown ==
    /\ asked \subseteq verified
    /\ \A k \in DOMAIN queue : [hop |-> hop, address |-> queue[k]] \in verified
    /\ \A c \in verified :
          /\ c.hop <= hop
          /\ c.hop = hop => c \in asked \/ \E k \in DOMAIN queue : c.address = queue[k]
          /\ pc = "check" => c.hop # hop

FetchInv == FetchTypes /\ Phases /\ Connections /\ AddressesKnown /\ ResultIsRight

\* A fetch starts in a state the invariant describes.
LEMMA FetchInvInit == FetchInit => FetchInv
<1> SUFFICES ASSUME FetchInit PROVE FetchInv
  OBVIOUS
<1>1. FetchTypes
  BY FetchAssumption DEF FetchInit, FetchTypes
<1>2. Phases /\ Connections /\ AddressesKnown
  BY DEF FetchInit, Phases, Connections, AddressesKnown
<1>3. ResultIsRight
  BY FetchAssumption DEF FetchInit, ResultIsRight, None
<1>4. QED
  BY <1>1, <1>2, <1>3 DEF FetchInv

\* A call ends before it has read a body: nothing else moves but the answer.
LEMMA EndsEarly ==
    ASSUME FetchInv, pc # "end", pc' = "end",
           UNCHANGED <<hop, queue, asked, verified, open, timed, total>>,
           total <= MaxBytes + MaxChunk,
           result'.code \in {"SOURCE_UNAVAILABLE", "INVALID_OUTPUT", "HITS"}
             \/ /\ result'.code = "UPSTREAM_ERROR"
                /\ \/ result'.retryable /\ result'.uncertain = (answer'.status # "busy")
                   \/ /\ ~result'.retryable /\ ~result'.uncertain
                      /\ answer' = NoAnswer /\ asked = {}
    PROVE  FetchInv'
<1>1. FetchTypes'
  BY DEF FetchInv, FetchTypes
<1>2. Phases'
  BY DEF Phases
<1>3. Connections' /\ AddressesKnown'
  BY DEF FetchInv, Connections, AddressesKnown, Now
<1>4. ResultIsRight'
  BY DEF ResultIsRight
<1>5. QED
  BY <1>1, <1>2, <1>3, <1>4 DEF FetchInv

\* While a call goes on, its result is still to come.
LEMMA StillToCome ==
    ASSUME result' = None, total' <= MaxBytes + MaxChunk
    PROVE  ResultIsRight'
BY DEF ResultIsRight, None

\* The search and its answers keep the invariant.
LEMMA SearchSteps ==
    ASSUME FetchInv,
           \/ \E configured \in BOOLEAN : Search(configured)
           \/ fetchOnceFails
           \/ \E status \in StatusClass, broken, valid \in BOOLEAN :
                SearchAnswered(status, broken, valid)
    PROVE  FetchInv'
<1> USE DEF Ends, Failure, Unavailable, Interrupted
<1>0. total <= MaxBytes + MaxChunk
  BY DEF FetchInv, ResultIsRight
<1>1. ASSUME NEW configured \in BOOLEAN, Search(configured) PROVE FetchInv'
  <2>1. CASE configured
    <3>1. FetchTypes' /\ Phases'
      BY <1>1, <2>1 DEF Search, FetchInv, FetchTypes, Phases
    <3>2. Connections' /\ AddressesKnown'
      BY <1>1, <2>1 DEF Search, FetchInv, Connections, AddressesKnown, Phases, Now
    <3>3. ResultIsRight'
      BY <1>0, <1>1, <2>1, StillToCome DEF Search, FetchInv, Phases
    <3>4. QED
      BY <3>1, <3>2, <3>3 DEF FetchInv
  <2>2. CASE ~configured
    BY <1>0, <1>1, <2>2, EndsEarly DEF Search, FetchInv, Phases
  <2>3. QED
    BY <2>1, <2>2
<1>2. ASSUME fetchOnceFails PROVE FetchInv'
  <2>1. answer' = answer /\ answer.status = "none"
    BY <1>2 DEF fetchOnceFails, FetchInv, Phases, NoAnswer
  <2>2. /\ result'.code = "UPSTREAM_ERROR" /\ result'.retryable
        /\ result'.uncertain = (answer'.status # "busy")
    BY <1>2, <2>1 DEF fetchOnceFails
  <2>3. QED
    BY <1>0, <1>2, <2>2, EndsEarly DEF fetchOnceFails
<1>3. ASSUME NEW status \in StatusClass, NEW broken \in BOOLEAN, NEW valid \in BOOLEAN,
             SearchAnswered(status, broken, valid)
      PROVE  FetchInv'
  <2>1. answer'.status = status
    BY <1>3 DEF SearchAnswered, NoAnswer
  <2>2. CASE status = "busy" \/ status = "refused"
    BY <1>0, <1>3, <2>1, <2>2, EndsEarly DEF SearchAnswered, FetchInv, Phases
  <2>3. CASE status = "ok"
    <3>1. result' = readJsonBody(broken, valid)
      BY <1>3, <2>3 DEF SearchAnswered
    <3>2. \/ result'.code = "INVALID_OUTPUT" \/ result'.code = "HITS"
          \/ /\ result'.code = "UPSTREAM_ERROR" /\ result'.retryable
             /\ result'.uncertain = (answer'.status # "busy")
      BY <2>1, <2>3, <3>1 DEF readJsonBody
    <3>3. QED
      BY <1>0, <1>3, <3>2, EndsEarly DEF SearchAnswered
  <2>4. QED
    BY <1>3, <2>2, <2>3 DEF SearchAnswered, StatusClass
<1>4. QED
  BY <1>1, <1>2, <1>3

\* A URL is checked: the queue is filled, or the call ends.
LEMMA QueueFilled ==
    ASSUME FetchInv, pc = "check", pc' = "ask",
           queue' \in Seq(Server), queue' # <<>>,
           verified' = verified \cup {[hop |-> hop, address |-> a] : a \in ToSet(queue')},
           UNCHANGED <<hop, asked, open, timed, answer, total, result>>
    PROVE  FetchInv'
<1>1. \A k \in DOMAIN queue' : queue'[k] \in Server /\ queue'[k] \in ToSet(queue')
  BY DEF ToSet
<1>2. FetchTypes'
  <2>1. \A a \in ToSet(queue') : a \in Server
    BY <1>1 DEF ToSet
  <2>2. verified' \subseteq [hop : Nat, address : Server]
    BY <2>1, FetchAssumption DEF FetchInv, FetchTypes
  <2>3. QED
    BY <2>2 DEF FetchInv, FetchTypes
<1>3. Phases'
  BY DEF FetchInv, Phases
<1>4. Connections'
  BY DEF FetchInv, Connections
<1>5. AddressesKnown'
  <2>1. \A c \in verified : c.hop <= hop /\ c.hop # hop
    BY DEF FetchInv, AddressesKnown
  <2>2. \A k \in DOMAIN queue' : [hop |-> hop, address |-> queue'[k]] \in verified'
    BY <1>1
  <2>3. \A c \in verified' \ verified :
           c.hop = hop /\ \E k \in DOMAIN queue' : c.address = queue'[k]
    BY DEF ToSet
  <2>4. hop <= hop
    BY FetchAssumption DEF FetchInv, FetchTypes
  <2>5. asked' \subseteq verified'
    BY DEF FetchInv, AddressesKnown
  <2>6. QED
    BY <2>1, <2>2, <2>3, <2>4, <2>5 DEF AddressesKnown
<1>6. ResultIsRight'
  BY DEF FetchInv, ResultIsRight
<1>7. QED
  BY <1>2, <1>3, <1>4, <1>5, <1>6 DEF FetchInv

\* So do the checks of an address, before and after its name is resolved.
LEMMA CheckSteps ==
    ASSUME FetchInv,
           \/ CheckAddress \/ RefuseUrl
           \/ \E found \in UNION {[1..n -> Server] : n \in 0..MaxAddresses} :
                IsInjective(found) /\ Resolve(found)
           \/ \E transient \in BOOLEAN : ResolveFails(transient)
    PROVE  FetchInv'
<1> USE DEF Ends, Failure, Unavailable, Interrupted
<1>0. total <= MaxBytes + MaxChunk
  BY DEF FetchInv, ResultIsRight
<1>1. ASSUME CheckAddress PROVE FetchInv'
  <2>1. CASE isPublicIpAddress(url)
    <3>1. url \in Server
      BY <1>1 DEF CheckAddress
    <3>2. queue' = <<url>> /\ queue' # <<>> /\ queue' \in Seq(Server)
      <4>1. <<url>> \in Seq(Server) /\ <<url>> # <<>>
        BY <3>1
      <4>2. queue' = <<url>>
        BY <1>1, <2>1 DEF CheckAddress
      <4>3. QED
        BY <4>1, <4>2
    <3>3. ToSet(<<url>>) = {url}
      BY DEF ToSet
    <3>4. verified' = verified \cup {[hop |-> hop, address |-> a] : a \in ToSet(queue')}
      BY <1>1, <2>1, <3>2, <3>3 DEF CheckAddress
    <3>5. QED
      BY <1>1, <2>1, <3>2, <3>4, QueueFilled DEF CheckAddress
  <2>2. CASE ~isPublicIpAddress(url)
    BY <1>0, <1>1, <2>2, EndsEarly DEF CheckAddress
  <2>3. QED
    BY <2>1, <2>2
<1>2. ASSUME RefuseUrl PROVE FetchInv'
  BY <1>0, <1>2, EndsEarly DEF RefuseUrl
<1>3. ASSUME NEW found \in UNION {[1..n -> Server] : n \in 0..MaxAddresses}, Resolve(found)
      PROVE  FetchInv'
  <2>1. found \in Seq(Server)
    <3>1. PICK n \in 0..MaxAddresses : found \in [1..n -> Server]
      OBVIOUS
    <3>2. n \in Nat
      BY FetchAssumption
    <3>3. QED
      BY <3>1, <3>2
  <2>2. CASE found # <<>> /\ \A a \in ToSet(found) : isPublicIpAddress(a)
    BY <1>3, <2>1, <2>2, QueueFilled DEF Resolve
  <2>3. CASE ~ (found # <<>> /\ \A a \in ToSet(found) : isPublicIpAddress(a))
    BY <1>0, <1>3, <2>3, EndsEarly DEF Resolve
  <2>4. QED
    BY <2>2, <2>3
<1>4. ASSUME NEW transient \in BOOLEAN, ResolveFails(transient) PROVE FetchInv'
  <2>1. CASE transient
    <3>1. answer' = answer /\ answer.status = "none"
      BY <1>4 DEF ResolveFails, FetchInv, Phases, NoAnswer
    <3>2. /\ result'.code = "UPSTREAM_ERROR" /\ result'.retryable
          /\ result'.uncertain = (answer'.status # "busy")
      BY <1>4, <2>1, <3>1 DEF ResolveFails
    <3>3. QED
      BY <1>0, <1>4, <3>2, EndsEarly DEF ResolveFails
  <2>2. CASE ~transient
    BY <1>0, <1>4, <2>2, EndsEarly DEF ResolveFails
  <2>3. QED
    BY <2>1, <2>2
<1>5. QED
  BY <1>1, <1>2, <1>3, <1>4

\* So do the request to an address, and its answer.
LEMMA AddressSteps ==
    ASSUME FetchInv,
           \/ Ask \/ AddressFails
           \/ \E status \in StatusClass, html \in BOOLEAN, declared \in {0, MaxBytes + 1} :
                Respond(status, html, declared)
    PROVE  FetchInv'
<1>0. total <= MaxBytes + MaxChunk
  BY DEF FetchInv, ResultIsRight
<1>1. ASSUME Ask PROVE FetchInv'
  <2>1. Now' = Now /\ queue # <<>> /\ Now \in verified /\ open = {} /\ timed = {}
    <3>1. queue # <<>> /\ queue \in Seq(Server)
      BY <1>1 DEF Ask, FetchInv, Phases, FetchTypes
    <3>2. 1 \in DOMAIN queue
      BY <3>1
    <3>3. QED
      BY <1>1, <3>1, <3>2 DEF Ask, FetchInv, Now, AddressesKnown, Connections
  <2>2. FetchTypes' /\ ResultIsRight'
    BY <1>0, <1>1, StillToCome DEF Ask, FetchInv, FetchTypes, Phases
  <2>3. Phases'
    BY <1>1, <2>1 DEF Ask, FetchInv, Phases
  <2>4. Connections'
    BY <1>1, <2>1 DEF Ask, Connections
  <2>5. AddressesKnown'
    BY <1>1, <2>1 DEF Ask, FetchInv, AddressesKnown
  <2>6. QED
    BY <2>2, <2>3, <2>4, <2>5 DEF FetchInv
<1>2. ASSUME AddressFails PROVE FetchInv'
  <2>1. queue # <<>> /\ queue \in Seq(Server) /\ Now \in asked /\ answer = NoAnswer
    BY <1>2 DEF AddressFails, FetchInv, Phases, FetchTypes
  <2>2. /\ queue' = Tail(queue) /\ queue' \in Seq(Server)
        /\ Len(queue') = Len(queue) - 1
        /\ \A k \in DOMAIN queue' : k + 1 \in DOMAIN queue /\ queue'[k] = queue[k + 1]
        /\ \A k \in DOMAIN queue : k # 1 =>
              k - 1 \in DOMAIN queue' /\ queue[k] = queue'[k - 1]
    BY <1>2, <2>1 DEF AddressFails
  <2>3. open' = {} /\ timed' = {}
    BY <1>2, <2>1 DEF AddressFails, FetchInv, Connections
  <2>4. AddressesKnown'
    <3>1. asked' \subseteq verified'
      BY <1>2 DEF AddressFails, FetchInv, AddressesKnown
    <3>2. \A k \in DOMAIN queue' : [hop |-> hop', address |-> queue'[k]] \in verified'
      BY <1>2, <2>2 DEF AddressFails, FetchInv, AddressesKnown
    <3>3. ASSUME NEW c \in verified', c.hop = hop'
          PROVE  c \in asked' \/ \E k \in DOMAIN queue' : c.address = queue'[k]
      <4>1. c \in verified /\ c.hop = hop /\ c = [hop |-> c.hop, address |-> c.address]
        BY <1>2, <3>3 DEF AddressFails, FetchInv, FetchTypes
      <4>2. c \in asked \/ \E k \in DOMAIN queue : c.address = queue[k]
        BY <4>1 DEF FetchInv, AddressesKnown
      <4>3. c.address = queue[1] => c \in asked
        BY <2>1, <4>1 DEF Now
      <4>4. QED
        BY <1>2, <2>2, <4>2, <4>3 DEF AddressFails
    <3>4. pc' # "check" /\ \A c \in verified' : c.hop <= hop'
      BY <1>2 DEF AddressFails, Ends, FetchInv, AddressesKnown
    <3>5. QED
      BY <3>1, <3>2, <3>3, <3>4 DEF AddressesKnown
  <2>5. FetchTypes'
    BY <1>2, <2>2 DEF AddressFails, Ends, FetchInv, FetchTypes
  <2>6. CASE Len(queue) > 1
    <3>1. pc' = "ask" /\ queue' # <<>> /\ result' = None
      BY <1>2, <2>2, <2>6 DEF AddressFails, FetchInv, Phases
    <3>2. ResultIsRight'
      BY <1>0, <1>2, <3>1, StillToCome DEF AddressFails
    <3>3. Phases' /\ Connections'
      BY <1>2, <2>1, <2>3, <3>1 DEF AddressFails, Phases, Connections
    <3>4. QED
      BY <2>4, <2>5, <3>2, <3>3 DEF FetchInv
  <2>7. CASE ~ (Len(queue) > 1)
    <3>1. pc' = "end" /\ result' = Interrupted /\ answer' = NoAnswer /\ total' = total
      BY <1>2, <2>1, <2>7 DEF AddressFails, Ends
    <3>2. ResultIsRight'
      <4>1. answer'.status = "none"
        BY <3>1 DEF NoAnswer
      <4>2. /\ result'.code = "UPSTREAM_ERROR" /\ result'.retryable
            /\ result'.uncertain = (answer'.status # "busy")
        BY <3>1, <4>1 DEF Interrupted, Failure
      <4>3. QED
        BY <1>0, <3>1, <4>2 DEF ResultIsRight
    <3>3. Phases' /\ Connections'
      BY <2>3, <3>1 DEF Phases, Connections
    <3>4. QED
      BY <2>4, <2>5, <3>2, <3>3 DEF FetchInv
  <2>8. QED
    BY <2>6, <2>7
<1>3. ASSUME NEW status \in StatusClass, NEW html \in BOOLEAN, NEW declared \in {0, MaxBytes + 1},
             Respond(status, html, declared)
      PROVE  FetchInv'
  <2>1. /\ pc' \in {"redirect", "header"} /\ result' = None
        /\ answer'.status = status /\ Now' = Now
        /\ (pc' = "header" => status # "redirect")
    BY <1>3 DEF Respond, Now, FetchInv, Phases
  <2> answer'.declared \in Nat
    BY <1>3, FetchAssumption DEF Respond
  <2>2. FetchTypes' /\ ResultIsRight'
    BY <1>3, <2>1, StillToCome, FetchAssumption DEF Respond, FetchInv, FetchTypes
  <2>3. Phases'
    BY <1>3, <2>1 DEF Respond, FetchInv, Phases
  <2>4. Connections' /\ AddressesKnown'
    BY <1>3, <2>1 DEF Respond, FetchInv, Connections, AddressesKnown
  <2>5. QED
    BY <2>2, <2>3, <2>4 DEF FetchInv
<1>4. QED
  BY <1>1, <1>2, <1>3

\* So do a redirect, and an answer whose body is to be read.
LEMMA AnswerSteps ==
    ASSUME FetchInv,
           \/ \E location \in Url \cup {"none"} : Redirect(location)
           \/ ReadHeader
    PROVE  FetchInv'
<1>0. total <= MaxBytes + MaxChunk
  BY DEF FetchInv, ResultIsRight
<1>1. ASSUME NEW location \in Url \cup {"none"}, Redirect(location) PROVE FetchInv'
  <2>1. open' = {} /\ timed' = {} /\ pc # "end"
    BY <1>1 DEF Redirect, Close, FetchInv, Connections, Phases
  <2>2. CASE hop >= MaxHops \/ location = "none"
    <3>1. pc' = "end" /\ result' = Unavailable /\ UNCHANGED <<hop, queue, asked, verified, total>>
      BY <1>1, <2>2 DEF Redirect, Ends
    <3>2. FetchTypes' /\ Phases' /\ Connections'
      BY <2>1, <3>1 DEF FetchInv, FetchTypes, Phases, Connections
    <3>3. AddressesKnown'
      BY <3>1 DEF FetchInv, AddressesKnown
    <3>4. ResultIsRight'
      BY <1>0, <3>1 DEF ResultIsRight, Unavailable, Failure
    <3>5. QED
      BY <3>2, <3>3, <3>4 DEF FetchInv
  <2>3. CASE ~ (hop >= MaxHops \/ location = "none")
    <3>1. /\ pc' = "check" /\ hop' = hop + 1 /\ queue' = <<>> /\ result' = None
          /\ answer' = NoAnswer /\ UNCHANGED <<asked, verified, total>>
      BY <1>1, <2>3 DEF Redirect, FetchInv, Phases
    <3>2. FetchTypes' /\ ResultIsRight'
      BY <1>0, <2>3, <3>1, StillToCome, FetchAssumption DEF FetchInv, FetchTypes
    <3>3. Phases' /\ Connections'
      BY <2>1, <3>1 DEF Phases, Connections
    <3>4. AddressesKnown'
      <4>1. \A c \in verified : c.hop <= hop' /\ c.hop # hop'
        BY <3>1, FetchAssumption DEF FetchInv, FetchTypes, AddressesKnown
      <4>2. QED
        BY <3>1, <4>1 DEF FetchInv, AddressesKnown
    <3>5. QED
      BY <3>2, <3>3, <3>4 DEF FetchInv
  <2>4. QED
    BY <2>2, <2>3
<1>2. ASSUME ReadHeader PROVE FetchInv'
  <2>1. pc = "header" /\ answer.status \in StatusClass \ {"redirect"}
    BY <1>2 DEF ReadHeader, FetchInv, Phases
  <2>2. CASE HeaderFailure(answer) # None
    <3>1. pc' = "end" /\ result' = HeaderFailure(answer) /\ answer' = answer
      BY <1>2, <2>2 DEF ReadHeader, Ends
    <3>2. CASE answer.status = "busy"
      <4>1. /\ result'.code = "UPSTREAM_ERROR" /\ result'.retryable
            /\ result'.uncertain = (answer'.status # "busy")
        BY <3>1, <3>2 DEF HeaderFailure, Failure
      <4>2. QED
        BY <1>0, <1>2, <2>1, <3>1, <4>1, EndsEarly DEF ReadHeader
    <3>3. CASE answer.status # "busy"
      <4>1. result'.code = "SOURCE_UNAVAILABLE"
        BY <2>2, <3>1, <3>3 DEF HeaderFailure, Failure, Unavailable
      <4>2. QED
        BY <1>0, <1>2, <2>1, <3>1, <4>1, EndsEarly DEF ReadHeader
    <3>4. QED
      BY <3>2, <3>3
  <2>3. CASE HeaderFailure(answer) = None /\ answer.declared > MaxBytes
    <3>1. pc' = "end" /\ result'.code = "SOURCE_UNAVAILABLE"
      BY <1>2, <2>3 DEF ReadHeader, Ends, Unavailable, Failure
    <3>2. QED
      BY <1>0, <1>2, <2>1, <3>1, EndsEarly DEF ReadHeader
  <2>4. CASE HeaderFailure(answer) = None /\ ~ (answer.declared > MaxBytes)
    <3>1. answer.status = "ok" /\ answer.html
      BY <2>1, <2>4 DEF HeaderFailure, None, Failure, Unavailable, StatusClass
    <3>2. answer.declared <= MaxBytes
      BY <1>2, <2>4, FetchAssumption DEF ReadHeader, FetchInv, Phases
    <3>3. /\ pc' = "body" /\ result' = None
          /\ UNCHANGED <<url, hop, queue, asked, verified, open, timed, answer, total>>
      BY <1>2, <2>1, <2>4 DEF ReadHeader, FetchInv, Phases
    <3>4. total <= MaxBytes
      BY <1>2, FetchAssumption DEF ReadHeader, FetchInv, Phases
    <3>5. FetchTypes' /\ ResultIsRight'
      BY <1>0, <3>3, StillToCome DEF FetchInv, FetchTypes
    <3>6. Phases'
      BY <2>1, <3>1, <3>2, <3>3, <3>4 DEF FetchInv, Phases, Now
    <3>7. Connections' /\ AddressesKnown'
      BY <2>1, <3>3 DEF FetchInv, Connections, AddressesKnown, Now
    <3>8. QED
      BY <3>5, <3>6, <3>7 DEF FetchInv
  <2>5. QED
    BY <2>2, <2>3, <2>4
<1>3. QED
  BY <1>1, <1>2

\* So do the parts of a body, its end, and the time limits.
LEMMA BodySteps ==
    ASSUME FetchInv,
           \/ \E bytes \in 1..MaxChunk : Chunk(bytes)
           \/ \E page \in 0..total : \E blocks \in SUBSET (1..page) : BodyEnds(blocks, page)
           \/ BodyBreaks
           \/ \E r \in timed : TimesOut(r)
    PROVE  FetchInv'
<1>0. total <= MaxBytes + MaxChunk
  BY DEF FetchInv, ResultIsRight
<1>1. ASSUME NEW bytes \in 1..MaxChunk, Chunk(bytes) PROVE FetchInv'
  <2>1. /\ pc = "body" /\ total' = total + bytes /\ total' \in Nat
        /\ total' <= MaxBytes + MaxChunk /\ answer' = answer
    BY <1>1, FetchAssumption DEF Chunk, FetchInv, FetchTypes, Phases
  <2>2. AddressesKnown'
    BY <1>1, <2>1 DEF Chunk, Ends, FetchInv, AddressesKnown
  <2>3. CASE total' > MaxBytes
    <3>1. pc' = "end" /\ result' = Unavailable /\ open' = open \ {Now} /\ timed' = timed \ {Now}
      BY <1>1, <2>3 DEF Chunk, Ends, Close
    <3>2. FetchTypes' /\ Phases'
      BY <1>1, <2>1, <3>1 DEF Chunk, FetchInv, FetchTypes, Phases
    <3>3. Connections'
      BY <1>1, <3>1 DEF Chunk, FetchInv, Connections, Now
    <3>4. ResultIsRight'
      BY <2>1, <3>1 DEF ResultIsRight, Unavailable, Failure
    <3>5. QED
      BY <2>2, <3>2, <3>3, <3>4 DEF FetchInv
  <2>4. CASE ~ (total' > MaxBytes)
    <3>1. UNCHANGED <<pc, result, open, timed>> /\ total' <= MaxBytes
      BY <1>1, <2>1, <2>4, FetchAssumption DEF Chunk
    <3>2. FetchTypes' /\ Phases'
      BY <1>1, <2>1, <3>1 DEF Chunk, FetchInv, FetchTypes, Phases, Now
    <3>3. Connections'
      BY <1>1, <2>1, <3>1 DEF Chunk, FetchInv, Connections, Now
    <3>4. ResultIsRight'
      BY <2>1, <3>1, StillToCome DEF FetchInv, Phases
    <3>5. QED
      BY <2>2, <3>2, <3>3, <3>4 DEF FetchInv
  <2>5. QED
    BY <2>3, <2>4
<1>2. ASSUME NEW page \in 0..total, NEW blocks \in SUBSET (1..page), BodyEnds(blocks, page)
      PROVE  FetchInv'
  <2> DEFINE text == extractArticleText(blocks, page)
  <2>1. /\ pc = "body" /\ pc' = "end" /\ open' = open \ {Now} /\ timed' = timed \ {Now}
        /\ UNCHANGED <<url, hop, queue, asked, verified, answer, total>>
    BY <1>2 DEF BodyEnds, Ends, Close
  <2>2. text \in 0..page
    <3>1. page \in Nat /\ page <= total /\ total \in Nat
      BY DEF FetchInv, FetchTypes
    <3>2. CASE {b \in blocks : b >= MinText} # {}
      <4>1. {b \in blocks : b >= MinText} \in SUBSET (0..page)
        <5>1. \A b \in blocks : b \in 0..page
          BY <3>1
        <5>2. QED
          BY <5>1
      <4>2. Max({b \in blocks : b >= MinText}) \in 0..page
        BY <3>1, <3>2, <4>1, GreatestIsIn
      <4>3. QED
        BY <3>2, <4>2 DEF extractArticleText
    <3>3. CASE {b \in blocks : b >= MinText} = {}
      <4>1. blocks \cup {page} \in SUBSET (0..page) /\ blocks \cup {page} # {}
        BY <3>1
      <4>2. Max(blocks \cup {page}) \in 0..page
        BY <3>1, <4>1, GreatestIsIn
      <4>3. QED
        BY <3>3, <4>2 DEF extractArticleText
    <3>4. QED
      BY <3>2, <3>3
  <2>3. FetchTypes' /\ Phases' /\ Connections'
    BY <2>1 DEF FetchInv, FetchTypes, Phases, Connections, Now
  <2>4. AddressesKnown'
    BY <2>1 DEF FetchInv, AddressesKnown
  <2>5. ResultIsRight'
    <3>1. result' = IF text < MinText THEN Unavailable ELSE [code |-> "TEXT", length |-> text]
      BY <1>2 DEF BodyEnds, Ends
    <3>2. CASE text < MinText
      BY <1>0, <2>1, <3>1, <3>2 DEF ResultIsRight, Unavailable, Failure
    <3>3. CASE ~ (text < MinText)
      <4>1. result'.code = "TEXT" /\ result'.length = text
        BY <3>1, <3>3
      <4>2. /\ text >= MinText /\ text <= total /\ total <= MaxBytes
            /\ answer.status = "ok" /\ answer.html /\ answer.declared <= MaxBytes
        BY <2>1, <2>2, <3>3, FetchAssumption DEF FetchInv, FetchTypes, Phases
      <4>3. QED
        BY <1>0, <2>1, <4>1, <4>2 DEF ResultIsRight
    <3>4. QED
      BY <3>2, <3>3
  <2>6. QED
    BY <2>3, <2>4, <2>5 DEF FetchInv
<1>3. ASSUME BodyBreaks PROVE FetchInv'
  <2>1. /\ pc = "body" /\ pc' = "end" /\ open' = open \ {Now} /\ timed' = timed \ {Now}
        /\ result' = Interrupted
        /\ UNCHANGED <<url, hop, queue, asked, verified, answer, total>>
    BY <1>3 DEF BodyBreaks, Ends, Close
  <2>2. FetchTypes' /\ Phases' /\ Connections'
    BY <2>1 DEF FetchInv, FetchTypes, Phases, Connections, Now
  <2>3. AddressesKnown'
    BY <2>1 DEF FetchInv, AddressesKnown
  <2>4. ResultIsRight'
    <3>1. answer'.status = "ok"
      BY <2>1 DEF FetchInv, Phases
    <3>2. /\ result'.code = "UPSTREAM_ERROR" /\ result'.retryable
          /\ result'.uncertain = (answer'.status # "busy")
      BY <2>1, <3>1 DEF Interrupted, Failure
    <3>3. QED
      BY <1>0, <2>1, <3>2 DEF ResultIsRight
  <2>5. QED
    BY <2>2, <2>3, <2>4 DEF FetchInv
<1>4. ASSUME NEW r \in timed, TimesOut(r) PROVE FetchInv'
  <2>1. FetchTypes' /\ Phases' /\ AddressesKnown' /\ ResultIsRight'
    BY <1>4 DEF TimesOut, FetchInv, FetchTypes, Phases, AddressesKnown, ResultIsRight
  <2>2. Connections'
    BY <1>4 DEF TimesOut, Close, FetchInv, Connections, Now
  <2>3. QED
    BY <2>1, <2>2 DEF FetchInv
<1>5. QED
  BY <1>1, <1>2, <1>3, <1>4

\* The invariant speaks of the variables of a fetch only.
LEMMA FetchInvStutter == FetchInv /\ UNCHANGED fetchVars => FetchInv'
BY DEF fetchVars, FetchInv, FetchTypes, Phases, Connections, AddressesKnown, ResultIsRight, Now

\* However the servers answer, a fetch stays within what fetchArticle and fetchOnce
\* allow themselves: the invariant holds always.
THEOREM FetchInvCorrect == FetchSpec => []FetchInv
<1>1. FetchInv /\ [FetchNext]_fetchVars => FetchInv'
  BY SearchSteps, CheckSteps, AddressSteps, AnswerSteps, BodySteps, FetchInvStutter
     DEF FetchNext
<1>2. QED
  BY <1>1, FetchInvInit, PTL DEF FetchSpec

-----------------------------------------------------------------------------
(* What it says.                                                           *)

\* The invariant implies what is promised of a fetch.
LEMMA FetchInvMeans == FetchInv => FetchSound
<1> SUFFICES ASSUME FetchInv PROVE FetchSound
  OBVIOUS
<1>1. ConnectionsAreTimed
  <2>1. open = {} \/ open = {Now}
    BY DEF FetchInv, Connections
  <2>2. Cardinality(open) <= 1
    <3>1. CASE open = {}
      BY <3>1, FS_EmptySet
    <3>2. CASE open = {Now}
      <4>1. Cardinality({Now}) = 1
        BY FS_Singleton
      <4>2. QED
        BY <3>2, <4>1
    <3>3. QED
      BY <2>1, <3>1, <3>2
  <2>3. QED
    BY <2>2 DEF FetchInv, Connections, ConnectionsAreTimed
<1>2. AddressesAreExhausted
  <2>1. \A r \in asked : r.hop <= MaxHops
    BY FetchAssumption DEF FetchInv, FetchTypes, AddressesKnown
  <2>2. queue = <<>> => \A c \in verified : c.hop = hop => c \in asked
    BY DEF FetchInv, AddressesKnown
  <2>3. QED
    BY <2>1, <2>2 DEF AddressesAreExhausted
<1>3. QED
  BY <1>1, <1>2 DEF FetchInv, AddressesKnown, RequestsAreChecked, FetchSound

\* A fetch asks only addresses that it has checked for the hop, leaves no open
\* connection without its time limit, asks every address of a hop before it
\* gives up, and returns a text of at least the length of an article that was
\* read within the limit of bytes: whatever limits are set.
THEOREM FetchSoundCorrect == FetchSpec => []FetchSound
BY FetchInvCorrect, FetchInvMeans, PTL
=============================================================================
