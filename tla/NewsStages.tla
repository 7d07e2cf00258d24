----------------------------- MODULE NewsStages -----------------------------
(***************************************************************************)
(* The stages of the daily news pipeline: discovery of candidates,         *)
(* collection of their articles, generation of the contents, validation in *)
(* one of two modes.  Each has a table of runs, one for the day and then   *)
(* one for the run of the stage before.  A process claims a run, works in  *)
(* memory, and saves the whole snapshot after every external call, so that *)
(* the next owner goes on from there.  It owns the run as long as the row  *)
(* is RUNNING and names it; a row that was not written to for 5 minutes    *)
(* may be taken from a process that is only slow.                          *)
(*                                                                         *)
(* Titles, texts and articles are left out but for what decides: whether   *)
(* an answer is there, what it says of a candidate, and who published an   *)
(* article.  An answer that the checks refuse is an error, like one that   *)
(* does not come.                                                          *)
(***************************************************************************)
EXTENDS Integers, Sequences, FiniteSets, FiniteSetsExt, SequencesExt

CONSTANTS
    Process,         \* processes of the stage commands
    LastDay,         \* bound on the days
    MaxClaims,       \* bound on the claims
    MaxEvents,       \* bound on the work of the preparation command
    Candidate,       \* titles, numbered in the order they are handled
    Article,         \* articles 1..n in the order of selectArticles
    PublisherOf,     \* the publisher countPublishers gives to an article
    MaxSelected,     \* articles selected for a candidate: 5 in the code
    Unset            \* a field that a snapshot does not have yet; no definition

Mode == {"TONE", "RULES_ONLY"}
Day == 1..LastDay
Stage == {"discovery", "collection", "generation"} \cup Mode
Key == Stage \X Day

ASSUME StagesAssumption ==
    /\ LastDay \in Nat /\ LastDay >= 2 /\ MaxClaims \in Nat /\ MaxEvents \in Nat
    /\ Candidate \subseteq Nat
    /\ Cardinality(Article) \in Nat /\ Article = 1..Cardinality(Article)
    /\ DOMAIN PublisherOf = Article
    /\ MaxSelected \in Nat /\ MaxSelected >= 2
    /\ Unset \notin Int /\ Unset \notin Key
    /\ Unset \notin {"yes", "clean", "findings", "source", "applied", "INVALID",
                     "SELECTED", "GENERATED", "PASSED", "HELD"}

VARIABLES
    today,        \* the day in Seoul
    runs,         \* the four tables of runs: the rows that there are
    index,        \* news_issue_search: the time it was built for
    checked,      \* news_follow_up_tracks.last_checked_at of the tracked issue
    definitions,  \* news_terms: who defined the term of a candidate
    process,      \* the processes
    claims,       \* bound: claims so far; the last is the newest owner
    happened,     \* bound: work of the preparation command so far
    late          \* history: a discovery was claimed after its day

stageVars == <<today, runs, index, checked, definitions, process, claims, happened, late>>
tables == <<runs, index, checked, definitions>>
bounds == <<claims, happened, late>>

-----------------------------------------------------------------------------
(* Snapshots.                                                              *)

\* The source stage of a stage, and what it hands on.
SourceOf(stage) == CASE stage = "collection" -> "discovery"
                     [] stage = "generation" -> "collection"
                     [] OTHER -> "generation"

HasRow(k) == k \in DOMAIN runs
Completed(k) == HasRow(k) /\ runs[k].status = "COMPLETED"

HandedOn(k) ==
    LET s == runs[k].snapshot IN
    CASE k[1] = "discovery" -> s.candidates
      [] k[1] = "collection" -> {c \in DOMAIN s.results : s.results[c].status = "SELECTED"}
      [] OTHER -> {c \in DOMAIN s.results : s.results[c].status = "GENERATED"}

NewDiscovery(at) ==
    [at |-> at, since |-> Unset, results |-> <<>>, candidates |-> Unset]

NewCollection == [existing |-> Unset, duplicate |-> Unset, articles |-> Unset,
                  relevant |-> Unset, selected |-> {}, status |-> Unset]
NewGeneration == [articles |-> {}, fetchFailures |-> {}, draft |-> Unset,
                  classification |-> Unset, glossary |-> Unset, status |-> Unset]
NewValidation == [terms |-> "few", initial |-> Unset, initialTone |-> Unset,
                  repair |-> Unset, final |-> Unset, finalTone |-> Unset,
                  status |-> Unset]

NewSnapshot(k) ==
    IF k[1] = "discovery" THEN NewDiscovery(k[2])
    ELSE [at |-> today,
          results |-> [c \in HandedOn(<<SourceOf(k[1]), k[2]>>) |->
                         CASE k[1] = "collection" -> NewCollection
                           [] k[1] = "generation" -> NewGeneration
                           [] OTHER -> NewValidation]]

-----------------------------------------------------------------------------
(* Discovery: one query of the catalog and one of the tracked issue.       *)

\* The track has ended, or was checked later.
NoTrack == -1
Queries(s) == IF s.since = NoTrack THEN 1 ELSE 2

\* What a query finds: filterArticles, extract, and newDevelopments for the
\* tracked issue.  candidatesPerQuery is not reached here.
Extracted == SUBSET Candidate

\* groups: candidates that mean the same are merged into the first, and those
\* out of scope are excluded.
Grouped(found) == SUBSET found

AllQueried(s) == s.since # Unset /\ Len(s.results) = Queries(s)

DiscoverySteps(s) ==
    IF s.since = Unset
    THEN {[s EXCEPT !.since = t] :
            t \in {NoTrack} \cup (IF checked < s.at THEN {checked} ELSE {})}
    ELSE IF ~AllQueried(s)
    THEN {[s EXCEPT !.results = Append(@, found)] : found \in Extracted}
    ELSE {[s EXCEPT !.candidates = kept] : kept \in Grouped(UNION Range(s.results))}

-----------------------------------------------------------------------------
(* Collection.                                                             *)

selectArticles(relevant) ==
    {a \in relevant : Cardinality({b \in relevant : b <= a}) <= MaxSelected}
countPublishers(relevant) == Cardinality({PublisherOf[a] : a \in relevant})

CollectionStatus(i) ==
    LET status == IF Cardinality(selectArticles(i.relevant)) < 2 THEN "INSUFFICIENT_ARTICLES"
                  ELSE IF countPublishers(i.relevant) < 2 THEN "INSUFFICIENT_PUBLISHERS"
                  ELSE "SELECTED"
    IN  [i EXCEPT !.status = status,
                  !.selected = IF status = "SELECTED" THEN selectArticles(i.relevant) ELSE {}]

\* existing is told by the time of the index it was read from.
CollectionSteps(i) ==
    IF i.existing = Unset THEN {[i EXCEPT !.existing = index]}
    ELSE IF i.duplicate = Unset THEN {[i EXCEPT !.duplicate = d] : d \in {"yes", "no"}}
    ELSE IF i.duplicate = "yes" THEN {[i EXCEPT !.status = "DUPLICATE"]}
    ELSE IF i.articles = Unset THEN {[i EXCEPT !.articles = found] : found \in {{}, Article}}
    ELSE IF i.relevant = Unset
    THEN {[i EXCEPT !.relevant = kept] : kept \in SUBSET i.articles}
    ELSE {CollectionStatus(i)}

-----------------------------------------------------------------------------
(* Generation.                                                             *)

FetchBody(i, a) == {[i EXCEPT !.articles = @ \cup {a}], [i EXCEPT !.fetchFailures = @ \cup {a}]}

\* The term of a draft is defined in the database or by the model.
Glossary(c) == IF definitions[c] # Unset THEN "DATABASE" ELSE "GENERATED"

GenerationSteps(c, i, selected) ==
    LET open == selected \ (i.articles \cup i.fetchFailures) IN
    IF open # {} THEN FetchBody(i, Min(open))
    ELSE IF Cardinality(i.articles) < 2 THEN {[i EXCEPT !.status = "INSUFFICIENT_BODIES"]}
    ELSE IF i.draft = Unset THEN {[i EXCEPT !.draft = "checked"]}
    ELSE IF i.classification = Unset THEN {[i EXCEPT !.classification = "checked"]}
    ELSE IF i.glossary = Unset THEN {[i EXCEPT !.glossary = Glossary(c)]}
    ELSE {[i EXCEPT !.status = "GENERATED"]}

-----------------------------------------------------------------------------
(* Validation.                                                             *)

\* rules: findings in fields that can be repaired, or in the source.
Rules(i) == {"findings", "source"} \cup (IF i.terms = "few" THEN {"clean"} ELSE {})
Tone == {"findings", "clean"}

\* The one attempt at a repair: applyPatches takes the patches, though there
\* may be too many terms in them, or refuses them.
Repaired(i) ==
    {[i EXCEPT !.repair = "applied", !.terms = n] : n \in {"few", "many"}}
      \cup {[i EXCEPT !.repair = "INVALID", !.status = "HELD"]}

FinalReview(i) ==
    IF i.final = Unset THEN {[i EXCEPT !.final = r] : r \in Rules(i)}
    ELSE IF i.final # "clean" THEN {[i EXCEPT !.status = "HELD"]}
    ELSE IF i.finalTone = Unset THEN {[i EXCEPT !.finalTone = t] : t \in Tone}
    ELSE {[i EXCEPT !.status = IF i.finalTone = "clean" THEN "PASSED" ELSE "HELD"]}

InitialReview(i) ==
    IF i.initial = Unset THEN {[i EXCEPT !.initial = r] : r \in Rules(i)}
    ELSE IF i.initial = "clean" /\ i.initialTone = Unset
    THEN {[i EXCEPT !.initialTone = t] : t \in Tone}
    ELSE IF i.initial = "clean" /\ i.initialTone = "clean" THEN {[i EXCEPT !.status = "PASSED"]}
    ELSE IF i.initial = "source" THEN {[i EXCEPT !.status = "HELD"]}
    ELSE IF i.repair = Unset THEN Repaired(i)
    ELSE FinalReview(i)

RulesOnly(i) ==
    {[i EXCEPT !.initial = r, !.status = IF r = "clean" THEN "PASSED" ELSE "HELD"] : r \in Rules(i)}

\* A process that comes to a result first cuts its terms to three, also if the
\* result has its status already.
ValidationSteps(mode, c, i, entered) ==
    IF i.terms = "many" /\ c \notin entered THEN {[i EXCEPT !.terms = "few"]}
    ELSE IF mode = "RULES_ONLY" THEN RulesOnly(i) ELSE InitialReview(i)

-----------------------------------------------------------------------------
(* A step of a process w in memory: the results are handled one by one.    *)

Pending(w) ==
    {c \in DOMAIN w.snapshot.results :
        \/ w.snapshot.results[c].status = Unset
        \/ w.key[1] \in Mode /\ w.snapshot.results[c].terms = "many" /\ c \notin w.entered}

\* The results have their status; the groups of a discovery are always made.
AllDone(w) == w.key[1] # "discovery" /\ Pending(w) = {}

ResultSteps(w, c) ==
    LET i == w.snapshot.results[c] IN
    CASE w.key[1] = "collection" -> CollectionSteps(i)
      [] w.key[1] = "generation" ->
           GenerationSteps(c, i, runs[<<"collection", w.key[2]>>].snapshot.results[c].selected)
      [] OTHER -> ValidationSteps(w.key[1], c, i, w.entered)

-----------------------------------------------------------------------------
(* The rows, each statement fenced by the owner.                           *)

\* entered: the results this execution has come to.
Idle == [pc |-> "Idle", key |-> Unset, owner |-> 0, snapshot |-> Unset, entered |-> {}]

Owned(p) ==
    LET w == process[p] IN
    runs[w.key].status = "RUNNING" /\ runs[w.key].owner = w.owner

Goto(p, pc) == process' = [process EXCEPT ![p].pc = pc]
\* What is in memory is not used again.
GiveUp(p) ==
    process' = [process EXCEPT ![p].pc = "Fail", ![p].snapshot = Unset, ![p].entered = {}]
Quit(p) == process' = [process EXCEPT ![p] = Idle]

\* Of a row that is not RUNNING, owner and heartbeat do not matter.
Ended(row, status) == [row EXCEPT !.status = status, !.owner = 0, !.stale = FALSE]

Table(stage) == IF stage \in Mode THEN Mode ELSE {stage}
Rivals(k) == {j \in DOMAIN runs : j[1] \in Table(k[1]) /\ runs[j].status = "RUNNING"}

\* Rows whose lease has expired fail; the row is inserted, or taken over with
\* the snapshot it has.
Claimed(k) ==
    [j \in DOMAIN runs \cup {k} |->
       IF j = k THEN [status |-> "RUNNING", owner |-> claims + 1, stale |-> FALSE,
                      snapshot |-> IF HasRow(k) THEN runs[k].snapshot ELSE NewSnapshot(k)]
       ELSE IF j \in Rivals(k) THEN Ended(runs[j], "FAILED")
       ELSE runs[j]]

Claim(p, k) ==
    /\ process[p].pc = "Idle"
    /\ claims < MaxClaims
    /\ ~Completed(k)
    /\ \A j \in Rivals(k) : runs[j].stale
    /\ claims' = claims + 1
    /\ runs' = Claimed(k)
    /\ process' = [process EXCEPT ![p] = [pc |-> "Work", key |-> k, owner |-> claims + 1,
                                          snapshot |-> Claimed(k)[k].snapshot,
                                          entered |-> {}]]

\* A completed run is returned, a missing source or a live rival refuses: no step.
\* The command takes the time before it waits for the lock of the claims, so that
\* its day may be over when it has it.
ClaimDiscovery(p, d) ==
    /\ d <= today
    /\ Claim(p, <<"discovery", d>>)
    /\ late' = (late \/ d < today)
    /\ UNCHANGED <<today, index, checked, definitions, happened>>

\* synchronizeSearch: the index is built again, for the time of the run.
ClaimCollection(p, d) ==
    /\ Completed(<<"discovery", d>>)
    /\ Claim(p, <<"collection", d>>)
    /\ index' = Claimed(<<"collection", d>>)[<<"collection", d>>].snapshot.at
    /\ UNCHANGED <<today, checked, definitions, happened, late>>

ClaimGeneration(p, d) ==
    /\ Completed(<<"collection", d>>)
    /\ Claim(p, <<"generation", d>>)
    /\ UNCHANGED <<today, index, checked, definitions, happened, late>>

ClaimValidation(p, mode, d) ==
    /\ Completed(<<"generation", d>>)
    /\ Claim(p, <<mode, d>>)
    /\ UNCHANGED <<today, index, checked, definitions, happened, late>>

-----------------------------------------------------------------------------
(* A process at work.                                                      *)

\* DiscoveryService.execute; the groups are saved with the completion.
WorkOnQueries(p) ==
    LET w == process[p] IN
    /\ w.pc = "Work" /\ w.key[1] = "discovery"
    /\ \E s \in DiscoverySteps(w.snapshot) :
         process' = [process EXCEPT ![p].snapshot = s,
                                    ![p].pc = IF AllQueried(w.snapshot)
                                              THEN "Complete" ELSE "Save"]
    /\ UNCHANGED <<today, tables, bounds>>

\* execute of the other services: the next answer for a result.
WorkOnResults(p) ==
    LET w == process[p] IN
    /\ w.pc = "Work" /\ w.key[1] # "discovery"
    /\ Pending(w) # {}
    /\ LET c == Min(Pending(w)) IN
       \E i \in ResultSteps(w, c) :
         process' = [process EXCEPT ![p].snapshot.results[c] = i,
                                    ![p].entered = @ \cup {c},
                                    ![p].pc = "Save"]
    /\ UNCHANGED <<today, tables, bounds>>

\* Faulty variant: the owner is not compared.
SaveUnfenced(p) ==
    /\ process[p].pc = "Save"
    /\ runs' = [runs EXCEPT ![process[p].key].snapshot = process[p].snapshot]
    /\ Goto(p, "Work")
    /\ UNCHANGED <<today, index, checked, definitions, bounds>>

\* save, or ..._LEASE_LOST
Save(p) ==
    /\ process[p].pc = "Save"
    /\ IF Owned(p)
       THEN /\ runs' = [runs EXCEPT ![process[p].key].snapshot = process[p].snapshot,
                                    ![process[p].key].stale = FALSE]
            /\ Goto(p, "Work")
       ELSE GiveUp(p) /\ UNCHANGED runs
    /\ UNCHANGED <<today, index, checked, definitions, bounds>>

\* complete of discovery also moves the track on, unless it has moved already;
\* complete of validation also adds the terms that passed and are not defined.
Tracked(s) == IF s.since = checked THEN s.at ELSE checked

Published(k, s) ==
    [c \in Candidate |->
       IF definitions[c] = Unset /\ c \in DOMAIN s.results /\ s.results[c].status = "PASSED"
       THEN k ELSE definitions[c]]

Complete(p) ==
    LET w == process[p] IN
    /\ w.pc = "Complete" \/ (w.pc = "Work" /\ AllDone(w))
    /\ IF Owned(p)
       THEN /\ runs' = [runs EXCEPT ![w.key] =
                           Ended([@ EXCEPT !.snapshot = w.snapshot], "COMPLETED")]
            /\ checked' = IF w.key[1] = "discovery" THEN Tracked(w.snapshot) ELSE checked
            /\ definitions' = IF w.key[1] \in Mode THEN Published(w.key, w.snapshot)
                              ELSE definitions
            /\ Quit(p)
       ELSE GiveUp(p) /\ UNCHANGED <<runs, checked, definitions>>
    /\ UNCHANGED <<today, index, bounds>>

\* A call fails, its answer is refused, the command is aborted, or a heartbeat
\* has failed.  What is in memory is saved if it can be.
Stop(p) ==
    /\ process[p].pc \in {"Work", "Save", "Complete"}
    /\ GiveUp(p)
    /\ \/ UNCHANGED runs
       \/ /\ Owned(p)
          /\ runs' = [runs EXCEPT ![process[p].key].snapshot = process[p].snapshot,
                                  ![process[p].key].stale = FALSE]
    /\ UNCHANGED <<today, index, checked, definitions, bounds>>

Fail(p) ==
    /\ process[p].pc = "Fail"
    /\ runs' = IF Owned(p) THEN [runs EXCEPT ![process[p].key] = Ended(@, "FAILED")] ELSE runs
    /\ Quit(p)
    /\ UNCHANGED <<today, index, checked, definitions, bounds>>

Heartbeat(p) ==
    /\ process[p].pc # "Idle"
    /\ Owned(p) /\ runs[process[p].key].stale
    /\ runs' = [runs EXCEPT ![process[p].key].stale = FALSE]
    /\ UNCHANGED <<today, index, checked, definitions, process, bounds>>

Crash(p) ==
    /\ process[p].pc # "Idle"
    /\ Quit(p)
    /\ UNCHANGED <<today, tables, bounds>>

-----------------------------------------------------------------------------
(* The rest of the system.                                                 *)

\* Five minutes without a heartbeat: the process is dead, slow or cut off.
LeaseExpires(k) ==
    /\ HasRow(k) /\ runs[k].status = "RUNNING" /\ ~runs[k].stale
    /\ runs' = [runs EXCEPT ![k].stale = TRUE]
    /\ UNCHANGED <<today, index, checked, definitions, process, bounds>>

\* The model takes a bounded number of the steps of the preparation command.
Happens == happened < MaxEvents /\ happened' = happened + 1

\* Faulty variant: whether a collection is running is not asked.
RefreshAnyTime ==
    /\ index # today /\ index' = today
    /\ Happens
    /\ UNCHANGED <<today, runs, checked, definitions, process, claims, late>>

\* The preparation command builds the index for now.
RefreshSearchIndex ==
    /\ Rivals(<<"collection", today>>) = {}
    /\ index # today /\ index' = today
    /\ Happens
    /\ UNCHANGED <<today, runs, checked, definitions, process, claims, late>>

\* The preparation command adds the terms of published issues.
PrepareTerms(c) ==
    /\ definitions[c] = Unset
    /\ Happens
    /\ definitions' = [definitions EXCEPT ![c] = <<"published">>]
    /\ UNCHANGED <<today, runs, index, checked, process, claims, late>>

NextDay ==
    /\ today < LastDay
    /\ today' = today + 1
    /\ UNCHANGED <<tables, process, bounds>>

StagesNext ==
    \/ \E p \in Process :
         \/ \E d \in Day : \/ ClaimDiscovery(p, d)
                           \/ ClaimCollection(p, d)
                           \/ ClaimGeneration(p, d)
                           \/ \E m \in Mode : ClaimValidation(p, m, d)
         \/ WorkOnQueries(p)
         \/ WorkOnResults(p)
         \/ Save(p)
         \/ Complete(p)
         \/ Stop(p)
         \/ Fail(p)
         \/ Heartbeat(p)
         \/ Crash(p)
    \/ \E k \in Key : LeaseExpires(k)
    \/ RefreshSearchIndex
    \/ \E c \in Candidate : PrepareTerms(c)
    \/ NextDay

\* Day 1 begins, or some of its stages are complete: with every candidate handed
\* on, and in every other respect as they complete by themselves.  After two of
\* them it is day 2, whose discovery has found nothing, and the index is new.
\* Or the discovery of day 1 has failed with its queries still to come, and that
\* of day 2 has followed up the issue.
DoneDiscovery == [at |-> 1, since |-> 0, results |-> <<Candidate, {}>>, candidates |-> Candidate]
EmptyDiscovery == [at |-> 2, since |-> 1, results |-> <<{}, {}>>, candidates |-> {}]
DoneCollection ==
    [at |-> 1, results |-> [c \in Candidate |->
        CollectionStatus([existing |-> 1, duplicate |-> "no", articles |-> Article,
                          relevant |-> Article, selected |-> {}, status |-> Unset])]]
DoneGeneration ==
    [at |-> 1, results |->
       [c \in {c \in Candidate : DoneCollection.results[c].status = "SELECTED"} |->
        [articles |-> selectArticles(Article), fetchFailures |-> {}, draft |-> "checked",
         classification |-> "checked", glossary |-> "GENERATED", status |-> "GENERATED"]]]
DoneRow(k) ==
    [status |-> "COMPLETED", owner |-> 0, stale |-> FALSE,
     snapshot |-> CASE k = <<"discovery", 1>> -> DoneDiscovery
                    [] k = <<"discovery", 2>> -> EmptyDiscovery
                    [] k = <<"collection", 1>> -> DoneCollection
                    [] OTHER -> DoneGeneration]

FailedRow(k) ==
    [status |-> "FAILED", owner |-> 0, stale |-> FALSE,
     snapshot |-> [NewDiscovery(k[2]) EXCEPT !.since = 0]]
FollowedRow(k) == [DoneRow(k) EXCEPT !.snapshot.since = 0]

DoneOnDay1 == {<<"discovery", 1>>}
DiscoveriesOnDay2 == {<<"discovery", 1>>, <<"discovery", 2>>}
DoneOnDay2 == {<<"discovery", 1>>, <<"discovery", 2>>, <<"collection", 1>>}

StagesInit ==
    /\ \/ today = 1 /\ index = 0 /\ checked = 0 /\ runs = <<>>
       \/ /\ today = 1 /\ index = 0 /\ checked = 1
          /\ runs = [k \in DoneOnDay1 |-> DoneRow(k)]
       \/ /\ today = 2 /\ index = 2 /\ checked = 2
          /\ \/ runs = [k \in DoneOnDay2 |-> DoneRow(k)]
             \/ runs = [k \in DoneOnDay2 \cup {<<"generation", 1>>} |-> DoneRow(k)]
       \/ /\ today = 2 /\ index = 0 /\ checked = 2
          /\ runs = [k \in DiscoveriesOnDay2 |->
                       IF k[2] = 1 THEN FailedRow(k) ELSE FollowedRow(k)]
    /\ definitions = [c \in Candidate |-> Unset]
    /\ process = [p \in Process |-> Idle]
    /\ claims = 0 /\ happened = 0 /\ late = FALSE

StagesSpec == StagesInit /\ [][StagesNext]_stageVars

-----------------------------------------------------------------------------
(* Properties.                                                             *)

StagesTypeOK ==
    /\ today \in Day /\ index \in 0..LastDay /\ checked \in 0..LastDay
    /\ claims \in 0..MaxClaims /\ happened \in 0..MaxEvents /\ late \in BOOLEAN
    /\ DOMAIN runs \subseteq Key
    /\ \A k \in DOMAIN runs :
         /\ runs[k].status \in {"RUNNING", "FAILED", "COMPLETED"}
         /\ runs[k].owner \in 0..claims /\ runs[k].stale \in BOOLEAN
         /\ runs[k].snapshot.at \in Day
    /\ DOMAIN definitions = Candidate
    /\ \A p \in Process : process[p].pc \in {"Idle", "Work", "Save", "Complete", "Fail"}

ResultsOf(k) == runs[k].snapshot.results

\* One run of a stage at a time, whatever became of the owner of the last one.
OneRunPerStage ==
    LET running == {k \in DOMAIN runs : runs[k].status = "RUNNING"} IN
    \A j, k \in running : j[1] = k[1] \/ {j[1], k[1]} = Mode => j = k

\* A stage works on what the stage before has handed on when it was complete.
FollowsSource ==
    \A k \in DOMAIN runs : k[1] # "discovery" =>
        LET source == <<SourceOf(k[1]), k[2]>> IN
        /\ Completed(source)
        /\ DOMAIN ResultsOf(k) = HandedOn(source)
        /\ k[1] = "generation" =>
             \A c \in DOMAIN ResultsOf(k) :
                 /\ Cardinality(ResultsOf(source)[c].selected) \in 2..MaxSelected
                 /\ countPublishers(ResultsOf(source)[c].relevant) >= 2
                 /\ ResultsOf(k)[c].articles \subseteq ResultsOf(source)[c].selected

\* What a collection is compared with is the index of its own time: no other
\* claim and no preparation replaces the index under a running collection.
IndexOfOwnTime ==
    \A d \in Day : HasRow(<<"collection", d>>) =>
        LET row == runs[<<"collection", d>>] IN
        /\ row.status = "RUNNING" => index = row.snapshot.at
        /\ \A c \in DOMAIN row.snapshot.results :
             row.snapshot.results[c].existing \in {Unset, row.snapshot.at}

\* The windows of the completed discoveries in which the tracked issue was
\* followed join without a gap, though runs fail in between: each begins where
\* another has ended, back to the beginning.  They do not overlap either, unless
\* a process has claimed a discovery whose day was over.
FollowUpsJoin ==
    LET followed == {d \in Day : Completed(<<"discovery", d>>)
                        /\ runs[<<"discovery", d>>].snapshot.since # NoTrack}
        since(d) == runs[<<"discovery", d>>].snapshot.since
    IN  /\ checked \in {0} \cup followed
        /\ \A d \in followed : since(d) \in {0} \cup followed /\ since(d) < d
        /\ ~late => \A d \in followed :
                       /\ d <= checked
                       /\ \A e \in followed : e < d => e <= since(d)

\* What has passed was reviewed as it is now, and nothing was found; what is
\* held had a finding.  Terms are published for what has passed.
PassedIsClean ==
    /\ \A k \in DOMAIN runs : k[1] \in Mode =>
         \A c \in DOMAIN ResultsOf(k) :
           LET r == ResultsOf(k)[c]
               clean == IF k[1] = "RULES_ONLY" THEN r.initial = "clean"
                        ELSE IF r.repair = Unset THEN r.initial = "clean" /\ r.initialTone = "clean"
                        ELSE r.final = "clean" /\ r.finalTone = "clean"
           IN  /\ r.status = "PASSED" => clean /\ r.terms = "few"
               /\ r.status = "HELD" => ~clean
    /\ \A c \in Candidate : definitions[c] \in Key =>
         Completed(definitions[c]) /\ ResultsOf(definitions[c])[c].status = "PASSED"

\* Five together: what the tables of the stages say of each other.
StagesSound ==
    /\ StagesTypeOK
    /\ OneRunPerStage
    /\ FollowsSource
    /\ IndexOfOwnTime
    /\ FollowUpsJoin
    /\ PassedIsClean

\* What a result has is kept; sets of articles may grow, terms may be cut.
KeptResult(stage, old, new) ==
    \A f \in DOMAIN old \ {"terms", "selected"} :
        IF stage = "generation" /\ f \in {"articles", "fetchFailures"}
        THEN old[f] \subseteq new[f]
        ELSE old[f] = Unset \/ new[f] = old[f]

Kept(k, old, new) ==
    IF k[1] = "discovery"
    THEN (old.since = Unset \/ new.since = old.since) /\ IsPrefix(old.results, new.results)
    ELSE /\ DOMAIN new.results = DOMAIN old.results
         /\ \A c \in DOMAIN old.results : KeptResult(k[1], old.results[c], new.results[c])

\* An answer that was saved once is never lost or replaced, so that no call is
\* paid for again and no later stage sees another: not by a process that has
\* lost its lease, nor by the claim of the next.  A completed run is final, and
\* so is a definition; and the time to which an issue was followed never goes back.
SavedWorkStays ==
    [][/\ runs' # runs =>
            \A k \in DOMAIN runs :
                /\ k \in DOMAIN runs'
                /\ runs'[k] # runs[k] =>
                      ~Completed(k) /\ Kept(k, runs[k].snapshot, runs'[k].snapshot)
       /\ checked' >= checked
       /\ \A c \in Candidate : definitions[c] # Unset => definitions'[c] = definitions[c]]_stageVars
=============================================================================
