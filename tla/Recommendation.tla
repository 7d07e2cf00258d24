--------------------------- MODULE Recommendation ---------------------------
(***************************************************************************)
(* How a feed batch is picked from the pool of candidates, by both         *)
(* versions of the algorithm.  An issue is what the choice depends on: the *)
(* topic and the entity that may not come three times in a row, the traits *)
(* it shares with the member's choice and those it does not, and three     *)
(* flags.  Its place in the pool is its id.  Scores are hundredths;        *)
(* freshness and importance count when they are high, and otherwise only   *)
(* break ties, as the id does here.                                        *)
(*                                                                         *)
(* The searches of version 2 stop when a common budget is spent.  When     *)
(* that is depends on lengths out of proportion to a small instance, so    *)
(* here they may stop at any time, with anything they may have found.      *)
(***************************************************************************)
EXTENDS Naturals, Sequences, FiniteSets, SequencesExt, FiniteSetsExt, Ranked

CONSTANTS
    Pools,               \* the pools of candidates, as sequences of issues
    Before,              \* the run states a session may be in
    Quota,               \* SELECTION_TARGETS: how many of each type are wanted
    BatchSize,           \* FEED_BATCH_SIZE
    CandidateBudget,     \* DEFAULT_CANDIDATE_BUDGET
    Proposals,           \* MAX_V2_REPLACEMENT_PROPOSALS
    Rounds,              \* MAX_ALTERNATIVE_ROUNDS
    Replacements,        \* MAX_REPLACEMENTS_PER_ALTERNATIVE
    Null                 \* no topic, no entity

TypeOrder == <<"PERSONALIZED", "MAJOR", "CONNECTED", "EXPLORATION", "OPPOSITE">>
SelectionType == Range(TypeOrder)
TypeRank(t) == CHOOSE k \in DOMAIN TypeOrder : TypeOrder[k] = t

SumOverTypes(f) ==
    f["PERSONALIZED"] + f["MAJOR"] + f["CONNECTED"] + f["EXPLORATION"] + f["OPPOSITE"]

ASSUME RecommendationAssumption ==
    /\ Quota \in [SelectionType -> Nat]
    /\ BatchSize = SumOverTypes(Quota)
    /\ BatchSize # 0 /\ Rounds # 0
    /\ {CandidateBudget, Proposals, Rounds, Replacements} \subseteq Nat
    /\ \A p \in Pools : p \in Seq(Range(p))
    /\ \A b \in Before : b.topicRun \in Nat /\ b.entityRun \in Nat

-----------------------------------------------------------------------------
(* Runs of one topic or one entity.                                        *)

RunOf(value, last, run) ==
    IF value = Null THEN 0 ELSE IF value = last THEN run + 1 ELSE 1

AdvanceRun(i, state) ==
    [topic |-> i.topic, topicRun |-> RunOf(i.topic, state.topic, state.topicRun),
     entity |-> i.entity, entityRun |-> RunOf(i.entity, state.entity, state.entityRun)]

\* No third in a row.
CanAppend(i, state) ==
    AdvanceRun(i, state).topicRun <= 2 /\ AdvanceRun(i, state).entityRun <= 2

\* The state before each item and after the last.
Runs(items, state) ==
    LET run[k \in 0..Len(items)] ==
          IF k = 0 THEN state ELSE AdvanceRun(items[k], run[k - 1])
    IN  run

RunsAfter(items, state) == Runs(items, state)[Len(items)]

IsAllowed(items, state) ==
    \A k \in DOMAIN items : CanAppend(items[k], Runs(items, state)[k - 1])

-----------------------------------------------------------------------------
(* Candidates.                                                             *)

EligibleTypes(i) ==
    {t \in SelectionType :
        CASE t = "PERSONALIZED" -> i.match # {}
          [] t = "MAJOR"        -> i.high
          [] t = "CONNECTED"    -> i.connected
          [] t = "EXPLORATION"  -> "category" \notin i.match /\ ~i.acted
          [] t = "OPPOSITE"     -> i.match = {} /\ i.unlike # {} /\ i.high}

Points(fact, weight) == IF fact THEN weight ELSE 0

ScoreOf(i) ==
    Points("category" \in i.match, 25) + Points("entity" \in i.match, 20)
        + Points(i.connected, 15) + Points("region" \in i.match, 10)
        + Points("age" \in i.match, 10) + Points(i.high, 10)

\* scoreCandidate: what is of no type is no candidate.
Scored(pool) ==
    {[id |-> k, topic |-> pool[k].topic, entity |-> pool[k].entity,
      types |-> EligibleTypes(pool[k]), score |-> ScoreOf(pool[k])] :
        k \in {n \in DOMAIN pool : n <= CandidateBudget /\ EligibleTypes(pool[n]) # {}}}

\* compareCandidate
Precedes(a, b) == a.score > b.score \/ (a.score = b.score /\ a.id < b.id)
Sorted(S) == First(S, Cardinality(S), Precedes)
Foremost(S) == CHOOSE a \in S : \A b \in S : a = b \/ Precedes(a, b)

\* A candidate with the type it is shown as.
As(c, t) == [id |-> c.id, topic |-> c.topic, entity |-> c.entity,
             types |-> c.types, score |-> c.score, as |-> t]

Ids(items) == {items[k].id : k \in DOMAIN items}
CountOf(items, t) == Cardinality({k \in DOMAIN items : items[k].as = t})
QuotaScore(items) ==
    SumOverTypes([t \in SelectionType |-> Min({CountOf(items, t), Quota[t]})])
ScoreSum(items) ==
    LET add(sum, k) == sum + items[k].score
    IN  Loop(add, 0, Len(items))

LexLess(s, t) ==
    \E k \in DOMAIN s : s[k] < t[k] /\ \A j \in 1..(k - 1) : s[j] = t[j]

\* isBetterOrder, isBetterSearchResult
Better(a, b) ==
    \/ Len(a) > Len(b)
    \/ /\ Len(a) = Len(b)
       /\ \/ QuotaScore(a) > QuotaScore(b)
          \/ /\ QuotaScore(a) = QuotaScore(b)
             /\ \/ ScoreSum(a) > ScoreSum(b)
                \/ /\ ScoreSum(a) = ScoreSum(b)
                   /\ LexLess([k \in DOMAIN a |-> a[k].id], [k \in DOMAIN b |-> b[k].id])

BetterOf(a, b) == IF Better(a, b) THEN a ELSE b
LowestType(types) == CHOOSE t \in types : \A u \in types : TypeRank(t) <= TypeRank(u)

\* selectGreedyType: a type whose quota is not used up, if there is one.
GreedyType(c, items) ==
    LET free == {t \in c.types : CountOf(items, t) < Quota[t]}
    IN  LowestType(IF free # {} THEN free ELSE c.types)

-----------------------------------------------------------------------------
(* selectByTarget: slots for the types are filled with candidates so that  *)
(* as many are filled as can be, by augmenting paths; candidates of no     *)
(* slot fill the batch up.                                                 *)

Slots(S) ==
    LET wanted == UNION {{<<t, n>> : n \in 1..Quota[t]} : t \in SelectionType}
        supply(t) == Cardinality({c \in S : t \in c.types})
        before(a, b) ==
          \/ supply(a[1]) < supply(b[1])
          \/ supply(a[1]) = supply(b[1]) /\ TypeRank(a[1]) < TypeRank(b[1])
          \/ a[1] = b[1] /\ a[2] < b[2]
        ordered == First(wanted, BatchSize, before)
    IN  [k \in DOMAIN ordered |-> ordered[k][1]]

\* An assignment of slots to candidates, 0 for none, and the candidates visited.
Walks(S) == [slotOf : [S -> 0..BatchSize], visited : SUBSET S, found : BOOLEAN]

\* Faulty variant: a candidate that has a slot keeps it.
TakeFree(S, slots) ==
    [call \in (DOMAIN slots) \X Walks(S) |->
        LET walk == call[2]
            free == {c \in S : slots[call[1]] \in c.types /\ walk.slotOf[c] = 0}
        IN  IF free = {} THEN walk
            ELSE [walk EXCEPT !.slotOf[Foremost(free)] = call[1], !.found = TRUE]]

\* tryAssign: the first candidate of the slot that was not visited; when it has
\* a slot that cannot be filled otherwise, the next one.
TryAssign(S, slots) ==
    LET try[call \in (DOMAIN slots) \X Walks(S)] ==
          LET k == call[1]
              walk == call[2]
              open == {c \in S : slots[k] \in c.types /\ c \notin walk.visited}
              c == Foremost(open)
              seen == [walk EXCEPT !.visited = @ \cup {c}]
              next == IF walk.slotOf[c] = 0 THEN [seen EXCEPT !.found = TRUE]
                      ELSE try[<<walk.slotOf[c], seen>>]
          IN  IF open = {} THEN walk
              ELSE IF next.found THEN [next EXCEPT !.slotOf[c] = k]
              ELSE try[<<k, next>>]
    IN  try

Assignment(S, slots) ==
    LET assign(slotOf, k) ==
          TryAssign(S, slots)[<<k, [slotOf |-> slotOf, visited |-> {}, found |-> FALSE]>>].slotOf
    IN  Loop(assign, [c \in S |-> 0], Len(slots))

ShownBefore(a, b) ==
    TypeRank(a.as) < TypeRank(b.as) \/ (a.as = b.as /\ Precedes(a, b))

SelectByTarget(S) ==
    LET slots == Slots(S)
        slotOf == Assignment(S, slots)
        placed == {c \in S : slotOf[c] # 0}
        fill == First(S \ placed, BatchSize - Cardinality(placed), Precedes)
        chosen == {As(c, slots[slotOf[c]]) : c \in placed}
                     \cup {As(c, LowestType(c.types)) : c \in Range(fill)}
    IN  First(chosen, Cardinality(chosen), ShownBefore)

-----------------------------------------------------------------------------
(* searchOrder, boundedSearchOrder: the best order of some of the chosen.  *)

BestIn(orders) == CHOOSE o \in orders : \A other \in orders : o = other \/ Better(o, other)

SearchOrder(all, previous) ==
    LET search[sofar \in Seq(all)] ==
          LET next == {x \in all \ Range(sofar) : CanAppend(x, RunsAfter(sofar, previous))}
          IN  BestIn({search[Append(sofar, x)] : x \in next} \cup {sofar})
    IN  search[<<>>]

BestOrder(selected, previous) == SearchOrder(Range(selected), previous)

-----------------------------------------------------------------------------
(* Version 1: the order of the selection, improved by putting other        *)
(* candidates in the places of selected ones.                              *)

CountWith(selected, field, value) ==
    Cardinality({k \in DOMAIN selected : selected[k][field] = value})

\* canImproveRunOrQuota
CanImprove(c, selected) ==
    \E k \in DOMAIN selected :
        \/ c.topic # selected[k].topic /\ selected[k].topic # Null
        \/ c.entity # selected[k].entity /\ selected[k].entity # Null
        \/ ~(c.types \subseteq selected[k].types)

\* replacementCandidates: the places most in the way come first; of them the
\* first that may be tried.
ReplacementOrder(c, selected, previous) ==
    LET crowded(x, field, run) ==
          IF x[field] = Null THEN 0
          ELSE (IF CountWith(selected, field, x[field]) >= 2 THEN 4 ELSE 0)
                 + (IF x[field] = previous[field] /\ previous[run] >= 2 THEN 2 ELSE 0)
        priority(k) == crowded(selected[k], "topic", "topicRun")
                         + crowded(selected[k], "entity", "entityRun")
                         + (IF selected[k].as \in c.types THEN 1 ELSE 0)
        before(j, k) == priority(j) > priority(k) \/ (priority(j) = priority(k) /\ j < k)
    IN  First(DOMAIN selected, Replacements, before)

\* hasAlternativeQuotaOpportunity
QuotaOpportunity(selected, S) ==
    LET types == UNION {selected[k].types : k \in DOMAIN selected}
        capacity == SumOverTypes([t \in SelectionType |-> IF t \in types THEN Quota[t] ELSE 0])
    IN  \/ QuotaScore(selected) < capacity
        \/ \E c \in S : c.id \notin Ids(selected) /\ ~(c.types \subseteq types)

\* One alternative: at most so many places are tried, the first that helps is
\* taken.  That places were left untried makes the search a limited one.
TryPlaces(w, c, previous) ==
    LET places == ReplacementOrder(c, w.selection, previous)
        try(v, j) ==
          LET old == v.selection[places[j]]
              new == As(c, IF old.as \in c.types THEN old.as ELSE LowestType(c.types))
              proposal == [v.selection EXCEPT ![places[j]] = new]
              order == BestOrder(proposal, previous)
          IN  IF c.id \notin Ids(v.selection) /\ Better(order, v.best)
              THEN [v EXCEPT !.selection = proposal, !.best = order, !.improved = TRUE]
              ELSE v
        limited == Len(w.selection) > Replacements /\ Len(w.best) < BatchSize
    IN  Loop(try, [w EXCEPT !.limited = @ \/ limited], Len(places))

\* One round over the alternatives, unless the one before was the last.
ImproveRound(w, S, previous, round) ==
    LET runLimited == Len(w.best) < Len(w.selection)
        others == Sorted({c \in S : /\ c.id \notin Ids(w.selection)
                                    /\ runLimited => CanImprove(c, w.selection)})
        try(v, j) == TryPlaces(v, others[j], previous)
        after == Loop(try, [w EXCEPT !.improved = FALSE], Len(others))
        done == ~after.improved \/ Len(after.best) >= BatchSize
    IN  IF w.done THEN w
        ELSE [after EXCEPT !.done = done, !.limited = @ \/ (~done /\ round = Rounds)]

\* orderWithAlternatives.  A selection short of a batch holds every candidate,
\* so there is no alternative to append.
OrderWithAlternatives(selected, S, previous) ==
    LET best == BestOrder(selected, previous)
        start == [selection |-> selected, best |-> best, improved |-> FALSE,
                  limited |-> FALSE, done |-> FALSE]
        improve(w, round) == ImproveRound(w, S, previous, round)
    IN  IF Len(best) >= BatchSize /\ ~QuotaOpportunity(selected, S) THEN start
        ELSE Loop(improve, start, Rounds)

\* resolveContinuation
ContinuationV1(pool, selected, result) ==
    LET limited == Len(pool) > CandidateBudget \/ result.limited
    IN  IF pool = <<>> THEN "EXHAUSTED"
        ELSE IF Len(result.best) < Len(selected)
             THEN IF limited THEN "SEARCH_LIMITED" ELSE "CONSTRAINT_LIMITED"
        ELSE IF Len(selected) = BatchSize THEN "CONTINUE"
        ELSE IF limited THEN "SEARCH_LIMITED"
        ELSE IF Len(pool) < BatchSize THEN "EXHAUSTED" ELSE "CONSTRAINT_LIMITED"

BatchV1(pool, selected, result) ==
    [items |-> result.best, continuation |-> ContinuationV1(pool, selected, result)]

RecommendFeedV1(pool, previous) ==
    LET S == Scored(pool)
        selected == SelectByTarget(S)
    IN  BatchV1(pool, selected, OrderWithAlternatives(selected, S, previous))

-----------------------------------------------------------------------------
(* Version 2: a greedy order of the selection and one of all candidates,   *)
(* then the longest order there is, then alternatives.                     *)

SeededType(c, seed, sofar) ==
    IF c.id \in Ids(seed)
    THEN (CHOOSE x \in Range(seed) : x.id = c.id).as
    ELSE GreedyType(c, sofar)

\* greedyOrder.  Its bound on inspections is never met: twenty times the budget
\* is more than ten rounds over two lists of at most that many.
GreedyOrder(all, seed, previous) ==
    LET take(sofar, n) ==
          LET state == RunsAfter(sofar, previous)
              next == {As(c, SeededType(c, seed, sofar)) :
                          c \in {x \in all : x.id \notin Ids(sofar) /\ CanAppend(x, state)}}
              rank(x) == (IF x.id \in Ids(seed) THEN 0 ELSE 2)
                           + (IF CountOf(sofar, x.as) < Quota[x.as] THEN 0 ELSE 1)
              first == CHOOSE x \in next : \A y \in next :
                           \/ x = y
                           \/ rank(x) < rank(y)
                           \/ rank(x) = rank(y) /\ Precedes(x, y)
          IN  IF next = {} THEN sofar ELSE Append(sofar, first)
    IN  Loop(take, <<>>, BatchSize)

Signature(c) == <<c.topic, c.entity>>
Signatures(S) == {Signature(c) : c \in S}
FirstOf(S, s) == Foremost({c \in S : Signature(c) = s})

RunStates(S, previous) ==
    [topic : {c.topic : c \in S}, topicRun : Nat, entity : {c.entity : c \in S}, entityRun : Nat]
        \cup {previous}

\* What is left, and the state, when a signature is taken.
After(at, s) == <<at[1] \ {FirstOf(at[1], s)}, AdvanceRun(FirstOf(at[1], s), at[2])>>

\* proveFullPoolMaxLength: the longest orders, over the signatures alone.
RunLengths(S, previous) ==
    LET length[at \in (SUBSET S) \X RunStates(S, previous)] ==
          LET next == {s \in Signatures(at[1]) : CanAppend(FirstOf(at[1], s), at[2])}
              rest(s) == length[After(at, s)]
          IN  Max({0} \cup {1 + rest(s) : s \in next})
    IN  length

MaxRunLength(S, previous) == RunLengths(S, previous)[<<S, previous>>]

\* reconstructMaximumRunOrder, materializeProvenOrder: an order of that length,
\* the signature that comes first in the pool where there is a choice, the best
\* candidates of each.
ProvenOrder(S, seed, previous) ==
    LET length == RunLengths(S, previous)
        take(sofar, n) ==
          LET at == <<{c \in S : c.id \notin Ids(sofar)}, RunsAfter(sofar, previous)>>
              place(s) == Min({c.id : c \in {x \in S : Signature(x) = s}})
              ok == {s \in Signatures(at[1]) : /\ CanAppend(FirstOf(at[1], s), at[2])
                                               /\ length[After(at, s)] = length[at] - 1}
              next == FirstOf(at[1], CHOOSE s \in ok : \A t \in ok : place(s) <= place(t))
          IN  Append(sofar, As(next, SeededType(next, seed, sofar)))
    IN  Loop(take, <<>>, length[<<S, previous>>])

\* boundedAlternatives: each other candidate is put to the batch.
Alternatives(best, S, previous) ==
    LET others == First({c \in S : c.id \notin Ids(best)}, Proposals, Precedes)
        try(b, j) ==
          LET c == others[j] IN
          IF Len(b) >= BatchSize \/ c.id \in Ids(b) THEN b
          ELSE BetterOf(BestOrder(Append(b, As(c, GreedyType(c, b))), previous), b)
    IN  Loop(try, best, Len(others))

\* All orders of candidates that the runs allow.
Arrangements(S, previous) ==
    {o \in UNION {{f \in [1..n -> S] : IsInjective(f)} : n \in 0..Min({BatchSize, Cardinality(S)})} :
        IsAllowed(o, previous)}

\* isProvablyConstraintLimited: one topic, or one entity, and no room for more.
ProvablyLimited(S, items, previous) ==
    LET room(field, run) ==
          LET value == (CHOOSE c \in S : TRUE)[field] IN
          IF value = Null \/ \E c \in S : c[field] # value THEN BatchSize
          ELSE IF previous[field] # value THEN 2
          ELSE IF previous[run] >= 2 THEN 0 ELSE 2 - previous[run]
    IN  Len(items) >= Min({Cardinality(S), room("topic", "topicRun"),
                           room("entity", "entityRun")})

\* Faulty variant: a short order is put down to the runs.
ContinuationUnproven(pool, S, items, previous, longest) ==
    IF Len(items) >= BatchSize THEN "CONTINUE"
    ELSE IF Len(items) = Cardinality(S) THEN "EXHAUSTED" ELSE "CONSTRAINT_LIMITED"

\* resolveV2Continuation: what ends the feed must be proven.
ContinuationV2(pool, S, items, previous, longest) ==
    IF Len(items) >= BatchSize THEN "CONTINUE"
    ELSE IF Len(pool) > CandidateBudget THEN "SEARCH_LIMITED"
    ELSE IF Len(items) = Cardinality(S) THEN "EXHAUSTED"
    ELSE IF Len(items) \in longest \/ ProvablyLimited(S, items, previous)
         THEN "CONSTRAINT_LIMITED"
    ELSE "SEARCH_LIMITED"

\* The proof is made when the greedy order is short and all candidates fit.
Provable(pool, S, greedy) ==
    /\ Len(greedy) < BatchSize
    /\ Len(pool) <= CandidateBudget
    /\ Cardinality(S) <= BatchSize

\* The answers with the best order found and those that are shorter of it: the
\* alternatives may stop at any order that is better than the one before them.
\* longest holds the lengths the proof makes final.
AnswersFrom(pool, S, short, proven, longest, previous) ==
    LET stopped == {[k \in DOMAIN a |-> As(a[k], LowestType(a[k].types))] :
                        a \in Arrangements(S, previous)}
        orders == IF short THEN {Alternatives(proven, S, previous)}
                                  \cup {o \in stopped : Better(o, proven)}
                  ELSE {}
    IN  {[items |-> o, continuation |-> ContinuationV2(pool, S, o, previous, longest)] :
            o \in orders \cup {proven}}

\* The search for the longest order, unless the budget stops it first.
AnswersAfter(pool, S, seed, short, greedy, previous) ==
    LET longest == MaxRunLength(S, previous)
        better == BetterOf(ProvenOrder(S, seed, previous), greedy)
    IN  IF ~Provable(pool, S, greedy)
        THEN AnswersFrom(pool, S, short, greedy, {}, previous)
        ELSE AnswersFrom(pool, S, short, IF Len(greedy) < longest THEN better ELSE greedy,
                         longest..BatchSize, previous)
               \cup {[items |-> greedy,
                      continuation |-> ContinuationV2(pool, S, greedy, previous, {})]}

AnswersOf(pool, S, seed, fromSeed, fromAll, previous) ==
    AnswersAfter(pool, S, seed, Len(fromSeed) < BatchSize /\ Len(fromAll) < BatchSize,
                 BetterOf(fromAll, fromSeed), previous)

\* recommendFeedV2: the answers it may give, depending on where the budget runs
\* out.
RecommendFeedV2(pool, previous) ==
    LET S == Scored(pool)
        seed == SelectByTarget(S)
    IN  AnswersOf(pool, S, seed,
                  GreedyOrder({c \in S : c.id \in Ids(seed)}, seed, previous),
                  GreedyOrder(S, seed, previous), previous)

-----------------------------------------------------------------------------
VARIABLES
    pool,      \* the candidates read for a batch
    previous,  \* the run state of the session
    output     \* the batch, "none" before it is made

recommendationVars == <<pool, previous, output>>

RecommendationInit ==
    /\ pool \in Pools
    /\ previous \in Before
    /\ output = [version |-> "none"]

\* recommendFeed: the version is that of the session.
RecommendV1 ==
    /\ output.version = "none"
    /\ output' = [version |-> "v1", batch |-> RecommendFeedV1(pool, previous)]
    /\ UNCHANGED <<pool, previous>>

RecommendV2 ==
    /\ output.version = "none"
    /\ \E answer \in RecommendFeedV2(pool, previous) :
         output' = [version |-> "v2", batch |-> answer]
    /\ UNCHANGED <<pool, previous>>

RecommendationNext == RecommendV1 \/ RecommendV2

RecommendationSpec == RecommendationInit /\ [][RecommendationNext]_recommendationVars

-----------------------------------------------------------------------------
(* Properties.                                                             *)

\* The selection fills as many of the wanted places as any choice of types for
\* the candidates would (selectByTarget).
FillsMost(S) ==
    LET choices == {f \in [S -> SelectionType \cup {Null}] :
                      /\ \A c \in S : f[c] \in c.types \cup {Null}
                      /\ \A u \in SelectionType : Cardinality({c \in S : f[c] = u}) <= Quota[u]}
        filled(f) == Cardinality({c \in S : f[c] # Null})
    IN  \A f \in choices : filled(f) <= QuotaScore(SelectByTarget(S))

\* What is shown: candidates of the pool, each once, as a type it is of, and no
\* third of a topic or an entity in a row, counted from the batch before.
BatchIsAllowed(S, items) ==
    /\ \A k \in DOMAIN items : \E c \in S : c.id = items[k].id /\ items[k].as \in c.types
    /\ IsAllowed(items, previous)
    /\ Cardinality(Ids(items)) = Len(items)
    /\ Len(items) <= BatchSize

\* What is said of what is left: the feed goes on when the batch is full, is
\* exhausted only when all was shown, and, in version 2, is limited by the runs
\* only when no order of the candidates is longer.
VerdictIsTrue(S, batch) ==
    /\ batch.continuation = "CONTINUE" <=> Len(batch.items) = BatchSize
    /\ batch.continuation = "EXHAUSTED" =>
         Len(pool) <= CandidateBudget /\ Ids(batch.items) = {c.id : c \in S}
    /\ batch.continuation = "CONSTRAINT_LIMITED" /\ output.version = "v2" =>
         \A o \in Arrangements(S, previous) : Len(o) <= Len(batch.items)

\* A batch is allowed, its verdict true and its selection the fullest, wherever
\* the searches stop (recommendFeed).
RecommendationSound ==
    output.version # "none" =>
        LET S == Scored(pool) IN
        FillsMost(S) /\ BatchIsAllowed(S, output.batch.items) /\ VerdictIsTrue(S, output.batch)
=============================================================================
