--------------------------- MODULE MemberInterest ---------------------------
(***************************************************************************)
(* What a member likes, as it is learnt.  An action on an issue appends an *)
(* event; a detail view reports the time it was active; both move the      *)
(* member's contribution for the issue and, by the difference, the weight  *)
(* of a category.  Onboarding adds a fixed weight for every category the   *)
(* member chose.  The choice itself is stored nowhere: it is what is left  *)
(* of the weights when the contributions are taken away.                   *)
(*                                                                         *)
(* Every write locks the row of the member first, so that one transaction  *)
(* is one step.  A refused request changes nothing and is no step.         *)
(*                                                                         *)
(* Weights are doubled, to be integers.  Time is in units: HalfDwell stands *)
(* for 10 s, FullDwell for 30 s, LifeTime for 30 min.                       *)
(***************************************************************************)
EXTENDS Integers, Sequences, FiniteSets, FiniteSetsExt

CONSTANTS
    Issue, Category,
    CategoryOf,        \* issues.category_code
    EventId, View,     \* ids chosen by clients
    Taken,             \* those of them another member has used
    Session,
    Entity, Region,    \* the catalogs of onboarding
    HalfDwell, FullDwell, LifeTime,
    NoRow

VARIABLES
    published,   \* the issues with publication_status PUBLISHED
    status,      \* users.onboarding_status, GONE when the account is deleted
    events,      \* user_interaction_events in the order of accepted_order
    views,       \* issue_detail_views
    contrib,     \* user_issue_contributions
    weight,      \* user_category_preferences
    others,      \* user_entity_preferences and user_region_preferences
    chosen       \* history: the categories of the last completed onboarding

memberVars == <<published, status, events, views, contrib, weight, others,
                chosen>>
ledger == <<events, views, contrib, weight>>

Action == {"LIKE", "SKIP", "PASS"}

EventRecord == [id : EventId, issue : Issue, session : Session, action : Action]
ViewRecord == [issue : Issue, session : Session, age : 0..LifeTime,
               active : 0..LifeTime]
Contribution == [action : {4, 0, -6}, credited : 0..FullDwell]
Preferences == [entities : SUBSET Entity, regions : SUBSET Region]

ASSUME MemberAssumption ==
    /\ CategoryOf \in [Issue -> Category]
    /\ IsFiniteSet(Issue) /\ IsFiniteSet(View)
    /\ HalfDwell \in Nat /\ FullDwell \in Nat /\ LifeTime \in Nat
    /\ 0 < HalfDwell /\ HalfDwell < FullDwell /\ FullDwell < LifeTime
    /\ NoRow \notin Int /\ NoRow \notin ViewRecord /\ NoRow \notin Contribution

MemberInit ==
    /\ published = Issue
    /\ status = "PENDING"
    /\ events = <<>>
    /\ views = [v \in View |-> NoRow]
    /\ contrib = [i \in Issue |-> NoRow]
    /\ weight = [c \in Category |-> NoRow]
    /\ others = [entities |-> {}, regions |-> {}]
    /\ chosen = {}

-----------------------------------------------------------------------------
(* Scores.                                                                 *)

interactionActionScore(a) ==
    CASE a = "LIKE" -> 4 [] a = "SKIP" -> -6 [] OTHER -> 0

\* Faulty variant: the new score is added and the old one stays.
ScoreWithoutPrevious(previous, next) == interactionActionScore(next)

interactionActionDelta(previous, next) ==
    interactionActionScore(next) - interactionActionScore(previous)

detailDwellScore(credited) ==
    IF credited >= FullDwell THEN 2 ELSE IF credited >= HalfDwell THEN 1 ELSE 0

\* The time credited to an issue when one of its views has advanced.
detailDwellContribution(stored, current, accepted) ==
    Min({FullDwell, stored + Max({0, accepted - current})})

\* The last action of the member on an issue: "NONE" scores 0 like a PASS.
LatestAction(i) ==
    LET mine == {k \in DOMAIN events : events[k].issue = i}
    IN  IF mine = {} THEN "NONE" ELSE events[Max(mine)].action

ActionScoreOf(i) == IF contrib[i] = NoRow THEN 0 ELSE contrib[i].action
CreditedOf(i) == IF contrib[i] = NoRow THEN 0 ELSE contrib[i].credited
IssueScore(i) == ActionScoreOf(i) + detailDwellScore(CreditedOf(i))

\* The part of a category's weight that comes from actions.
ActionWeight(c) == MapThenSumSet(IssueScore, {i \in Issue : CategoryOf[i] = c})

WeightIn(w, c) == IF w[c] = NoRow THEN 0 ELSE w[c]

\* A difference of 0 writes no row.
applyCategoryDelta(c, delta) ==
    weight' = IF delta = 0 THEN weight
              ELSE [weight EXCEPT ![c] = WeightIn(weight, c) + delta]

Member == status # "GONE"

-----------------------------------------------------------------------------
(* Interactions.                                                           *)

\* A known event id is answered from its row, or refused: neither changes
\* anything.
RecordInteraction(e, i, s, a) ==
    /\ Member
    /\ e \notin Taken /\ \A k \in DOMAIN events : events[k].id # e
    /\ i \in published
    /\ events' = Append(events,
                        [id |-> e, issue |-> i, session |-> s, action |-> a])
    /\ contrib' = [contrib EXCEPT ![i] =
                     [action |-> interactionActionScore(a), credited |-> CreditedOf(i)]]
    /\ applyCategoryDelta(CategoryOf[i],
                          interactionActionDelta(LatestAction(i), a))
    /\ UNCHANGED <<published, status, views, others, chosen>>

\* A known view id is answered from its row, or refused.
StartDetailView(v, i, s) ==
    /\ Member
    /\ v \notin Taken /\ views[v] = NoRow
    /\ i \in published
    /\ views' = [views EXCEPT ![v] =
                   [issue |-> i, session |-> s, age |-> 0, active |-> 0]]
    /\ UNCHANGED <<published, status, events, contrib, weight, others, chosen>>

\* The client reports ms, the time the view has been active so far.  A report
\* that is not later than the stored one is answered with the stored one.
UpdateDetailView(v, ms) ==
    /\ Member
    /\ views[v] # NoRow
    /\ ms \in 0..LifeTime
    /\ ms > views[v].active
    /\ views[v].age < LifeTime
    /\ views[v].issue \in published
    /\ ms <= views[v].age
    /\ LET i == views[v].issue
           credited == detailDwellContribution(CreditedOf(i), views[v].active, ms)
       IN  /\ views' = [views EXCEPT ![v].active = ms]
           /\ contrib' = [contrib EXCEPT ![i] =
                            [action |-> ActionScoreOf(i), credited |-> credited]]
           /\ applyCategoryDelta(CategoryOf[i],
                 detailDwellScore(credited) - detailDwellScore(CreditedOf(i)))
    /\ UNCHANGED <<published, status, events, others, chosen>>

\* Time passes for an open view.
ViewAges(v) ==
    /\ Member
    /\ views[v] # NoRow /\ views[v].age < LifeTime
    /\ views' = [views EXCEPT ![v].age = @ + 1]
    /\ UNCHANGED <<published, status, events, contrib, weight, others, chosen>>

-----------------------------------------------------------------------------
(* Onboarding.                                                             *)

Selected == 4

\* What is left of weights w when the contributions are taken away.
categoryResidual(w, c) == WeightIn(w, c) - ActionWeight(c)

HasResidualRow(w, c) ==
    w[c] # NoRow \/ \E i \in Issue : CategoryOf[i] = c /\ contrib[i] # NoRow

AllowedResiduals(w) == \A c \in Category : categoryResidual(w, c) \in {0, Selected}

\* The choice of the member as the code derives it.
DerivedTopics(w) == {c \in Category : categoryResidual(w, c) = Selected}

\* Faulty variant: a category that is still chosen keeps its row.
KeepChosenRows(topics) ==
    [c \in Category |->
       IF weight[c] # NoRow THEN weight[c]
       ELSE IF c \in topics THEN ActionWeight(c) + Selected ELSE NoRow]

\* All rows of the member are deleted and written again.
replaceCategoryPreferences(topics) ==
    [c \in Category |->
       IF c \in topics THEN ActionWeight(c) + Selected
       ELSE IF HasResidualRow(weight, c) THEN ActionWeight(c)
       ELSE NoRow]

\* At least one category; everything chosen is in its catalog.
validateSelection(topics, entities, regions) ==
    /\ topics # {} /\ topics \subseteq Category
    /\ entities \subseteq Entity
    /\ regions \subseteq Region

\* Here no row survives that was not chosen again.
replaceOtherPreferences(entities, regions) ==
    [entities |-> entities, regions |-> regions]

\* From any status, each time with the full selection.
CompleteOnboarding(topics, entities, regions) ==
    /\ Member
    /\ validateSelection(topics, entities, regions)
    /\ AllowedResiduals(weight)
    /\ weight' = replaceCategoryPreferences(topics)
    /\ others' = replaceOtherPreferences(entities, regions)
    /\ status' = "COMPLETED"
    /\ chosen' = topics
    /\ UNCHANGED <<published, events, views, contrib>>

SkipOnboarding ==
    /\ status = "PENDING"
    /\ status' = "SKIPPED"
    /\ UNCHANGED <<published, events, views, contrib, weight, others, chosen>>

-----------------------------------------------------------------------------
(* The rest of the system.                                                 *)

\* The content of an issue is withdrawn.
WithdrawIssue(i) ==
    /\ i \in published
    /\ published' = published \ {i}
    /\ UNCHANGED <<status, ledger, others, chosen>>

\* The account is deleted, and every row of the member with it.
DeleteAccount ==
    /\ Member
    /\ status' = "GONE"
    /\ events' = <<>>
    /\ views' = [v \in View |-> NoRow]
    /\ contrib' = [i \in Issue |-> NoRow]
    /\ weight' = [c \in Category |-> NoRow]
    /\ others' = [entities |-> {}, regions |-> {}]
    /\ chosen' = {}
    /\ UNCHANGED <<published>>

MemberNext ==
    \/ \E e \in EventId, i \in Issue, s \in Session, a \in Action :
         RecordInteraction(e, i, s, a)
    \/ \E v \in View, i \in Issue, s \in Session : StartDetailView(v, i, s)
    \/ \E v \in View, ms \in 0..LifeTime : UpdateDetailView(v, ms)
    \/ \E v \in View : ViewAges(v)
    \/ \E t \in SUBSET Category, n \in SUBSET Entity, g \in SUBSET Region :
         CompleteOnboarding(t, n, g)
    \/ SkipOnboarding
    \/ \E i \in Issue : WithdrawIssue(i)
    \/ DeleteAccount

MemberSpec == MemberInit /\ [][MemberNext]_memberVars

-----------------------------------------------------------------------------
(* Properties.                                                             *)

\* The rows have the shape of their tables.
MemberTypeOK ==
    /\ published \subseteq Issue
    /\ status \in {"PENDING", "SKIPPED", "COMPLETED", "GONE"}
    /\ events \in Seq(EventRecord)
    /\ views \in [View -> ViewRecord \cup {NoRow}]
    /\ contrib \in [Issue -> Contribution \cup {NoRow}]
    /\ weight \in [Category -> Int \cup {NoRow}]
    /\ others \in Preferences
    /\ chosen \subseteq Category

\* The choice a member made can always be derived again from the weights:
\* no action, view or earlier choice is mistaken for it or hides it.
\* This is what deriveCategoryResiduals and its 500 answer rely on.
ChoiceIsDerivable ==
    /\ AllowedResiduals(weight)
    /\ DerivedTopics(weight) = chosen

ActiveIn(i) ==
    LET mine == {v \in View : views[v] # NoRow /\ views[v].issue = i}
        active(v) == views[v].active
    IN  MapThenSumSet(active, mine)

\* The contribution for an issue is what its history says: the score of the
\* last action, and the time of all views of the issue together, up to the cap.
\* The row is updated by differences, in recordInteraction and updateDetailView.
LedgerIsHistory ==
    \A i \in Issue :
        /\ ActionScoreOf(i) = interactionActionScore(LatestAction(i))
        /\ CreditedOf(i) = Min({FullDwell, ActiveIn(i)})

\* The two together: what is learnt and what was chosen stay apart in the
\* weights, and neither is lost when they change at the same time.
LearningSound == MemberTypeOK /\ ChoiceIsDerivable /\ LedgerIsHistory
=============================================================================
