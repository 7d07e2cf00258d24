--------------------------- MODULE CandidatePool ---------------------------
(***************************************************************************)
(* The read of the candidates for a feed batch.  It is a query for each of *)
(* up to five slices and one for the rest, then a read of the rows of the  *)
(* issues found; no transaction holds it together, so issues are           *)
(* published, withdrawn and acted upon between the queries.                *)
(*                                                                         *)
(* An issue is its place in the order of the queries (ISSUE_ORDER_BY).     *)
(* What it shares with the member's choice and what it has that the member *)
(* did not choose are traits.  A guest has chosen nothing and has no past. *)
(***************************************************************************)
EXTENDS Naturals, Sequences, FiniteSets, SequencesExt, FiniteSetsExt

CONSTANTS
    Found,          \* issues: 1..n in the order of the queries
    Shares,         \* [Found -> SUBSET Trait]: what the member has chosen
    Differs,        \* [Found -> SUBSET Trait]: of a trait chosen, another value
    Important,      \* issues of a high score
    Familiar,       \* issues in categories chosen or acted upon before
    FollowUp,       \* issues that follow up an issue the member likes
    Excluded,       \* issues in earlier batches of the session
    PoolLimit,      \* session.candidateBudget + 1; the service takes no budget below 10
    MaxChanges      \* bound: changes during one read

ASSUME CandidatePoolAssumption ==
    /\ Found \subseteq Nat /\ IsFiniteSet(Found)
    /\ DOMAIN Shares = Found /\ DOMAIN Differs = Found
    /\ Important \cup Familiar \cup FollowUp \cup Excluded \subseteq Found
    /\ PoolLimit \in Nat \ 0..4 /\ MaxChanges \in Nat

VARIABLES
    member,     \* whether the owner is a member
    public,     \* PUBLISHED, with a valid detail
    met,        \* issues the member has acted on
    linked,     \* follow-ups of an issue whose last interaction is a like
    reader,     \* the read under way
    changes,    \* bound on what happens meanwhile
    steady,     \* history: candidates since the read began
    ever        \* history: candidates at some time since then

poolVars == <<member, public, met, linked, reader, changes, steady, ever>>

EligibleNow == (public \ met) \ Excluded

PoolInit ==
    /\ member \in BOOLEAN
    /\ public \in SUBSET Found
    /\ met = {}
    /\ linked \in {{}, IF member THEN FollowUp ELSE {}}
    /\ reader = [step |-> 1, ids |-> <<>>, connected |-> {}, result |-> <<>>, done |-> FALSE]
    /\ changes = 0
    /\ steady = EligibleNow
    /\ ever = EligibleNow

-----------------------------------------------------------------------------
(* Slices.                                                                 *)

Personal(i) == member /\ Shares[i] # {}
Opposed(i) == member /\ Differs[i] # {} /\ ~Personal(i) /\ i \in Important

\* buildCandidateSlices; weights in hundredths.  A slice is left out when
\* there is nothing it could be about.
SliceSeq ==
    LET chosen == member /\ \E i \in Found : Shares[i] \cup Differs[i] # {}
        personal == [of |-> {i \in Found : Personal(i)}, weight |-> 30]
        major == [of |-> Important, weight |-> 20]
        connected == [of |-> linked, weight |-> 15]
        exploration == [of |-> Found \ Familiar, weight |-> 20]
        opposite == [of |-> {i \in Found : Opposed(i)}, weight |-> 15]
    IN  (IF chosen THEN <<personal>> ELSE <<>>) \o <<major>>
          \o (IF member THEN <<connected>> ELSE <<>>)
          \o (IF member /\ Familiar # {} THEN <<exploration>> ELSE <<>>)
          \o (IF chosen THEN <<opposite>> ELSE <<>>)

Remaining == PoolLimit - Len(reader.ids)

\* Faulty variant: a slice may take what is left.
GreedySlice(weight) == Remaining

SliceLimit(weight) == Min({Remaining, Max({1, (PoolLimit * weight) \div 100})})

\* The first so many of a set, in order.
FirstOnes(S, n) ==
    [k \in 1..Min({n, Cardinality(S)}) |->
        CHOOSE i \in S : Cardinality({j \in S : j < i}) = k - 1]

\* findCandidateIds: the first so many of the candidates not yet found.
TakeRows(S, n) ==
    LET rows == FirstOnes((EligibleNow \cap S) \ ToSet(reader.ids), n)
    IN  reader' = [reader EXCEPT !.step = @ + 1, !.ids = @ \o rows,
                                 !.connected = @ \cup (ToSet(rows) \cap linked)]

\* findCandidateIssueIds: the query of a slice, then that of the rest; none
\* once the limit is reached.
QuerySlice ==
    /\ reader.step <= Len(SliceSeq)
    /\ Remaining > 0
    /\ TakeRows(SliceSeq[reader.step].of, SliceLimit(SliceSeq[reader.step].weight))
    /\ UNCHANGED <<member, public, met, linked, changes, steady, ever>>

QueryRest ==
    /\ reader.step = Len(SliceSeq) + 1
    /\ Remaining > 0
    /\ TakeRows(Found, Remaining)
    /\ UNCHANGED <<member, public, met, linked, changes, steady, ever>>

\* loadFeedRecommendationIssues: an issue no longer published is dropped.
LoadRows ==
    /\ reader.step > Len(SliceSeq) + 1 \/ Remaining = 0
    /\ ~reader.done
    /\ LET left == FirstOnes({k \in DOMAIN reader.ids : reader.ids[k] \in public}, Len(reader.ids))
       IN  reader' = [reader EXCEPT !.done = TRUE,
                                    !.result = [k \in DOMAIN left |-> reader.ids[left[k]]]]
    /\ UNCHANGED <<member, public, met, linked, changes, steady, ever>>

-----------------------------------------------------------------------------
(* What happens meanwhile.                                                 *)

Meanwhile ==
    /\ ~reader.done
    /\ changes < MaxChanges
    /\ changes' = changes + 1
    /\ steady' = steady \cap (public' \ met')
    /\ ever' = ever \cup ((public' \ met') \ Excluded)
    /\ UNCHANGED <<member, reader>>

IssuePublished(i) ==
    /\ i \notin public
    /\ public' = public \cup {i}
    /\ UNCHANGED <<met, linked>>
    /\ Meanwhile

IssueWithdrawn(i) ==
    /\ i \in public
    /\ public' = public \ {i}
    /\ UNCHANGED <<met, linked>>
    /\ Meanwhile

\* The member likes, skips or passes an issue: it is no candidate any more.
MemberMeets(i) ==
    /\ member
    /\ i \in public \ met
    /\ met' = met \cup {i}
    /\ UNCHANGED <<public, linked>>
    /\ Meanwhile

\* The member likes, or no longer likes, the issue that these follow up.
LikeChanges ==
    /\ member
    /\ linked' \in {{}, FollowUp} \ {linked}
    /\ UNCHANGED <<public, met>>
    /\ Meanwhile

PoolNext ==
    \/ QuerySlice
    \/ QueryRest
    \/ LoadRows
    \/ \E i \in Found : IssuePublished(i) \/ IssueWithdrawn(i) \/ MemberMeets(i)
    \/ LikeChanges

PoolSpec == PoolInit /\ [][PoolNext]_poolVars

-----------------------------------------------------------------------------
(* Properties.                                                             *)

PoolTypeOK ==
    /\ public \subseteq Found /\ met \subseteq Found /\ linked \subseteq FollowUp
    /\ reader.step \in 1..7
    /\ reader.ids \in Seq(Found) /\ reader.result \in Seq(Found)
    /\ reader.connected \subseteq Found
    /\ changes \in 0..MaxChanges
    /\ steady \subseteq ever /\ ever \subseteq Found

\* Every issue is found once, and was a candidate when it was found.
FindsCandidates ==
    /\ IsInjective(reader.ids)
    /\ Len(reader.ids) <= PoolLimit
    /\ ToSet(reader.ids) \subseteq ever

\* A read that does not fill the limit has found every issue that was a
\* candidate throughout: on that rests EXHAUSTED (recommendFeed takes a pool
\* within the budget for all there is).
FindsAll ==
    reader.done /\ Len(reader.ids) < PoolLimit => steady \subseteq ToSet(reader.ids)

\* No slice is crowded out by those before it: if there were candidates of it
\* throughout, the pool holds one.
ServesEverySlice ==
    reader.done =>
        \A S \in {{i \in Found : Personal(i)}, Important, {i \in Found : Opposed(i)},
                  IF member THEN Found \ Familiar ELSE {}} :
            steady \cap S # {} => ToSet(reader.ids) \cap S # {}

\* The three together (findCandidateIssueIds).
PoolSound == PoolTypeOK /\ FindsCandidates /\ FindsAll /\ ServesEverySlice
=============================================================================
