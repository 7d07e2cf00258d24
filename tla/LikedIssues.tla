---------------------------- MODULE LikedIssues ----------------------------
(***************************************************************************)
(* What a member sees of the own likes: the pages of liked issues, and the *)
(* analysis of a period.  Nothing is stored for either; both are derived   *)
(* from the events by two queries that share no transaction, one for the   *)
(* last event of every issue and one for the issues that are published.    *)
(* Meanwhile the member acts, and issues are withdrawn.                    *)
(*                                                                         *)
(* A page goes on after the last item of the page before, by the time of   *)
(* the like and the id.  Times are milliseconds, the precision of the      *)
(* cursor, so that several likes may have the same; ids are numbers.       *)
(***************************************************************************)
EXTENDS Integers, Sequences, FiniteSets, FiniteSetsExt, SequencesExt

CONSTANTS
    Story,           \* issues
    SectionOf,       \* their categories
    PageSize,        \* limit
    AnalysisWindow,  \* length of the period that is analysed
    LastTime, MaxActs,  \* bounds
    NoCursor         \* no cursor, no filter, no limit of time

Section == {SectionOf[s] : s \in Story}

ASSUME LikesAssumption ==
    /\ Story \subseteq Nat /\ IsFiniteSet(Story) /\ DOMAIN SectionOf = Story
    /\ PageSize \in Nat \ {0} /\ AnalysisWindow \in Nat
    /\ LastTime \in Nat /\ MaxActs \in Nat
    /\ NoCursor \notin Nat \cup [story : Story, at : Nat]

VARIABLES
    clock,     \* clock_timestamp() and new Date()
    acts,      \* user_interaction_events in the order of accepted_order
    visible,   \* published issues
    walk,      \* a client that asks for one page after the other
    study      \* a request for the analysis

likesVars == <<clock, acts, visible, walk, study>>

-----------------------------------------------------------------------------
(* The queries.                                                            *)

\* loadLatestEvents: the last event of an issue, before asOf if it is given.
Earlier(k, asOf) == asOf = NoCursor \/ acts[k].at < asOf
LastAct(s, asOf) ==
    Max({0} \cup {k \in DOMAIN acts : acts[k].story = s /\ Earlier(k, asOf)})

\* loadCurrentLikes: its events, then the items that are published.
LikedEvents(asOf) ==
    {[story |-> s, at |-> acts[LastAct(s, asOf)].at] :
        s \in {u \in Story : LastAct(u, asOf) # 0 /\ acts[LastAct(u, asOf)].liked}}
CurrentLikes(read) == {e \in read : e.story \in visible}

\* Latest first, among equal times the greatest id first.
compareLikedIssues(a, b) == a.at > b.at \/ (a.at = b.at /\ a.story > b.story)

\* Faulty variant: equal times are not told apart.
AfterByTime(e, cursor) == cursor = NoCursor \/ e.at < cursor.at

isAfterCursor(e, cursor) == cursor = NoCursor \/ compareLikedIssues(cursor, e)

\* The items of a page, and one more if there is one.
Eligible(read, section) ==
    {e \in CurrentLikes(read) : section = NoCursor \/ SectionOf[e.story] = section}
PageAfter(read, section, cursor) ==
    LET after == {e \in Eligible(read, section) : isAfterCursor(e, cursor)}
        place(e) == Cardinality({o \in after : compareLikedIssues(o, e)}) + 1
    IN  [k \in 1..Min({Cardinality(after), PageSize + 1}) |->
            CHOOSE e \in after : place(e) = k]

\* getInterestAnalysis: items of the period, and how many of each category.
Counted(read, from) ==
    LET period == {e \in CurrentLikes(read) : e.at >= from} IN
    [likes |-> {e.story : e \in CurrentLikes(read)},
     counts |-> [c \in {SectionOf[e.story] : e \in period} |->
                   Cardinality({e \in period : SectionOf[e.story] = c})]]

-----------------------------------------------------------------------------

\* Neither reader writes, so that one of them at a time is enough.
LikesInit ==
    /\ clock = 1
    /\ acts = <<>>
    /\ visible = Story
    /\ \E reader \in {"pages", "analysis"} :
         /\ walk = [pc |-> IF reader = "pages" THEN "start" ELSE "off", section |-> NoCursor,
                    cursor |-> NoCursor, read |-> {}, shown |-> <<>>, steady |-> {}]
         /\ study = [pc |-> IF reader = "analysis" THEN "start" ELSE "off", asOf |-> NoCursor,
                     read |-> {}, liked |-> {}]

\* recordInteraction; the row of the member orders the events and their times.
ActOn(s, liked) ==
    /\ Len(acts) < MaxActs
    /\ s \in visible
    /\ acts' = Append(acts, [story |-> s, liked |-> liked, at |-> clock])
    /\ walk' = [walk EXCEPT !.steady = @ \ {s}]
    /\ UNCHANGED <<clock, visible, study>>

WithdrawStory(s) ==
    /\ s \in visible
    /\ visible' = visible \ {s}
    /\ walk' = [walk EXCEPT !.steady = @ \ {s}]
    /\ study' = [study EXCEPT !.liked = @ \ {s}]
    /\ UNCHANGED <<clock, acts>>

TimePasses ==
    /\ clock < LastTime
    /\ clock' = clock + 1
    /\ UNCHANGED <<acts, visible, walk, study>>

\* A page is asked for: the first of a filter, or the next one of the same; a
\* cursor of another filter is refused.  The first query is made.
AskPage(section) ==
    /\ \/ walk.pc = "start" \/ (walk.pc = "page" /\ section = walk.section)
    /\ walk' = [walk EXCEPT !.pc = "read", !.section = section,
                            !.read = LikedEvents(NoCursor),
                            !.steady = IF walk.pc = "start"
                                       THEN {e.story : e \in Eligible(LikedEvents(NoCursor), section)}
                                       ELSE @]
    /\ UNCHANGED <<clock, acts, visible, study>>

\* The second query is made, and the page is answered.
AnswerPage ==
    /\ walk.pc = "read"
    /\ LET page == PageAfter(walk.read, walk.section, walk.cursor)
           items == SubSeq(page, 1, Min({Len(page), PageSize}))
           more == Len(page) > PageSize
       IN  walk' = [walk EXCEPT !.pc = IF more THEN "page" ELSE "end",
                                !.cursor = IF more THEN Last(items) ELSE NoCursor,
                                !.read = {},
                                !.shown = @ \o [k \in DOMAIN items |-> items[k].story]]
    /\ UNCHANGED <<clock, acts, visible, study>>

\* The time of the request is the end of the period.  History: what was liked
\* and published when that millisecond began.
AskAnalysis ==
    /\ study.pc = "start"
    /\ study' = [study EXCEPT !.pc = "asked", !.asOf = clock,
                              !.liked = {e.story : e \in CurrentLikes(LikedEvents(clock))}]
    /\ UNCHANGED <<clock, acts, visible, walk>>

ReadAnalysis ==
    /\ study.pc = "asked"
    /\ study' = [study EXCEPT !.pc = "read", !.read = LikedEvents(study.asOf)]
    /\ UNCHANGED <<clock, acts, visible, walk>>

AnswerAnalysis ==
    /\ study.pc = "read"
    /\ study' = [pc |-> "end", asOf |-> study.asOf, liked |-> study.liked,
                 read |-> Counted(study.read, study.asOf - AnalysisWindow)]
    /\ UNCHANGED <<clock, acts, visible, walk>>

LikesNext ==
    \/ \E s \in Story : WithdrawStory(s) \/ \E liked \in BOOLEAN : ActOn(s, liked)
    \/ TimePasses
    \/ \E section \in Section \cup {NoCursor} : AskPage(section)
    \/ AnswerPage \/ AskAnalysis \/ ReadAnalysis \/ AnswerAnalysis

LikesSpec == LikesInit /\ [][LikesNext]_likesVars

-----------------------------------------------------------------------------
(* Properties.                                                             *)

\* A walk over the pages shows no issue twice, though what it has shown may be
\* liked again, taken back or withdrawn between two pages; and it shows every
\* issue that was liked when it began and has not been touched since.
WalkIsComplete ==
    /\ IsInjective(walk.shown)
    /\ walk.pc = "end" => walk.steady \subseteq Range(walk.shown)

\* An analysis counts what was liked at its time, whatever comes between its
\* queries, but for what is withdrawn by then; the counts are those of the likes.
AnalysisOfItsTime ==
    study.pc = "end" =>
        /\ study.liked = study.read.likes \cap study.liked
        /\ \A s \in study.read.likes : s \notin study.liked => s \notin visible
        /\ MapThenSumSet(LAMBDA c : study.read.counts[c], DOMAIN study.read.counts)
             <= Cardinality(study.read.likes)

LikesSound == WalkIsComplete /\ AnalysisOfItsTime
=============================================================================
