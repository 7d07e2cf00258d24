---------------------------- MODULE FeedSession ----------------------------
(***************************************************************************)
(* One feed session.  Its batches are numbered; a request names the batch  *)
(* its cursor points to.  The request reads the session, then the batches, *)
(* then the candidates, computes a batch, and saves it in one transaction  *)
(* under the lock of the session row.  Nothing is locked before that: two  *)
(* requests with one cursor both compute, one saves, and the other is to   *)
(* answer with what the first saved.                                       *)
(*                                                                         *)
(* What the recommendation picks is left open, within what it promises:    *)
(* different candidates, and never a third issue of one topic in a row     *)
(* (module Recommendation).  The run state of the last entity is like that *)
(* of the topic and left out.                                              *)
(***************************************************************************)
EXTENDS Naturals, Sequences, FiniteSets, SequencesExt

CONSTANTS
    Card,              \* issues
    TopicOf,           \* issues.main_topic
    Client,            \* concurrent requests
    FeedBatchSize,
    NoTopic

ASSUME FeedAssumption ==
    /\ DOMAIN TopicOf = Card
    /\ NoTopic \notin {TopicOf[i] : i \in Card}
    /\ FeedBatchSize \in Nat \ {0}

VARIABLES
    row,       \* feed_sessions
    batches,   \* feed_batches and feed_batch_items in the order of batch_no
    shown,     \* the issues that may be shown: PUBLISHED, with a usable card
    acted,     \* the issues the member has acted on
    client,    \* the requests under way
    answers    \* history: the batch each request was answered with

feedVars == <<row, batches, shown, acted, client, answers>>

RunState == [topic : {TopicOf[i] : i \in Card} \cup {NoTopic}, run : Nat]
NoRun == [topic |-> NoTopic, run |-> 0]

NoSession == [state |-> "ABSENT", next |-> 0, last |-> NoRun]
ClientRest == [pc |-> "Idle", no |-> 0, seen |-> NoSession, skip |-> {}, pool |-> {}]

FeedInit ==
    /\ row = NoSession
    /\ batches = <<>>
    /\ shown = Card
    /\ acted = {}
    /\ client = [c \in Client |-> ClientRest]
    /\ answers = {}

-----------------------------------------------------------------------------
(* Run states and batches.                                                 *)

\* advanceRunState
Advance(last, i) ==
    [topic |-> TopicOf[i],
     run |-> IF TopicOf[i] = last.topic THEN last.run + 1 ELSE 1]

AfterRun(last, items) == FoldLeft(Advance, last, items)

\* canAppend: two in a row at most.
Fits(last, items) ==
    \A k \in DOMAIN items : AfterRun(last, SubSeq(items, 1, k)).run <= 2

\* The items of a batch that may be picked from a pool.
Picks(pool, last) ==
    {s \in UNION {[1..n -> pool] : n \in 0..FeedBatchSize} :
        IsInjective(s) /\ Fits(last, s)}

\* A full batch goes on; one that used the pool up ends the session; any other
\* stops it without ending it.
Continuation(items, pool) ==
    IF Len(items) = FeedBatchSize THEN "CONTINUE"
    ELSE IF ToSet(items) = pool THEN "EXHAUSTED" ELSE "LIMITED"

Stored(n) == n < Len(batches)
Batch(n) == batches[n + 1]
ItemsOf(bs) == UNION {ToSet(bs[k].items) : k \in DOMAIN bs}
Open == row.state \in {"ACTIVE", "COMPLETED"}

Turn(c, pc) == client' = [client EXCEPT ![c].pc = pc]
Leave(c) == client' = [client EXCEPT ![c] = ClientRest]

\* The request is answered with a stored batch: its cards are read now.
Answer(c, batch) ==
    /\ Leave(c)
    /\ answers' = answers \cup {[no |-> client[c].no, items |-> batch.items]}

-----------------------------------------------------------------------------
(* Requests.                                                               *)

\* getFeed without a cursor: the session is made and the first batch begun,
\* with nothing to read.
CreateFeedSession(c) ==
    /\ row.state = "ABSENT"
    /\ client[c].pc = "Idle"
    /\ row' = [row EXCEPT !.state = "ACTIVE"]
    /\ client' = [client EXCEPT ![c] = [ClientRest EXCEPT !.pc = "Candidates"]]
    /\ UNCHANGED <<batches, shown, acted, answers>>

\* A cursor was given out with an answer that ends in CONTINUE.  It is refused
\* after 24 hours, and so is the session.
ReadSession(c, n) ==
    /\ client[c].pc = "Idle"
    /\ Open
    /\ Batch(n - 1).continuation = "CONTINUE"
    /\ client' = [client EXCEPT ![c] =
                    [ClientRest EXCEPT !.pc = "Batch", !.no = n, !.seen = row]]
    /\ UNCHANGED <<row, batches, shown, acted, answers>>

\* findFeedBatch: a stored batch answers the request; a completed session
\* (as read before) refuses it.
ReadBatch(c) ==
    LET n == client[c].no
        ended == client[c].seen.state = "COMPLETED"
    IN
    /\ client[c].pc = "Batch"
    /\ \/ Stored(n) /\ Answer(c, Batch(n))
       \/ ~Stored(n) /\ ended /\ Leave(c) /\ UNCHANGED answers
       \/ ~Stored(n) /\ ~ended /\ Turn(c, "Batches") /\ UNCHANGED answers
    /\ UNCHANGED <<row, batches, shown, acted>>

\* findFeedBatches: a stored batch that does not continue refuses the request,
\* and so does a number that was not the next one.
MayCompute(c) ==
    /\ batches # <<>> => Last(batches).continuation = "CONTINUE"
    /\ client[c].no = client[c].seen.next

ReadBatches(c) ==
    /\ client[c].pc = "Batches"
    /\ IF MayCompute(c)
       THEN client' = [client EXCEPT ![c] = [client[c] EXCEPT !.pc = "Candidates",
                                                              !.skip = ItemsOf(batches)]]
       ELSE Leave(c)
    /\ UNCHANGED <<row, batches, shown, acted, answers>>

\* Faulty variant: issues of earlier batches are candidates again.
AllCandidates(c) ==
    /\ client[c].pc = "Candidates"
    /\ client' = [client EXCEPT ![c].pc = "Save", ![c].pool = shown \ acted]
    /\ UNCHANGED <<row, batches, shown, acted, answers>>

\* findFeedCandidates
ReadCandidates(c) ==
    /\ client[c].pc = "Candidates"
    /\ client' = [client EXCEPT ![c] = [client[c] EXCEPT
                    !.pc = "Save", !.pool = (shown \ acted) \ client[c].skip]]
    /\ UNCHANGED <<row, batches, shown, acted, answers>>

\* Faulty variant: the run state of the session is not carried over.
SaveWithoutState(c, items) ==
    LET n == client[c].no
        batch == [items |-> items,
                  continuation |-> Continuation(items, client[c].pool)]
    IN
    /\ client[c].pc = "Save"
    /\ row.state = "ACTIVE" /\ ~Stored(n)
    /\ items \in Picks(client[c].pool, client[c].seen.last)
    /\ batches' = Append(batches, batch)
    /\ row' = [row EXCEPT !.next = n + 1]
    /\ Answer(c, batch)
    /\ UNCHANGED <<shown, acted>>

\* saveFeedBatch inserts the batch and moves the session on.  That a batch
\* which is not stored is still the next one is checked and always so.
SaveFeedBatch(c, items) ==
    LET n == client[c].no
        batch == [items |-> items,
                  continuation |-> Continuation(items, client[c].pool)]
    IN
    /\ client[c].pc = "Save"
    /\ row.state = "ACTIVE" /\ ~Stored(n)
    /\ n = row.next
    /\ batches # <<>> => Last(batches).continuation = "CONTINUE"
    /\ items \in Picks(client[c].pool, client[c].seen.last)
    /\ batches' = Append(batches, batch)
    /\ row' = [state |-> IF batch.continuation = "EXHAUSTED" THEN "COMPLETED" ELSE "ACTIVE",
               next |-> n + 1,
               last |-> AfterRun(client[c].seen.last, items)]
    /\ Answer(c, batch)
    /\ UNCHANGED <<shown, acted>>

\* The loser of the race finds the batch of the winner and answers with it.
SaveFindsExisting(c) ==
    /\ client[c].pc = "Save"
    /\ Open /\ Stored(client[c].no)
    /\ Answer(c, Batch(client[c].no))
    /\ UNCHANGED <<row, batches, shown, acted>>

\* The session has expired or has gone with its owner; the client gives up; the
\* connection is lost.
RequestFails(c) ==
    /\ client[c].pc # "Idle"
    /\ Leave(c)
    /\ UNCHANGED <<row, batches, shown, acted, answers>>

-----------------------------------------------------------------------------
(* The rest of the system.                                                 *)

SessionExpires ==
    /\ Open
    /\ row' = [row EXCEPT !.state = "EXPIRED"]
    /\ UNCHANGED <<batches, shown, acted, client, answers>>

CardWithdrawn(i) ==
    /\ i \in shown
    /\ shown' = shown \ {i}
    /\ UNCHANGED <<row, batches, acted, client, answers>>

MemberActs(i) ==
    /\ i \in shown \ acted
    /\ acted' = acted \cup {i}
    /\ UNCHANGED <<row, batches, shown, client, answers>>

FeedNext ==
    \/ \E c \in Client :
         \/ CreateFeedSession(c)
         \/ \E n \in 1..Len(batches) : ReadSession(c, n)
         \/ ReadBatch(c)
         \/ ReadBatches(c)
         \/ ReadCandidates(c)
         \/ \E s \in Picks(client[c].pool, client[c].seen.last) : SaveFeedBatch(c, s)
         \/ SaveFindsExisting(c)
         \/ RequestFails(c)
    \/ SessionExpires
    \/ \E i \in Card : CardWithdrawn(i) \/ MemberActs(i)

FeedSpec == FeedInit /\ [][FeedNext]_feedVars

-----------------------------------------------------------------------------
(* Properties.                                                             *)

FeedTypeOK ==
    /\ row \in [state : {"ABSENT", "ACTIVE", "COMPLETED", "EXPIRED"}, next : Nat,
                last : RunState]
    /\ \A k \in DOMAIN batches :
         /\ batches[k].items \in Seq(Card)
         /\ batches[k].continuation \in {"CONTINUE", "EXHAUSTED", "LIMITED"}
    /\ shown \subseteq Card /\ acted \subseteq Card
    /\ DOMAIN client = Client

Shown == FlattenSeq([k \in DOMAIN batches |-> batches[k].items])

\* A session shows an issue once, and over the seams of its batches never a
\* third issue of one topic in a row, though batches are computed from what was
\* read before the lock (excludedIssueIds, the run columns of feed_sessions).
SessionIsOneFeed == IsInjective(Shown) /\ Fits(NoRun, Shown)

\* Whoever asks for a batch gets the same one: the loser of a race and a
\* request sent again (saveFeedBatch, EXISTING).
OneAnswerPerBatch ==
    \A a, b \in answers : a.no = b.no => a.items = b.items

\* The two together, and the shapes of the tables and requests.
FeedSound == FeedTypeOK /\ SessionIsOneFeed /\ OneAnswerPerBatch
=============================================================================
