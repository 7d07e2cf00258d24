--------------------------- MODULE ReportContent ---------------------------
(***************************************************************************)
(* What a diagnostic report says: the candidates that are captured for it, *)
(* the draft of the provider, the content that is stored, and the content  *)
(* that its member gets to see.  Issues are withdrawn and acted upon all   *)
(* the time: between the statements of the capture, while the provider     *)
(* writes, after the report was stored, and while it is read.              *)
(*                                                                         *)
(* Issues are numbers in the order of their ids, categories numbers in the *)
(* order of display.  Who may write a report is the subject of ReportLease; *)
(* here one execution of it follows the other.  Prose is left out.         *)
(***************************************************************************)
EXTENDS Naturals, Sequences, FiniteSets, SequencesExt, FiniteSetsExt, Ranked

CONSTANTS
    Inputs,          \* the possible issues of an input snapshot
    Further,         \* the other issues
    Likenesses,      \* possible similarities: [source \X further -> Nat]
    Embedded,        \* issues whose vector is that of their text
    CategoryNumber,  \* the category of an issue
    Importance,      \* of a further issue
    Notable,         \* further issues of the week with a score of 0.7 or more
    Drafts,          \* what the provider may answer
    Minimum,         \* 5: input issues an analysis needs
    MaxRelated,      \* 5
    MaxMajor,        \* 5
    MaxConnections,  \* 3
    PerSource,       \* 10: rows read for a source
    TopRelated,      \* 50: rows read for all sources
    PerCategory,     \* 10: rows read for a category
    MaxTries,        \* bound: executions
    MaxShifts,       \* bound: issues withdrawn and acted upon
    Nil

Sources == UNION Inputs

\* The rows of a query are enough for what is chosen from them; the answer of
\* the provider has the shape of its schema.
ASSUME ReportContentAssumption ==
    /\ Sources \cup Further \subseteq Nat /\ Sources \cap Further = {}
    /\ IsFiniteSet(Sources) /\ IsFiniteSet(Further) /\ Notable \subseteq Further
    /\ \A l \in Likenesses : l \in [Sources \X Further -> Nat]
    /\ \A i \in Sources \cup Further : CategoryNumber[i] \in Nat
    /\ \A i \in Further : Importance[i] \in Nat
    /\ \A d \in Drafts : /\ d.connections \in Seq(Seq(Nat))
                        /\ d.related \in Seq([issue : Nat, source : Nat])
    /\ {Minimum, MaxRelated, MaxMajor, MaxConnections, MaxShifts} \subseteq Nat
    /\ {PerSource, TopRelated, PerCategory} \subseteq Nat /\ MaxTries \in Nat \ {0}
    /\ PerSource >= MaxRelated /\ TopRelated >= MaxRelated
    /\ PerCategory >= MaxMajor + MaxRelated

VARIABLES
    input,      \* input_snapshot: the issues
    likeness,   \* the similarities of the stored vectors
    readable,   \* issues that are PUBLISHED
    actedOn,    \* issues the member has an event for
    stored,     \* weekly_reports.candidates and content
    run,        \* the execution: processClaim
    get,        \* a GET of the report
    shifts,     \* bound
    capture     \* history: what was eligible when the candidates were read

contentVars == <<input, likeness, readable, actedOn, stored, run, get, shifts, capture>>

\* What visibility() has read so far.
Blind == [public |-> Nil, acted |-> Nil]
NewRun(tries) == [pc |-> "Sources", tries |-> tries, sources |-> {}, look |-> Blind,
                  candidates |-> Nil, draft |-> Nil, content |-> Nil]
NoGet == [pc |-> "idle", look |-> Blind, content |-> Nil, before |-> {}, answer |-> Nil]

ContentInit ==
    /\ input \in Inputs
    /\ likeness \in Likenesses
    /\ readable = Sources \cup Further
    /\ actedOn = {}
    /\ stored = [candidates |-> Nil, content |-> Nil]
    /\ run = NewRun(1)
    /\ get = NoGet
    /\ shifts = 0
    /\ capture = Nil

-----------------------------------------------------------------------------
(* Candidates.                                                             *)

CountIn(c) == Cardinality({i \in input : CategoryNumber[i] = c})

\* The categories with the most input issues, in the order of display.
majorCategoryCodes ==
    LET cs == {CategoryNumber[i] : i \in input}
        most == {c \in cs : \A d \in cs : CountIn(d) <= CountIn(c)}
    IN  First(most, Cardinality(most), <)

\* The most similar to a source first, later ids first among equals.
CloserTo(s, c, d) ==
    \/ likeness[<<s, c>>] > likeness[<<s, d>>]
    \/ likeness[<<s, c>>] = likeness[<<s, d>>] /\ c > d
NearestTo(s, S, n) == ToSet(First(S, n, LAMBDA c, d : CloserTo(s, c, d)))

\* Pairs of a source and an issue: how near the issue is, and to which source.
Nearness(c, pairs) == Max({likeness[p] : p \in {q \in pairs : q[2] = c}})
NearestSource(c, pairs) ==
    Max({p[1] : p \in {q \in pairs : q[2] = c /\ likeness[q] = Nearness(c, pairs)}})
Closer(c, d, pairs) ==
    \/ Nearness(c, pairs) > Nearness(d, pairs)
    \/ Nearness(c, pairs) = Nearness(d, pairs) /\ c > d
Nearest(pairs, n) == First({p[2] : p \in pairs}, n, LAMBDA c, d : Closer(c, d, pairs))

MoreImportant(c, d) ==
    Importance[c] > Importance[d] \/ (Importance[c] = Importance[d] /\ c > d)
NotableOf(c, S) == {i \in S \cap Notable : CategoryNumber[i] = c}
InOrder(c, S) == First(NotableOf(c, S), Cardinality(NotableOf(c, S)), MoreImportant)

\* Faulty variant: one row less, as if no related issue was ever notable.
RowsOfCategoryOneLess(c, S) ==
    ToSet(First(NotableOf(c, S), PerCategory - 1, MoreImportant))

\* major_ranked: the first rows of a category.
RowsOfCategory(c, S) == ToSet(First(NotableOf(c, S), PerCategory, MoreImportant))

\* The nearest rows of each source.
NearPairs(rows, sources) ==
    UNION {{s} \X NearestTo(s, rows \cap Embedded, PerSource) : s \in sources}

\* related_ids: the nearest to each source, and of these the nearest to any.
CandidateRows(eligible, sources) ==
    ToSet(Nearest(NearPairs(eligible, sources), TopRelated))
      \cup UNION {RowsOfCategory(c, eligible) : c \in ToSet(majorCategoryCodes)}

\* The rows are compared with the sources again, as they were read.
SelectRelated(rows, sources) ==
    LET pairs == NearPairs(rows, sources)
        nearest == Nearest(pairs, MaxRelated)
    IN  [k \in DOMAIN nearest |->
           [issue |-> nearest[k], source |-> NearestSource(nearest[k], pairs)]]

IssuesOf(related) == {related[k].issue : k \in DOMAIN related}

\* One of each category in turn, the most important first.
selectMajorIssues(rows, chosen) ==
    LET left == rows \ chosen
        cs == majorCategoryCodes
        places == {p \in (1..Cardinality(left)) \X (DOMAIN cs) : p[1] <= Len(InOrder(cs[p[2]], left))}
        turn(p, q) == p[1] < q[1] \/ (p[1] = q[1] /\ p[2] < q[2])
        turns == First(places, MaxMajor, turn)
    IN  [t \in DOMAIN turns |-> InOrder(cs[turns[t][2]], left)[turns[t][1]]]

CandidatesFrom(rows, sources) ==
    LET related == SelectRelated(rows, sources)
    IN  [related |-> related,
         major |-> selectMajorIssues(rows, IssuesOf(related)),
         unavailable |-> NearPairs(rows, sources) = {}]

-----------------------------------------------------------------------------
(* The execution.                                                          *)

GiveUpRun(retryable) ==
    run' = IF retryable /\ run.tries < MaxTries THEN NewRun(run.tries + 1)
           ELSE [NewRun(run.tries) EXCEPT !.pc = "Failed"]

\* captureCandidates, first query: sources that are published and embedded.
ReadSources ==
    /\ run.pc = "Sources"
    /\ stored.candidates = Nil
    /\ run' = [run EXCEPT !.pc = "Rows", !.sources = input \cap readable \cap Embedded]
    /\ UNCHANGED <<input, likeness, readable, actedOn, stored, get, shifts, capture>>

\* The rows are read by one query; what follows needs only them and vectors.
CaptureCandidates ==
    /\ run.pc = "Rows"
    /\ LET eligible == (readable \cap Further) \ actedOn
           found == CandidatesFrom(CandidateRows(eligible, run.sources), run.sources)
       IN  /\ stored' = [stored EXCEPT !.candidates = found]
           /\ run' = [run EXCEPT !.pc = "FirstLook", !.candidates = found]
           /\ capture' = [eligible |-> eligible, sources |-> run.sources]
    /\ UNCHANGED <<input, likeness, readable, actedOn, get, shifts>>

\* A later execution uses the candidates of the first.
UseStoredCandidates ==
    /\ run.pc = "Sources"
    /\ stored.candidates # Nil
    /\ run' = [run EXCEPT !.pc = "FirstLook", !.candidates = stored.candidates]
    /\ UNCHANGED <<input, likeness, readable, actedOn, stored, get, shifts, capture>>

Available(i, look) == i \in look.public /\ i \notin look.acted

Visible(candidates, look) ==
    LET relatedOf == candidates.related
        majorOf == candidates.major
        related == Entries(relatedOf, {k \in DOMAIN relatedOf : Available(relatedOf[k].issue, look)})
        major == Entries(majorOf, {k \in DOMAIN majorOf : Available(majorOf[k], look)})
    IN  [related |-> related, major |-> major,
         unavailable |-> \/ candidates.unavailable
                         \/ Len(related) # Len(candidates.related)
                         \/ Len(major) # Len(candidates.major)]

\* The two queries of visibility are sent together and answered in any order.
Looked(look) ==
    {l \in {[look EXCEPT !.public = readable], [look EXCEPT !.acted = actedOn]} :
        /\ look.public # Nil => l.public = look.public
        /\ look.acted # Nil => l.acted = look.acted} \ {look}
Seen(look) == look.public # Nil /\ look.acted # Nil

Looking == run.pc \in {"FirstLook", "SecondLook"}

Look ==
    /\ Looking /\ ~Seen(run.look)
    /\ \E l \in Looked(run.look) : run' = [run EXCEPT !.look = l]
    /\ UNCHANGED <<input, likeness, readable, actedOn, stored, get, shifts, capture>>

\* filterVisibleCandidates; the report ends when a source is withdrawn.
SourceMissing ==
    /\ Looking /\ Seen(run.look)
    /\ ~(input \subseteq run.look.public)
    /\ GiveUpRun(FALSE)
    /\ UNCHANGED <<input, likeness, readable, actedOn, stored, get, shifts, capture>>

FirstFilter ==
    /\ run.pc = "FirstLook" /\ Seen(run.look)
    /\ input \subseteq run.look.public
    /\ run' = [run EXCEPT !.pc = "Draft", !.look = Blind,
                          !.candidates = Visible(run.candidates, run.look)]
    /\ UNCHANGED <<input, likeness, readable, actedOn, stored, get, shifts, capture>>

-----------------------------------------------------------------------------
(* The draft of the provider, and what of it is taken.                     *)

EmptyDraft == [connections |-> <<>>, related |-> <<>>]
AllowConnections == Cardinality(input) >= Minimum
ShouldCallProvider == AllowConnections \/ run.candidates.related # <<>>

\* A connection names at least two input issues, none of them twice.
ValidConnection(c) == ToSet(c) \subseteq input /\ Len(c) >= 2 /\ IsInjective(c)

\* A related issue is a candidate, with the source it was captured for.
ValidRelated(r, candidates) == r \in ToSet(candidates.related)

validateReportDraft(d, candidates) ==
    /\ Len(d.connections) <= MaxConnections /\ Len(d.related) <= MaxRelated
    /\ d.connections # <<>> => AllowConnections
    /\ \A k \in DOMAIN d.connections : ValidConnection(d.connections[k])
    /\ \A k \in DOMAIN d.related : ValidRelated(d.related[k], candidates)
    /\ Cardinality(IssuesOf(d.related)) = Len(d.related)

WriteDraft ==
    /\ run.pc = "Draft"
    /\ \E d \in IF ShouldCallProvider THEN Drafts ELSE {EmptyDraft} :
         /\ validateReportDraft(d, run.candidates)
         /\ run' = [run EXCEPT !.pc = "SecondLook", !.draft = d]
    /\ UNCHANGED <<input, likeness, readable, actedOn, stored, get, shifts, capture>>

buildReportContent(candidates, d) ==
    [status |-> IF ~AllowConnections THEN "INSUFFICIENT_DATA"
                ELSE IF d.connections = <<>> THEN "NO_CONNECTION" ELSE "READY",
     connections |-> d.connections,
     evidence |-> (UNION {ToSet(d.connections[k]) : k \in DOMAIN d.connections}) \cap input,
     related |-> Entries(d.related,
                         {k \in DOMAIN d.related : d.related[k].issue \in IssuesOf(candidates.related)}),
     major |-> candidates.major,
     majorStatus |-> IF input = {} THEN "NO_INTEREST"
                     ELSE IF candidates.major = <<>> THEN "NO_CANDIDATES" ELSE "READY",
     recommendations |-> IF candidates.unavailable \/ input = {} THEN "PARTIAL" ELSE "READY"]

SecondFilter ==
    /\ run.pc = "SecondLook" /\ Seen(run.look)
    /\ input \subseteq run.look.public
    /\ run' = [run EXCEPT !.pc = "Complete",
                 !.content = buildReportContent(Visible(run.candidates, run.look), run.draft)]
    /\ UNCHANGED <<input, likeness, readable, actedOn, stored, get, shifts, capture>>

\* complete checks the content against the row.
validateReportContent(content, candidates) ==
    /\ IF content.status = "READY" THEN Len(content.connections) \in 1..MaxConnections
       ELSE content.connections = <<>>
    /\ content.evidence \subseteq input
    /\ \A k \in DOMAIN content.connections : ValidConnection(content.connections[k])
    /\ \A k \in DOMAIN content.related :
         /\ content.related[k].issue \in IssuesOf(candidates.related) \ input
         /\ content.related[k].source \in input
    /\ Cardinality(IssuesOf(content.related)) = Len(content.related)
    /\ Len(content.related) <= MaxRelated
    /\ ToSet(content.major) \subseteq ToSet(candidates.major) \ (input \cup IssuesOf(content.related))
    /\ IsInjective(content.major)
    /\ Len(content.major) <= MaxMajor

StoreContent ==
    /\ run.pc = "Complete"
    /\ IF ~validateReportContent(run.content, stored.candidates)
       THEN GiveUpRun(TRUE) /\ UNCHANGED stored
       ELSE IF ~(input \subseteq readable)
       THEN GiveUpRun(FALSE) /\ UNCHANGED stored
       ELSE /\ stored' = [stored EXCEPT !.content = run.content]
            /\ run' = [NewRun(run.tries) EXCEPT !.pc = "Succeeded"]
    /\ UNCHANGED <<input, likeness, readable, actedOn, get, shifts, capture>>

\* A query fails, the worker is stopped, no answer comes, or the draft is
\* refused by the checks or by the semantic validation.
RunError ==
    /\ run.pc \notin {"Failed", "Succeeded"}
    /\ GiveUpRun(TRUE)
    /\ UNCHANGED <<input, likeness, readable, actedOn, stored, get, shifts, capture>>

-----------------------------------------------------------------------------
(* The member reads the report.                                            *)

GetReport ==
    /\ get.pc = "idle"
    /\ stored.content # Nil
    /\ get' = [NoGet EXCEPT !.pc = "look", !.content = stored.content, !.before = readable]
    /\ UNCHANGED <<input, likeness, readable, actedOn, stored, run, shifts, capture>>

GetLook ==
    /\ get.pc = "look" /\ ~Seen(get.look)
    /\ \E l \in Looked(get.look) : get' = [get EXCEPT !.look = l]
    /\ UNCHANGED <<input, likeness, readable, actedOn, stored, run, shifts, capture>>

Answered(content, look) ==
    LET whole(k) == ToSet(content.connections[k]) \subseteq look.public
        advised(k) == /\ Available(content.related[k].issue, look)
                      /\ content.related[k].source \in look.public
        connections == Entries(content.connections, {k \in DOMAIN content.connections : whole(k)})
        evidence == content.evidence \cap look.public
        related == Entries(content.related, {k \in DOMAIN content.related : advised(k)})
        major == Entries(content.major, {k \in DOMAIN content.major : Available(content.major[k], look)})
    IN  [connections |-> connections, evidence |-> evidence, related |-> related, major |-> major,
         partial |-> \/ Len(connections) # Len(content.connections)
                     \/ evidence # content.evidence
                     \/ Len(related) # Len(content.related)
                     \/ Len(major) # Len(content.major)]

GetAnswer ==
    /\ get.pc = "look" /\ Seen(get.look)
    /\ get' = [get EXCEPT !.pc = "done", !.answer = Answered(get.content, get.look)]
    /\ UNCHANGED <<input, likeness, readable, actedOn, stored, run, shifts, capture>>

-----------------------------------------------------------------------------
(* What happens meanwhile.                                                 *)

Shift == shifts < MaxShifts /\ shifts' = shifts + 1

WithdrawReadable(i) ==
    /\ i \in readable
    /\ Shift
    /\ readable' = readable \ {i}
    /\ UNCHANGED <<input, likeness, actedOn, stored, run, get, capture>>

\* The report's member acts on an issue; the input issues are acted on anyway.
ActOnIssue(i) ==
    /\ i \in (readable \cap Further) \ actedOn
    /\ Shift
    /\ actedOn' = actedOn \cup {i}
    /\ UNCHANGED <<input, likeness, readable, stored, run, get, capture>>

ContentNext ==
    \/ ReadSources \/ CaptureCandidates \/ UseStoredCandidates
    \/ Look \/ SourceMissing \/ FirstFilter \/ WriteDraft \/ SecondFilter
    \/ StoreContent \/ RunError
    \/ GetReport \/ GetLook \/ GetAnswer
    \/ \E i \in input \cup Further : WithdrawReadable(i) \/ ActOnIssue(i)

ContentSpec == ContentInit /\ [][ContentNext]_contentVars

-----------------------------------------------------------------------------
(* Properties.                                                             *)

ContentTypeOK ==
    /\ input \in Inputs /\ readable \subseteq Sources \cup Further /\ actedOn \subseteq Further
    /\ run.tries \in 1..MaxTries /\ shifts \in 0..MaxShifts
    /\ get.pc \in {"idle", "look", "done"}

\* The limits on the rows read lose nothing: the candidates are those chosen
\* from all that was eligible, the nearest of all and, of the rest, the most
\* important of each top category in turn.
CandidatesAreBest ==
    stored.candidates # Nil =>
        LET S == capture.eligible
            sources == capture.sources
            all == Nearest(sources \X (S \cap Embedded), MaxRelated)
        IN  /\ [k \in DOMAIN stored.candidates.related |-> stored.candidates.related[k].issue] = all
            /\ stored.candidates.major = selectMajorIssues(S, ToSet(all))

\* What the worker has accepted and paid for is never refused by complete,
\* whatever was withdrawn or acted upon since the candidates were captured.
AcceptedIsStorable ==
    run.pc = "Complete" => validateReportContent(run.content, stored.candidates)

\* What the draft recommends and the worker no longer sees is left out.
RecommendsAvailable ==
    run.pc = "Complete" =>
        \A i \in IssuesOf(run.content.related) \cup ToSet(run.content.major) :
            Available(i, run.look)

\* A member is shown no issue that was withdrawn before the question was asked,
\* nor one recommended for such an issue, and is told if something is missing.
AnswerIsPublic ==
    get.pc = "done" =>
        LET a == get.answer
            shown == (UNION {ToSet(a.connections[k]) : k \in DOMAIN a.connections})
                       \cup a.evidence \cup IssuesOf(a.related) \cup ToSet(a.major)
                       \cup {a.related[k].source : k \in DOMAIN a.related}
        IN  /\ shown \subseteq get.before
            /\ shown \cap input \subseteq a.evidence \cup {a.related[k].source : k \in DOMAIN a.related}
            /\ ~a.partial => ToSet(a.major) = ToSet(get.content.major)
                             /\ a.related = get.content.related

\* The five together: from the capture to the answer (processClaim, complete and
\* ReportService.get).
ReportContentSound ==
    /\ ContentTypeOK
    /\ CandidatesAreBest
    /\ AcceptedIsStorable
    /\ RecommendsAvailable
    /\ AnswerIsPublic
=============================================================================
