---------------------------- MODULE ArticleFetch ----------------------------
(***************************************************************************)
(* How the batch searches for articles, which is one request, and fetches  *)
(* the text of one.  The URL of an article is checked and its name         *)
(* resolved; the addresses that were found are asked in turn until one     *)
(* answers; an answer that redirects starts the next hop, where all is     *)
(* checked anew; and the body is read up to a limit.  Each request has a   *)
(* time limit of its own, that goes on after the header of the answer has  *)
(* arrived: until the connection is closed.                                *)
(*                                                                         *)
(* What the network does is chosen freely.  A URL is known by whether it   *)
(* is allowed and whether its host is an address; an address by whether it *)
(* is public, that is outside the blocked ranges of both families; a text  *)
(* by its length.                                                          *)
(***************************************************************************)
EXTENDS Integers, Sequences, FiniteSets, FiniteSetsExt, SequencesExt

CONSTANTS
    Server, PublicServer,
    MaxHops,            \* MAX_ARTICLE_REDIRECT_HOPS
    MaxBytes,           \* MAX_ARTICLE_BODY_BYTES
    MinText,            \* MIN_ARTICLE_BODY_LENGTH
    MaxAddresses, MaxChunk   \* bounds of what the network sends

ASSUME FetchAssumption ==
    /\ PublicServer \subseteq Server
    /\ {MaxHops, MaxBytes, MinText, MaxAddresses, MaxChunk} \subseteq Nat

VARIABLES
    pc,         \* of the caller: fetch, and what it has called
    url,        \* currentUrl
    hop,
    queue,      \* addresses that are still to be asked
    asked,      \* history: requests, by hop and address
    verified,   \* history: addresses that were found public, by hop
    open,       \* requests whose connection is open
    timed,      \* requests whose time limit is armed
    answer,     \* response
    total,      \* totalBytes
    result

fetchVars == <<pc, url, hop, queue, asked, verified, open, timed, answer, total, result>>

\* An allowed URL with a name, one whose host is an address, or one with
\* another scheme or port or with credentials.
Url == {"name", "other"} \cup Server

\* Results: a text, or an exception with its two hints.
Failure(code, retryable, uncertain) ==
    [code |-> code, retryable |-> retryable, uncertain |-> uncertain]
Unavailable == Failure("SOURCE_UNAVAILABLE", FALSE, FALSE)
Interrupted == Failure("UPSTREAM_ERROR", TRUE, TRUE)
None == [code |-> "none"]
NoAnswer == [status |-> "none", html |-> FALSE, declared |-> 0]

\* A redirect, a status that says try again (429, 5xx), any other refusal.
StatusClass == {"ok", "redirect", "busy", "refused"}

Now == [hop |-> hop, address |-> queue[1]]
Ends(what) == pc' = "end" /\ result' = what

FetchInit ==
    /\ \/ pc = "check" /\ url \in Url
       \/ pc = "search" /\ url = "name"
    /\ hop = 0 /\ queue = <<>>
    /\ asked = {} /\ verified = {} /\ open = {} /\ timed = {}
    /\ answer = NoAnswer /\ total = 0 /\ result = None

-----------------------------------------------------------------------------
(* search.  Results are the articles that are found, whatever they are.    *)

Search(configured) ==
    /\ pc = "search"
    /\ IF configured THEN pc' = "hits" /\ UNCHANGED result
                     ELSE Ends(Failure("UPSTREAM_ERROR", FALSE, FALSE))
    /\ UNCHANGED <<url, hop, queue, asked, verified, open, timed, answer, total>>

fetchOnceFails ==
    /\ pc = "hits"
    /\ Ends(Interrupted)
    /\ UNCHANGED <<url, hop, queue, asked, verified, open, timed, answer, total>>

\* The body of an answer breaks off, or is not what is expected.
readJsonBody(broken, valid) ==
    IF broken THEN Interrupted
    ELSE IF valid THEN [code |-> "HITS"] ELSE Failure("INVALID_OUTPUT", FALSE, FALSE)

\* fetch follows redirects.
SearchAnswered(status, broken, valid) ==
    /\ pc = "hits" /\ status # "redirect"
    /\ answer' = [NoAnswer EXCEPT !.status = status]
    /\ Ends(CASE status = "busy" -> Failure("UPSTREAM_ERROR", TRUE, FALSE)
              [] status = "refused" -> Unavailable
              [] OTHER -> readJsonBody(broken, valid))
    /\ UNCHANGED <<url, hop, queue, asked, verified, open, timed, total>>

-----------------------------------------------------------------------------
(* assertPublicArticleUrl.                                                 *)

isPublicIpAddress(a) == a \in PublicServer

\* The host is an address: it is asked if it is public.
CheckAddress ==
    /\ pc = "check" /\ url \in Server
    /\ IF isPublicIpAddress(url)
       THEN /\ pc' = "ask" /\ queue' = <<url>>
            /\ verified' = verified \cup {[hop |-> hop, address |-> url]}
            /\ UNCHANGED result
       ELSE Ends(Unavailable) /\ UNCHANGED <<queue, verified>>
    /\ UNCHANGED <<url, hop, asked, open, timed, answer, total>>

isAllowedExternalUrl == url # "other"

RefuseUrl ==
    /\ pc = "check" /\ ~isAllowedExternalUrl
    /\ Ends(Unavailable)
    /\ UNCHANGED <<url, hop, queue, asked, verified, open, timed, answer, total>>

\* The name has addresses, or none: one that is not public spoils them all.
Resolve(found) ==
    /\ pc = "check" /\ url = "name"
    /\ IF found # <<>> /\ \A a \in ToSet(found) : isPublicIpAddress(a)
       THEN /\ pc' = "ask" /\ queue' = found
            /\ verified' = verified \cup {[hop |-> hop, address |-> a] : a \in ToSet(found)}
            /\ UNCHANGED result
       ELSE Ends(Unavailable) /\ UNCHANGED <<queue, verified>>
    /\ UNCHANGED <<url, hop, asked, open, timed, answer, total>>

\* EAI_AGAIN and ETIMEDOUT, which is also what withTimeout says, are tried again.
ResolveFails(transient) ==
    /\ pc = "check" /\ url = "name"
    /\ Ends(IF transient THEN Interrupted ELSE Unavailable)
    /\ UNCHANGED <<url, hop, queue, asked, verified, open, timed, answer, total>>

-----------------------------------------------------------------------------
(* requestPinnedArticle, and the loop over the addresses.                  *)

Ask ==
    /\ pc = "ask"
    /\ asked' = asked \cup {Now}
    /\ open' = open \cup {Now} /\ timed' = timed \cup {Now}
    /\ pc' = "wait"
    /\ UNCHANGED <<url, hop, queue, verified, answer, total, result>>

\* fail: an error before the header; the time limit causes one.  The next
\* address is asked; the error of the last one is that of the article.
AddressFails ==
    /\ pc = "wait"
    /\ open' = open \ {Now} /\ timed' = timed \ {Now}
    /\ queue' = Tail(queue)
    /\ IF Len(queue) > 1 THEN pc' = "ask" /\ UNCHANGED result ELSE Ends(Interrupted)
    /\ UNCHANGED <<url, hop, asked, verified, answer, total>>

\* The header arrives; a connection may close with it.
Respond(status, html, declared) ==
    /\ pc = "wait"
    /\ answer' = [status |-> status, html |-> html, declared |-> declared]
    /\ total' = 0
    /\ pc' = IF status = "redirect" THEN "redirect" ELSE "header"
    /\ UNCHANGED <<url, hop, queue, asked, verified, open, timed, result>>

Close(what) == open' = open \ {what} /\ timed' = timed \ {what}

\* The body is cancelled, and the next URL taken from the header.
Redirect(location) ==
    /\ pc = "redirect"
    /\ Close(Now)
    /\ IF hop >= MaxHops \/ location = "none"
       THEN Ends(Unavailable) /\ UNCHANGED <<url, hop, queue>>
       ELSE /\ pc' = "check" /\ url' = location /\ hop' = hop + 1 /\ queue' = <<>>
            /\ UNCHANGED result
    /\ answer' = NoAnswer
    /\ UNCHANGED <<asked, verified, total>>

-----------------------------------------------------------------------------
(* fetch, after the answer.                                                *)

\* The answers whose body is not read: it is left to the time limit.
HeaderFailure(a) ==
    IF a.status = "busy" THEN Failure("UPSTREAM_ERROR", TRUE, FALSE)
    ELSE IF a.status = "refused" \/ ~a.html THEN Unavailable
    ELSE None

\* The declared length is only looked at by readResponseText.
ReadHeader ==
    /\ pc = "header"
    /\ LET failure == HeaderFailure(answer) IN
       IF failure # None THEN Ends(failure)
       ELSE IF answer.declared > MaxBytes THEN Ends(Unavailable)
       ELSE pc' = "body" /\ UNCHANGED result
    /\ UNCHANGED <<url, hop, queue, asked, verified, open, timed, answer, total>>

\* Faulty variant: the size is only tested when the body has ended.
ChunkUntested(bytes) ==
    /\ pc = "body" /\ total <= MaxBytes + MaxChunk
    /\ total' = total + bytes
    /\ UNCHANGED <<pc, url, hop, queue, asked, verified, open, timed, answer, result>>

Chunk(bytes) ==
    /\ pc = "body"
    /\ total' = total + bytes
    /\ IF total' > MaxBytes
       THEN Ends(Unavailable) /\ Close(Now)
       ELSE UNCHANGED <<pc, result, open, timed>>
    /\ UNCHANGED <<url, hop, queue, asked, verified, answer>>

\* extractArticleText: the longest block if one is long enough, else the longest
\* of all and of the whole page.
extractArticleText(blocks, page) ==
    LET viable == {b \in blocks : b >= MinText} IN
    IF viable # {} THEN Max(viable) ELSE Max(blocks \cup {page})

\* The end of the body; blocks and page are what its markup holds.
BodyEnds(blocks, page) ==
    /\ pc = "body"
    /\ Close(Now)
    /\ LET text == extractArticleText(blocks, page) IN
       Ends(IF text < MinText THEN Unavailable ELSE [code |-> "TEXT", length |-> text])
    /\ UNCHANGED <<url, hop, queue, asked, verified, answer, total>>

BodyBreaks ==
    /\ pc = "body"
    /\ Close(Now)
    /\ Ends(Interrupted)
    /\ UNCHANGED <<url, hop, queue, asked, verified, answer, total>>

\* onAbort, for a request whose answer nobody reads (BodyBreaks and AddressFails
\* are what it does to one that is waited for).
TimesOut(r) ==
    /\ r \in timed /\ pc = "end"
    /\ Close(r)
    /\ UNCHANGED <<pc, url, hop, queue, asked, verified, answer, total, result>>

FetchNext ==
    \/ \E configured \in BOOLEAN : Search(configured)
    \/ fetchOnceFails
    \/ \E status \in StatusClass, broken, valid \in BOOLEAN :
         SearchAnswered(status, broken, valid)
    \/ CheckAddress \/ RefuseUrl
    \/ \E found \in UNION {[1..n -> Server] : n \in 0..MaxAddresses} :
         IsInjective(found) /\ Resolve(found)
    \/ \E transient \in BOOLEAN : ResolveFails(transient)
    \/ Ask \/ AddressFails
    \/ \E status \in StatusClass, html \in BOOLEAN, declared \in {0, MaxBytes + 1} :
         Respond(status, html, declared)
    \/ \E location \in Url \cup {"none"} : Redirect(location)
    \/ ReadHeader
    \/ \E bytes \in 1..MaxChunk : Chunk(bytes)
    \/ \E page \in 0..total : \E blocks \in SUBSET (1..page) : BodyEnds(blocks, page)
    \/ BodyBreaks
    \/ \E r \in timed : TimesOut(r)

FetchSpec == FetchInit /\ [][FetchNext]_fetchVars

-----------------------------------------------------------------------------
(* Properties.                                                             *)

\* A request goes to an address that was found public for the URL of its own hop,
\* though the same name may resolve to others at a later hop.
RequestsAreChecked == asked \subseteq verified

\* An open connection has a time limit and, while the article is fetched, it is
\* that of the request that is waited for: no hop and no address leaves one.
ConnectionsAreTimed ==
    /\ open \subseteq timed
    /\ Cardinality(open) <= 1
    /\ pc # "end" => open \subseteq IF queue = <<>> THEN {} ELSE {Now}

\* Each public address of each hop is asked at most until one answers, and what
\* failed on the network is asked everywhere before the article is given up.
AddressesAreExhausted ==
    /\ \A r \in asked : r.hop <= MaxHops
    /\ result = Interrupted /\ answer = NoAnswer /\ queue = <<>> =>
         \A c \in verified : c.hop = hop => c \in asked

\* A text is as long as an article and was read within the limit.  A call that
\* is made again is one that the network or the other side asks to repeat; it is
\* uncertain when no answer was read to its end.
ResultIsRight ==
    /\ total <= MaxBytes + MaxChunk
    /\ result.code = "TEXT" =>
         /\ result.length >= MinText /\ result.length <= total /\ total <= MaxBytes
         /\ answer.status = "ok" /\ answer.html /\ answer.declared <= MaxBytes
    /\ result.code = "UPSTREAM_ERROR" =>
         \/ result.retryable /\ result.uncertain = (answer.status # "busy")
         \/ ~result.retryable /\ ~result.uncertain /\ answer = NoAnswer /\ asked = {}

\* All of them.
FetchSound ==
    RequestsAreChecked /\ ConnectionsAreTimed /\ AddressesAreExhausted /\ ResultIsRight
=============================================================================
