----------------------------- MODULE RateLimit -----------------------------
(***************************************************************************)
(* The request limiter of one API process: token buckets in a store of     *)
(* bounded size, and the two middlewares that draw on it.  A request is    *)
(* charged to its address, then to its address and route, and a login or a *)
(* sign-up, once its body is read, to its account.  Health checks are not  *)
(* charged and not modelled.                                               *)
(*                                                                         *)
(* Time is in ticks of which Window make the window; tokens are counted in *)
(* Window-ths, so that a tick refills as many of these as the rule has     *)
(* tokens.  The clock does not go back: Date.now may, and the limiter then *)
(* grants nothing, but takes the wrong bucket for the oldest.              *)
(***************************************************************************)
EXTENDS Naturals, Sequences, FiniteSets, SequencesExt, FiniteSetsExt, Ranked

CONSTANTS
    Address,         \* client addresses
    Account,         \* accounts that are logged in to
    MaxRequests,     \* RATE_LIMIT_*_MAX_REQUESTS: [Rule -> tokens]
    Window,          \* RATE_LIMIT_WINDOW_MS
    MaxKeys,         \* RATE_LIMIT_MAX_KEYS
    IdleTtl,         \* RATE_LIMIT_IDLE_TTL_MS
    CleanupEvery,    \* the interval of cleanups
    MaxTick          \* bound on the clock

Rule == {"global-ip", "auth-ip", "auth-account"}
Bucket == ({"global-ip", "auth-ip"} \X Address) \cup ({"auth-account"} \X Account)

\* By default 120 s idle and a window of 60 s, but each is read from a variable
\* of its own: nothing makes the idle time as long as the window.
ASSUME RateLimitAssumption ==
    /\ MaxRequests \in [Rule -> Nat \ {0}]
    /\ Window \in Nat \ {0} /\ MaxKeys \in Nat \ {0}
    /\ IdleTtl \in Nat \ {0} /\ CleanupEvery \in Nat
    /\ MaxTick \in Nat

VARIABLES
    tick,       \* the clock
    cleaned,    \* lastCleanupAtMs
    store,      \* states: the buckets in use, the one used last at the end
    reading,    \* requests whose body is being read: <<address, account>>
    due,        \* history: the tokens of each bucket, but for what is written off
    used,       \* history: when each bucket was used last
    rivals      \* history: the other buckets used since

limitVars == <<tick, cleaned, store, reading, due, used, rivals>>

Full(b) == MaxRequests[b[1]] * Window
Refilled(b, tokens, since) == Min({Full(b), tokens + (tick - since) * MaxRequests[b[1]]})
Present(b) == \E k \in DOMAIN store : store[k].bucket = b
Entry(b) == CHOOSE e \in ToSet(store) : e.bucket = b

LimitInit ==
    /\ tick = 0
    /\ cleaned = 0
    /\ store = <<>>
    /\ reading = {}
    /\ due = [b \in Bucket |-> Full(b)]
    /\ used = [b \in Bucket |-> 0]
    /\ rivals = [b \in Bucket |-> {}]

-----------------------------------------------------------------------------
(* InMemoryRateLimitStore.                                                 *)

\* cleanup
Cleanup(s) ==
    IF tick - cleaned < CleanupEvery THEN s
    ELSE Entries(s, {k \in DOMAIN s : tick - s[k].at < IdleTtl})

\* Faulty variant: the bucket used last goes.
EvictLast(s) == IF Len(s) < MaxKeys THEN s ELSE Front(s)

\* evictIfFull: of the buckets used longest ago, the one before the others.
EvictIfFull(s) ==
    IF Len(s) < MaxKeys THEN s
    ELSE LET oldest == Min({s[k].at : k \in DOMAIN s})
         IN  Entries(s, DOMAIN s \ {Min({k \in DOMAIN s : s[k].at = oldest})})

\* consume: the store afterwards, with the bucket last.
Consume(s, b) ==
    LET kept == Cleanup(s)
        found == {e \in ToSet(kept) : e.bucket = b}
        before == IF found = {} THEN Full(b)
                  ELSE LET e == CHOOSE x \in found : TRUE IN Refilled(b, e.tokens, e.at)
        rest == IF found = {} THEN EvictIfFull(kept)
                ELSE Entries(kept, {k \in DOMAIN kept : kept[k].bucket # b})
        allowed == before >= Window
    IN  [store |-> Append(rest, [bucket |-> b, at |-> tick,
                                 tokens |-> IF allowed THEN before - Window ELSE before]),
         allowed |-> allowed]

\* History: what is due to a bucket that had these tokens.  What it lacks is
\* written off once MaxKeys others have been used since ...
DueAfter(b, tokens, since) ==
    IF Cardinality(rivals[b] \cup since) >= MaxKeys THEN Full(b)
    ELSE Refilled(b, tokens, used[b])
Due(b) == DueAfter(b, due[b], {})

\* ... and by a cleanup that finds it idle.
IdleBucket(b) == tick - used[b] >= IdleTtl
Owed(b) == IF tick - cleaned >= CleanupEvery /\ IdleBucket(b) THEN Full(b) ELSE due[b]

\* The buckets of a request, in order, until one refuses it.
Spend(w, b) ==
    IF ~w.allowed THEN w
    ELSE [store |-> Consume(w.store, b).store,
          allowed |-> Consume(w.store, b).allowed,
          spent |-> Append(w.spent, b)]
Charged(bs) == FoldLeft(Spend, [store |-> store, allowed |-> TRUE, spent |-> <<>>], bs)

Charge(charged) ==
    LET spent == ToSet(charged.spent)
        before(b) == {charged.spent[k] : k \in {n \in DOMAIN charged.spent :
                         \E j \in DOMAIN charged.spent : n < j /\ charged.spent[j] = b}}
        now(b) == DueAfter(b, Owed(b), before(b))
        after(b) == {charged.spent[k] : k \in {n \in DOMAIN charged.spent :
                         \E j \in 1..(n - 1) : charged.spent[j] = b}}
    IN  /\ store' = charged.store
        /\ cleaned' = IF tick - cleaned < CleanupEvery THEN cleaned ELSE tick
        /\ due' = [b \in Bucket |-> IF b \notin spent THEN Owed(b)
                                    ELSE IF now(b) >= Window THEN now(b) - Window ELSE now(b)]
        /\ used' = [b \in Bucket |-> IF b \in spent THEN tick ELSE used[b]]
        /\ rivals' = [b \in Bucket |-> IF b \in spent THEN after(b) ELSE rivals[b] \cup spent]

-----------------------------------------------------------------------------
(* The middlewares.                                                        *)

\* createRateLimitMiddleware: a route without a rule of its own.
PlainRequest(a) ==
    /\ Charge(Charged(<<<<"global-ip", a>>>>))
    /\ UNCHANGED <<tick, reading>>

\* The same, a route of the authentication group; an allowed login goes on to
\* have its body read.
AuthRequest(a) ==
    LET charged == Charged(<<<<"global-ip", a>>, <<"auth-ip", a>>>>) IN
    /\ Charge(charged)
    /\ reading' \in {reading}
         \cup (IF charged.allowed THEN {reading \cup {<<a, u>>} : u \in Account} ELSE {})
    /\ UNCHANGED tick

\* createAuthAccountRateLimitMiddleware
AccountRequest(r) ==
    /\ r \in reading
    /\ Charge(Charged(<<<<"auth-account", r[2]>>>>))
    /\ reading' = reading \ {r}
    /\ UNCHANGED tick

Tick ==
    /\ tick < MaxTick
    /\ tick' = tick + 1
    /\ UNCHANGED <<cleaned, store, reading, due, used, rivals>>

LimitNext ==
    \/ \E a \in Address : PlainRequest(a) \/ AuthRequest(a)
    \/ \E r \in reading : AccountRequest(r)
    \/ Tick

LimitSpec == LimitInit /\ [][LimitNext]_limitVars

-----------------------------------------------------------------------------
(* Properties.                                                             *)

LimitTypeOK ==
    /\ tick \in 0..MaxTick /\ cleaned \in 0..tick
    /\ Len(store) <= MaxKeys
    /\ \A k \in DOMAIN store :
         /\ store[k].bucket \in Bucket /\ store[k].at \in 0..tick
         /\ store[k].tokens \in 0..Full(store[k].bucket)
         /\ \A j \in DOMAIN store : store[j].bucket = store[k].bucket => j = k
    /\ reading \subseteq Address \X Account

Tokens(b) == IF Present(b) THEN Refilled(b, Entry(b).tokens, Entry(b).at) ELSE Full(b)

\* No bucket holds more than it would in a store that drops nothing: the eviction
\* of a bucket renews no allowance, unless as many others as the store holds have
\* been used since, nor does a cleanup, but for the idle ones (consume).
AllowanceIsKept == \A b \in Bucket : Tokens(b) <= Due(b)

\* What is written off for being idle is at most what is refilled in the time that
\* RATE_LIMIT_IDLE_TTL_MS falls short of the window: nothing with the defaults.
IdleGivesLittle ==
    \A b \in Bucket :
        IdleBucket(b) => Full(b) <= Refilled(b, due[b], used[b])
                              + (Window - Min({IdleTtl, Window})) * MaxRequests[b[1]]

\* The store keeps to its capacity, and to the allowances.
LimitHolds == LimitTypeOK /\ AllowanceIsKept /\ IdleGivesLittle
=============================================================================
