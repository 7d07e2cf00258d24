--------------------------- MODULE RequestProofs ---------------------------
(***************************************************************************)
(* What requests to the API rest on, for every number of addresses and     *)
(* accounts, of issues that are liked and of candidates.  The limiter      *)
(* renews no allowance by what it drops.  A walk through the liked issues  *)
(* shows none twice and misses none that lasts.  The candidates found for  *)
(* a batch are all there are when they are fewer than the limit, and every *)
(* slice is served.  And what a report is made from and says, for every    *)
(* input snapshot, similarity of the issues, draft of the provider and     *)
(* limit on the rows that are read.                                        *)
(***************************************************************************)
EXTENDS RateLimit, LikedIssues, CandidatePool, ReportContent, SetLemmas

-----------------------------------------------------------------------------
(* Tokens.                                                                 *)

Held == [bucket : Bucket, at : Nat, tokens : Nat]

RefillAt(now, b, tokens, since) ==
    Min({Full(b), tokens + (now - since) * MaxRequests[b[1]]})

\* What is assumed of the limits, as numbers.
LEMMA LimitConstants ==
    /\ Window \in Nat /\ Window > 0 /\ MaxKeys \in Nat /\ MaxKeys > 0
    /\ CleanupEvery \in Nat /\ IdleTtl \in Nat /\ IdleTtl > 0 /\ MaxTick \in Nat
    /\ \A b \in Bucket : /\ b[1] \in Rule /\ MaxRequests[b[1]] \in Nat
                         /\ MaxRequests[b[1]] > 0 /\ Full(b) \in Nat
<1>1. \A b \in Bucket : b[1] \in Rule
  BY DEF Bucket, Rule
<1>2. \A b \in Bucket : MaxRequests[b[1]] \in Nat /\ MaxRequests[b[1]] > 0
  BY <1>1, RateLimitAssumption
<1>3. \A m, w \in Nat : m * w \in Nat
  OBVIOUS
<1>4. \A b \in Bucket : Full(b) \in Nat
  BY <1>2, <1>3, RateLimitAssumption DEF Full
<1>5. QED
  BY <1>1, <1>2, <1>4, RateLimitAssumption

\* A product grows with its factor.
LEMMA LargerFactor ==
    ASSUME NEW x \in Nat, NEW y \in Nat, x <= y, NEW m \in Nat
    PROVE  x * m \in Nat /\ y * m \in Nat /\ x * m <= y * m
<1>1. PICK z \in Nat : y = x + z
  <2>1. y - x \in Nat /\ y = x + (y - x)
    OBVIOUS
  <2>2. QED
    BY <2>1
<1>2. y * m = x * m + z * m
  BY <1>1
<1>3. x * m \in Nat /\ z * m \in Nat
  OBVIOUS
<1>4. QED
  BY <1>2, <1>3

\* What is refilled stays within the rule, grows with the time, and is all of
\* it after a window.
LEMMA RefillIs ==
    ASSUME NEW b \in Bucket, NEW tokens \in Nat, NEW now \in Nat, NEW since \in Nat, since <= now
    PROVE  /\ RefillAt(now, b, tokens, since) \in Nat
           /\ RefillAt(now, b, tokens, since) <= Full(b)
           /\ now - since >= Window => RefillAt(now, b, tokens, since) = Full(b)
           /\ RefillAt(now, b, tokens, since) = Full(b)
                => RefillAt(now + 1, b, tokens, since) = Full(b)
<1> DEFINE m == MaxRequests[b[1]]
           more(t) == tokens + (t - since) * m
           full == Full(b)
<1>1. /\ m \in Nat /\ Window \in Nat /\ full = m * Window /\ full \in Nat
  BY LimitConstants DEF Full
<1>2. now - since \in Nat /\ (now + 1) - since \in Nat /\ now - since <= (now + 1) - since
  OBVIOUS
<1> HIDE DEF m, full
<1>3. /\ (now - since) * m \in Nat /\ ((now + 1) - since) * m \in Nat
      /\ (now - since) * m <= ((now + 1) - since) * m
  BY <1>1, <1>2, LargerFactor
<1>4. now - since >= Window => Window * m <= (now - since) * m
  BY <1>1, <1>2, LargerFactor
<1>5. Window * m = m * Window
  BY <1>1
<1>6. more(now) \in Nat /\ more(now + 1) \in Nat /\ more(now) <= more(now + 1)
  BY <1>3
<1>7. now - since >= Window => full <= more(now)
  BY <1>1, <1>3, <1>4, <1>5
<1>8. /\ RefillAt(now, b, tokens, since) = Min({full, more(now)})
      /\ RefillAt(now + 1, b, tokens, since) = Min({full, more(now + 1)})
  BY DEF RefillAt, full, m
<1> HIDE DEF more
<1>9. /\ RefillAt(now, b, tokens, since) = IF full <= more(now) THEN full ELSE more(now)
      /\ RefillAt(now + 1, b, tokens, since) = IF full <= more(now + 1) THEN full ELSE more(now + 1)
  BY <1>1, <1>6, <1>8, LesserOf
<1>10. QED
  BY <1>1, <1>6, <1>7, <1>9 DEF full

\* A full bucket stays full.
LEMMA FullStays ==
    ASSUME NEW b \in Bucket, NEW now \in Nat, NEW since \in Nat, since <= now
    PROVE  RefillAt(now, b, Full(b), since) = Full(b)
<1> DEFINE m == MaxRequests[b[1]]
           full == Full(b)
           n == now - since
<1>1. m \in Nat /\ full \in Nat /\ n \in Nat
  BY LimitConstants
<1>2. RefillAt(now, b, full, since) = Min({full, full + n * m})
  BY DEF RefillAt
<1> HIDE DEF m, full, n
<1> DEFINE more == full + n * m
<1>3. more \in Nat /\ full <= more
  BY <1>1
<1> HIDE DEF more
<1>4. Min({full, more}) = full
  BY <1>1, <1>3, LesserOf
<1>5. QED
  BY <1>2, <1>4 DEF full, more

-----------------------------------------------------------------------------
(* A store that keeps to the allowances: what is in it is all that its      *)
(* history says, and what is not in it has won back its allowance.          *)

DueAt(now, du, us, ri, b) ==
    IF Cardinality(ri[b]) >= MaxKeys THEN Full(b) ELSE RefillAt(now, b, du[b], us[b])

Ordered(now, s) ==
    /\ s \in Seq(Held)
    /\ \A k \in 1 .. Len(s) : s[k].at <= now /\ s[k].tokens <= Full(s[k].bucket)
    /\ \A j, k \in 1 .. Len(s) : j < k => s[j].at <= s[k].at /\ s[j].bucket # s[k].bucket

Histories(now, du, us, ri) ==
    /\ du \in [Bucket -> Nat] /\ us \in [Bucket -> Nat] /\ ri \in [Bucket -> SUBSET Bucket]
    /\ \A b \in Bucket : du[b] <= Full(b) /\ us[b] <= now /\ IsFiniteSet(ri[b])

\* The buckets that were used after the one at place k.
Later(s, k) == {s[j].bucket : j \in {i \in 1 .. Len(s) : k < i}}

Agrees(s, du, us, ri) ==
    \A k \in 1 .. Len(s) :
        /\ du[s[k].bucket] = s[k].tokens
        /\ us[s[k].bucket] = s[k].at
        /\ ri[s[k].bucket] = Later(s, k)

Restored(now, s, du, us, ri) ==
    \A b \in Bucket : (\A k \in 1 .. Len(s) : s[k].bucket # b) => DueAt(now, du, us, ri, b) = Full(b)

Sound(now, s, du, us, ri) ==
    /\ Ordered(now, s) /\ Len(s) <= MaxKeys
    /\ Histories(now, du, us, ri)
    /\ Agrees(s, du, us, ri)
    /\ Restored(now, s, du, us, ri)

\* What it is for a store to be in order.
LEMMA OrderedFacts ==
    ASSUME NEW now, NEW s, Ordered(now, s)
    PROVE  /\ Len(s) \in Nat /\ DOMAIN s = 1 .. Len(s)
           /\ \A k \in 1 .. Len(s) :
                /\ s[k] \in Held /\ s[k].bucket \in Bucket
                /\ s[k].at \in Nat /\ s[k].tokens \in Nat
           /\ \A j, k \in 1 .. Len(s) : s[j].bucket = s[k].bucket => j = k
<1>1. Len(s) \in Nat /\ DOMAIN s = 1 .. Len(s) /\ \A k \in 1 .. Len(s) : s[k] \in Held
  BY LenProperties DEF Ordered
<1>2. \A k \in 1 .. Len(s) : s[k].bucket \in Bucket /\ s[k].at \in Nat /\ s[k].tokens \in Nat
  BY <1>1 DEF Held
<1>3. ASSUME NEW j \in 1 .. Len(s), NEW k \in 1 .. Len(s), s[j].bucket = s[k].bucket
      PROVE  j = k
  <2>1. ~(j < k) /\ ~(k < j)
    BY <1>3 DEF Ordered
  <2>2. QED
    BY <1>1, <2>1
<1>4. QED
  BY <1>1, <1>2, <1>3

\* So many were used later as there are places behind.
LEMMA LaterMany ==
    ASSUME NEW now, NEW s, Ordered(now, s), NEW k \in 1 .. Len(s)
    PROVE  IsFiniteSet(Later(s, k)) /\ Cardinality(Later(s, k)) = Len(s) - k
<1> DEFINE l == Len(s)
           behind == (k + 1) .. l
           f == [i \in behind |-> s[i].bucket]
<1>0. l \in Nat /\ k \in 1 .. l
  BY OrderedFacts
<1>1. behind = {i \in 1 .. l : k < i}
  <2> HIDE DEF l
  <2>1. QED
    BY <1>0
<1>2. Later(s, k) = {s[j].bucket : j \in behind}
  BY <1>1 DEF Later
<1>3. IsFiniteSet(behind) /\ Cardinality(behind) = l - k
  <2> DEFINE m == k + 1
  <2> HIDE DEF l
  <2>1. m \in Int /\ l \in Int
    BY <1>0
  <2> HIDE DEF m
  <2>2. IsFiniteSet(m .. l) /\ Cardinality(m .. l) = IF m > l THEN 0 ELSE l - m + 1
    BY <2>1, FS_Interval
  <2>3. m > l => l - k = 0
    BY <1>0 DEF m
  <2>4. l - m + 1 = l - k
    BY <1>0 DEF m
  <2>5. QED
    BY <2>2, <2>3, <2>4 DEF m
<1>4. \A i, j \in behind : f[i] = f[j] => i = j
  <2>1. \A i \in behind : i \in 1 .. l
    BY <1>1
  <2>2. QED
    BY <2>1, OrderedFacts
<1>5. f \in [behind -> Later(s, k)] /\ \A x \in Later(s, k) : \E i \in behind : f[i] = x
  BY <1>2
<1> HIDE DEF f, behind
<1>6. f \in Surjection(behind, Later(s, k)) /\ f \in Injection(behind, Later(s, k))
  BY <1>4, <1>5 DEF Surjection, Injection, IsInjective
<1>7. QED
  BY <1>3, <1>6, FS_Surjection

\* Of a bucket in the store as much is due as it holds.
LEMMA HeldIsDue ==
    ASSUME NEW now, NEW s, NEW du, NEW us, NEW ri, Ordered(now, s), Len(s) <= MaxKeys,
           Agrees(s, du, us, ri), NEW k \in 1 .. Len(s)
    PROVE  DueAt(now, du, us, ri, s[k].bucket) = RefillAt(now, s[k].bucket, s[k].tokens, s[k].at)
<1>1. Len(s) \in Nat /\ Cardinality(Later(s, k)) = Len(s) - k
  BY OrderedFacts, LaterMany
<1>2. ~(Len(s) - k >= MaxKeys)
  BY <1>1, LimitConstants
<1>3. ~(Cardinality(ri[s[k].bucket]) >= MaxKeys)
  BY <1>1, <1>2 DEF Agrees
<1>4. QED
  BY <1>3 DEF DueAt, Agrees

\* What a bucket is due is a number, and no more than it can hold.
LEMMA DueIs ==
    ASSUME NEW now \in Nat, NEW du, NEW us, NEW ri, Histories(now, du, us, ri), NEW b \in Bucket
    PROVE  DueAt(now, du, us, ri, b) \in Nat /\ DueAt(now, du, us, ri, b) <= Full(b)
<1>1. du[b] \in Nat /\ us[b] \in Nat /\ us[b] <= now /\ Full(b) \in Nat
  BY LimitConstants DEF Histories
<1>2. RefillAt(now, b, du[b], us[b]) \in Nat /\ RefillAt(now, b, du[b], us[b]) <= Full(b)
  BY <1>1, RefillIs
<1>3. QED
  BY <1>1, <1>2 DEF DueAt

-----------------------------------------------------------------------------
(* What is left of a store.                                                *)

\* PlaceAfter k of rest is place from[k] of s.
PartOf(rest, s, from) ==
    /\ from \in [1 .. Len(rest) -> 1 .. Len(s)]
    /\ \A k \in 1 .. Len(rest) : rest[k] = s[from[k]]
    /\ \A j, k \in 1 .. Len(rest) : j < k => from[j] < from[k]

Left(rest, from) == {from[k] : k \in 1 .. Len(rest)}

\* A part of an ordered store is ordered, and keeps the order of its entries.
LEMMA PartFacts ==
    ASSUME NEW now, NEW s, Ordered(now, s), NEW rest \in Seq(Held), NEW from, PartOf(rest, s, from)
    PROVE  /\ Ordered(now, rest)
           /\ \A k \in 1 .. Len(rest) : rest[k] = s[from[k]] /\ from[k] \in 1 .. Len(s)
           /\ \A j, k \in 1 .. Len(rest) : from[j] < from[k] => j < k
<1>1. \A k \in 1 .. Len(rest) : rest[k] = s[from[k]] /\ from[k] \in 1 .. Len(s)
  BY DEF PartOf
<1>2. Len(rest) \in Nat /\ Len(s) \in Nat
  BY LenProperties DEF Ordered
<1>3. \A k \in 1 .. Len(rest) : rest[k].at <= now /\ rest[k].tokens <= Full(rest[k].bucket)
  BY <1>1 DEF Ordered
<1>4. ASSUME NEW j \in 1 .. Len(rest), NEW k \in 1 .. Len(rest), j < k
      PROVE  rest[j].at <= rest[k].at /\ rest[j].bucket # rest[k].bucket
  <2>1. from[j] < from[k]
    BY <1>4 DEF PartOf
  <2>2. s[from[j]].at <= s[from[k]].at /\ s[from[j]].bucket # s[from[k]].bucket
    BY <1>1, <2>1 DEF Ordered
  <2>3. QED
    BY <1>1, <2>2
<1>5. ASSUME NEW j \in 1 .. Len(rest), NEW k \in 1 .. Len(rest), from[j] < from[k]
      PROVE  j < k
  <2>1. ~(k < j) /\ k # j
    <3>1. from[j] \in Nat /\ from[k] \in Nat
      BY <1>1
    <3>2. k < j => from[k] < from[j]
      BY DEF PartOf
    <3>3. QED
      BY <1>5, <3>1, <3>2
  <2>2. QED
    BY <1>2, <2>1
<1>6. QED
  BY <1>1, <1>3, <1>4, <1>5 DEF Ordered

\* What is behind a place that is left, is behind it in what is left, but for
\* what is not left.
LEMMA LaterInPart ==
    ASSUME NEW now, NEW s, Ordered(now, s), NEW rest \in Seq(Held), NEW from, PartOf(rest, s, from),
           NEW k \in 1 .. Len(rest)
    PROVE  /\ Later(rest, k) \in SUBSET Later(s, from[k])
           /\ \A x \in Later(s, from[k]) :
                \/ x \in Later(rest, k)
                \/ \E i \in 1 .. Len(s) : /\ from[k] < i /\ s[i].bucket = x
                                          /\ i \notin Left(rest, from)
<1>1. /\ \A j \in 1 .. Len(rest) : rest[j] = s[from[j]] /\ from[j] \in 1 .. Len(s)
      /\ \A j \in 1 .. Len(rest) : from[k] < from[j] => k < j
      /\ \A j \in 1 .. Len(rest) : k < j => from[k] < from[j]
  BY PartFacts DEF PartOf
<1>2. ASSUME NEW x \in Later(rest, k) PROVE x \in Later(s, from[k])
  <2>1. PICK j \in 1 .. Len(rest) : k < j /\ x = rest[j].bucket
    BY DEF Later
  <2>2. from[j] \in {i \in 1 .. Len(s) : from[k] < i} /\ x = s[from[j]].bucket
    BY <1>1, <2>1
  <2>3. QED
    BY <2>2 DEF Later
<1>3. ASSUME NEW x \in Later(s, from[k]),
             \A i \in 1 .. Len(s) :
                from[k] < i /\ s[i].bucket = x => i \in Left(rest, from)
      PROVE  x \in Later(rest, k)
  <2>1. PICK i \in 1 .. Len(s) : from[k] < i /\ x = s[i].bucket
    BY DEF Later
  <2>2. PICK j \in 1 .. Len(rest) : from[j] = i
    BY <1>3, <2>1 DEF Left
  <2>3. j \in {n \in 1 .. Len(rest) : k < n} /\ x = rest[j].bucket
    BY <1>1, <2>1, <2>2
  <2>4. QED
    BY <2>3 DEF Later
<1>4. QED
  BY <1>2, <1>3

\* To drop the buckets at the front changes no allowance if what they lack is
\* written off, in the history du2.
LEMMA DropIdle ==
    ASSUME NEW now \in Nat, NEW s, NEW du, NEW us, NEW ri, Sound(now, s, du, us, ri),
           NEW rest \in Seq(Held), NEW from, PartOf(rest, s, from), Len(rest) <= MaxKeys,
           NEW du2 \in [Bucket -> Nat], \A b \in Bucket : du2[b] = du[b] \/ du2[b] = Full(b),
           \A i \in 1 .. Len(s) : i \in Left(rest, from) => du2[s[i].bucket] = du[s[i].bucket],
           \A i \in 1 .. Len(s) : i \notin Left(rest, from) =>
               /\ du2[s[i].bucket] = Full(s[i].bucket)
               /\ \A j \in 1 .. Len(s) : j < i => j \notin Left(rest, from)
    PROVE  Sound(now, rest, du2, us, ri)
<1>0. /\ Ordered(now, s) /\ Len(s) <= MaxKeys /\ Histories(now, du, us, ri)
      /\ Agrees(s, du, us, ri) /\ Restored(now, s, du, us, ri)
  BY DEF Sound
<1>1. /\ Ordered(now, rest)
      /\ \A k \in 1 .. Len(rest) : rest[k] = s[from[k]] /\ from[k] \in 1 .. Len(s)
      /\ \A k \in 1 .. Len(rest) : from[k] \in Left(rest, from)
  BY <1>0, PartFacts DEF Left
<1>2. Agrees(rest, du2, us, ri)
  <2> SUFFICES ASSUME NEW k \in 1 .. Len(rest)
               PROVE  /\ du2[rest[k].bucket] = rest[k].tokens
                      /\ us[rest[k].bucket] = rest[k].at
                      /\ ri[rest[k].bucket] = Later(rest, k)
    BY DEF Agrees
  <2>1. /\ du[rest[k].bucket] = rest[k].tokens
        /\ us[rest[k].bucket] = rest[k].at
        /\ ri[rest[k].bucket] = Later(s, from[k])
    BY <1>0, <1>1 DEF Agrees
  <2>2. \A i \in 1 .. Len(s) : from[k] < i => i \in Left(rest, from)
    BY <1>1
  <2>3. Later(rest, k) = Later(s, from[k])
    <3>1. /\ Later(rest, k) \in SUBSET Later(s, from[k])
          /\ \A x \in Later(s, from[k]) :
                \/ x \in Later(rest, k)
                \/ \E i \in 1 .. Len(s) : /\ from[k] < i /\ s[i].bucket = x
                                          /\ i \notin Left(rest, from)
      BY <1>0, LaterInPart
    <3>2. \A x \in Later(s, from[k]) : x \in Later(rest, k)
      BY <2>2, <3>1
    <3>3. QED
      BY <3>1, <3>2
  <2>4. du2[rest[k].bucket] = du[rest[k].bucket]
    BY <1>1
  <2>5. QED
    BY <2>1, <2>3, <2>4
<1>3. \A b \in Bucket : /\ du[b] \in Nat /\ us[b] \in Nat /\ us[b] <= now
                        /\ Full(b) \in Nat /\ du[b] <= Full(b)
  BY <1>0, LimitConstants DEF Histories
<1>4. ASSUME NEW b \in Bucket, du2[b] = Full(b)
      PROVE  DueAt(now, du2, us, ri, b) = Full(b)
  <2>1. RefillAt(now, b, Full(b), us[b]) = Full(b)
    BY <1>3, FullStays
  <2>2. QED
    BY <1>4, <2>1 DEF DueAt
<1>5. Restored(now, rest, du2, us, ri)
  <2> SUFFICES ASSUME NEW b \in Bucket, \A k \in 1 .. Len(rest) : rest[k].bucket # b
               PROVE  DueAt(now, du2, us, ri, b) = Full(b)
    BY DEF Restored
  <2>1. CASE \A k \in 1 .. Len(s) : s[k].bucket # b
    <3>1. DueAt(now, du, us, ri, b) = Full(b)
      BY <1>0, <2>1 DEF Restored
    <3>2. CASE du2[b] = du[b]
      BY <3>1, <3>2 DEF DueAt
    <3>3. CASE du2[b] = Full(b)
      BY <1>4, <3>3
    <3>4. QED
      BY <3>2, <3>3
  <2>2. CASE \E i \in 1 .. Len(s) : s[i].bucket = b
    <3>1. PICK i \in 1 .. Len(s) : s[i].bucket = b
      BY <2>2
    <3>2. i \notin Left(rest, from)
      <4>1. \A k \in 1 .. Len(rest) : s[from[k]].bucket # b
        BY <1>1
      <4>2. QED
        BY <3>1, <4>1 DEF Left
    <3>3. QED
      BY <1>4, <3>1, <3>2
  <2>3. QED
    BY <2>1, <2>2
<1>6. Histories(now, du2, us, ri)
  <2>1. \A b \in Bucket : du2[b] <= Full(b)
    BY <1>3
  <2>2. QED
    BY <1>0, <2>1 DEF Histories
<1>7. QED
  BY <1>0, <1>1, <1>2, <1>5, <1>6 DEF Sound

-----------------------------------------------------------------------------
(* A use of a bucket.                                                      *)

Spent(tokens) == IF tokens >= Window THEN tokens - Window ELSE tokens

DueUsed(now, du, us, ri, b) == [du EXCEPT ![b] = Spent(DueAt(now, du, us, ri, b))]
TimesUsed(now, us, b) == [us EXCEPT ![b] = now]
RivalsUsed(ri, b) == [d \in Bucket |-> IF d = b THEN {} ELSE ri[d] \cup {b}]

\* The histories after a use of one bucket are histories.
LEMMA HistoriesUsed ==
    ASSUME NEW now \in Nat, NEW du, NEW us, NEW ri, Histories(now, du, us, ri), NEW b \in Bucket
    PROVE  /\ Histories(now, DueUsed(now, du, us, ri, b), TimesUsed(now, us, b), RivalsUsed(ri, b))
           /\ \A d \in Bucket :
                /\ DueUsed(now, du, us, ri, b)[d]
                     = IF d = b THEN Spent(DueAt(now, du, us, ri, b)) ELSE du[d]
                /\ TimesUsed(now, us, b)[d] = IF d = b THEN now ELSE us[d]
                /\ RivalsUsed(ri, b)[d] = IF d = b THEN {} ELSE ri[d] \cup {b}
<1> DEFINE x == Spent(DueAt(now, du, us, ri, b))
           du2 == DueUsed(now, du, us, ri, b)
           us2 == TimesUsed(now, us, b)
           ri2 == RivalsUsed(ri, b)
<1>1. x \in Nat /\ x <= Full(b)
  <2> DEFINE y == DueAt(now, du, us, ri, b)
  <2>1. y \in Nat /\ y <= Full(b) /\ Full(b) \in Nat /\ Window \in Nat
    BY DueIs, LimitConstants
  <2> HIDE DEF y
  <2>2. Spent(y) \in Nat /\ Spent(y) <= Full(b)
    BY <2>1 DEF Spent
  <2>3. QED
    BY <2>2 DEF y
<1> HIDE DEF x
<1>2. du2 = [du EXCEPT ![b] = x] /\ us2 = [us EXCEPT ![b] = now]
  BY DEF DueUsed, TimesUsed, x
<1>3. \A d \in Bucket :
        /\ du2[d] = IF d = b THEN x ELSE du[d]
        /\ us2[d] = IF d = b THEN now ELSE us[d]
  BY <1>2 DEF Histories
<1>4. \A d \in Bucket : ri2[d] = IF d = b THEN {} ELSE ri[d] \cup {b}
  BY DEF RivalsUsed
<1>5. du2 \in [Bucket -> Nat] /\ us2 \in [Bucket -> Nat]
  BY <1>1, <1>2 DEF Histories
<1>6. ri2 \in [Bucket -> SUBSET Bucket]
  BY DEF RivalsUsed, Histories
<1> HIDE DEF du2, us2, ri2
<1>7. ASSUME NEW d \in Bucket PROVE du2[d] <= Full(d) /\ us2[d] <= now /\ IsFiniteSet(ri2[d])
  <2>1. du2[d] <= Full(d)
    BY <1>1, <1>3 DEF Histories
  <2>2. us2[d] <= now
    BY <1>3 DEF Histories
  <2>3. IsFiniteSet(ri2[d])
    <3>1. IsFiniteSet(ri[d])
      BY DEF Histories
    <3>2. IsFiniteSet(ri[d] \cup {b}) /\ IsFiniteSet({})
      BY <3>1, FS_EmptySet, FS_AddElement
    <3>3. QED
      BY <1>4, <3>2
  <2>4. QED
    BY <2>1, <2>2, <2>3
<1>8. Histories(now, du2, us2, ri2)
  BY <1>5, <1>6, <1>7 DEF Histories
<1>9. QED
  BY <1>3, <1>4, <1>8 DEF du2, us2, ri2, x

\* The bucket that is used comes last, and but for it at most the oldest of a
\* full store is dropped: the store keeps to the allowances.
LEMMA UseKeeps ==
    ASSUME NEW now \in Nat, NEW s, NEW du, NEW us, NEW ri, Sound(now, s, du, us, ri),
           NEW rest \in Seq(Held), NEW from, PartOf(rest, s, from), Len(rest) < MaxKeys,
           NEW b \in Bucket, \A k \in 1 .. Len(rest) : rest[k].bucket # b,
           \A i \in 1 .. Len(s) : i \notin Left(rest, from) =>
               \/ s[i].bucket = b
               \/ /\ i = 1 /\ Len(s) = MaxKeys
                  /\ \A k \in 1 .. Len(s) : s[k].bucket # b,
           NEW e, e = [bucket |-> b, at |-> now, tokens |-> Spent(DueAt(now, du, us, ri, b))]
    PROVE  Sound(now, Append(rest, e), DueUsed(now, du, us, ri, b), TimesUsed(now, us, b),
                 RivalsUsed(ri, b))
<1> DEFINE s2 == Append(rest, e)
           du2 == DueUsed(now, du, us, ri, b)
           us2 == TimesUsed(now, us, b)
           ri2 == RivalsUsed(ri, b)
           n == Len(rest)
<1>0. /\ Ordered(now, s) /\ Len(s) <= MaxKeys /\ Histories(now, du, us, ri)
      /\ Agrees(s, du, us, ri) /\ Restored(now, s, du, us, ri)
  BY DEF Sound
<1>1. /\ Ordered(now, rest)
      /\ \A k \in 1 .. Len(rest) : rest[k] = s[from[k]] /\ from[k] \in 1 .. Len(s)
  BY <1>0, PartFacts
<1>2. /\ Histories(now, du2, us2, ri2)
      /\ \A d \in Bucket :
           /\ du2[d] = IF d = b THEN Spent(DueAt(now, du, us, ri, b)) ELSE du[d]
           /\ us2[d] = IF d = b THEN now ELSE us[d]
           /\ ri2[d] = IF d = b THEN {} ELSE ri[d] \cup {b}
  <2>1. Histories(now, du2, us2, ri2)
    BY <1>0, HistoriesUsed
  <2>2. \A d \in Bucket :
           /\ du2[d] = IF d = b THEN Spent(DueAt(now, du, us, ri, b)) ELSE du[d]
           /\ us2[d] = IF d = b THEN now ELSE us[d]
    <3> DEFINE x == Spent(DueAt(now, du, us, ri, b))
    <3> HIDE DEF x
    <3>1. du2 = [du EXCEPT ![b] = x] /\ us2 = [us EXCEPT ![b] = now]
      BY DEF DueUsed, TimesUsed, x
    <3> HIDE DEF du2, us2
    <3>2. \A d \in Bucket : /\ du2[d] = IF d = b THEN x ELSE du[d]
                            /\ us2[d] = IF d = b THEN now ELSE us[d]
      BY <1>0, <3>1 DEF Histories
    <3>3. QED
      BY <3>2 DEF x
  <2>3. \A d \in Bucket : ri2[d] = IF d = b THEN {} ELSE ri[d] \cup {b}
    BY DEF RivalsUsed
  <2>4. QED
    BY <2>1, <2>2, <2>3
<1>3. /\ e.bucket = b /\ e.at = now /\ e.tokens = du2[b]
      /\ e.tokens \in Nat /\ e.tokens <= Full(b) /\ e \in Held
  <2>1. e.bucket = b /\ e.at = now /\ e.tokens = du2[b]
    BY <1>2
  <2>2. du2[b] \in Nat /\ du2[b] <= Full(b)
    BY <1>2 DEF Histories
  <2>3. e \in Held
    BY <1>2, <2>2 DEF Held
  <2>4. QED
    BY <2>1, <2>2, <2>3
<1>4. /\ s2 \in Seq(Held) /\ n \in Nat /\ Len(s2) = n + 1 /\ Len(s2) \in Nat
      /\ s2[n + 1] = e /\ \A k \in 1 .. n : s2[k] = rest[k]
  BY <1>1, <1>3, AppendProperties, OrderedFacts
<1>5. \A k \in 1 .. n : /\ rest[k].bucket \in Bucket /\ rest[k].bucket # b
                        /\ rest[k].at <= now /\ rest[k].tokens <= Full(rest[k].bucket)
  BY <1>1, OrderedFacts DEF Ordered
<1> HIDE DEF s2, du2, us2, ri2, n
<1>6. \A k \in 1 .. Len(s2) : k = n + 1 \/ k \in 1 .. n
  BY <1>4
<1>7. Ordered(now, s2)
  <2>1. \A k \in 1 .. Len(s2) : s2[k].at <= now /\ s2[k].tokens <= Full(s2[k].bucket)
    BY <1>3, <1>4, <1>5, <1>6
  <2>2. ASSUME NEW j \in 1 .. Len(s2), NEW k \in 1 .. Len(s2), j < k
        PROVE  s2[j].at <= s2[k].at /\ s2[j].bucket # s2[k].bucket
    <3>1. j \in 1 .. n
      BY <1>4, <2>2
    <3>2. CASE k = n + 1
      BY <1>3, <1>4, <1>5, <3>1, <3>2
    <3>3. CASE k \in 1 .. n
      <4>1. rest[j].at <= rest[k].at /\ rest[j].bucket # rest[k].bucket
        BY <1>1, <2>2, <3>1, <3>3 DEF Ordered, n
      <4>2. QED
        BY <1>4, <3>1, <3>3, <4>1
    <3>4. QED
      BY <1>6, <3>2, <3>3
  <2>3. QED
    BY <1>4, <2>1, <2>2 DEF Ordered
<1>8. Later(s2, n + 1) = {}
  <2>1. ~ \E i \in 1 .. Len(s2) : n + 1 < i
    BY <1>4
  <2>2. QED
    BY <2>1 DEF Later
<1>9. ASSUME NEW k \in 1 .. n PROVE Later(s2, k) = Later(rest, k) \cup {b}
  <2>1. ASSUME NEW x \in Later(s2, k) PROVE x \in Later(rest, k) \cup {b}
    <3>1. PICK j \in 1 .. Len(s2) : k < j /\ x = s2[j].bucket
      BY DEF Later
    <3>2. CASE j = n + 1
      BY <1>3, <1>4, <3>1, <3>2
    <3>3. CASE j \in 1 .. n
      <4>1. j \in {i \in 1 .. Len(rest) : k < i} /\ x = rest[j].bucket
        BY <1>4, <3>1, <3>3 DEF n
      <4>2. QED
        BY <4>1 DEF Later
    <3>4. QED
      BY <1>6, <3>2, <3>3
  <2>2. ASSUME NEW x \in Later(rest, k) PROVE x \in Later(s2, k)
    <3>1. PICK j \in 1 .. n : k < j /\ x = rest[j].bucket
      BY DEF Later, n
    <3>2. j \in {i \in 1 .. Len(s2) : k < i} /\ x = s2[j].bucket
      BY <1>4, <3>1
    <3>3. QED
      BY <3>2 DEF Later
  <2>3. b \in Later(s2, k)
    <3>1. n + 1 \in {i \in 1 .. Len(s2) : k < i} /\ b = s2[n + 1].bucket
      BY <1>3, <1>4
    <3>2. QED
      BY <3>1 DEF Later
  <2>4. QED
    BY <2>1, <2>2, <2>3
<1>10. ASSUME NEW k \in 1 .. n PROVE Later(rest, k) \cup {b} = Later(s, from[k]) \cup {b}
  <2>1. /\ Later(rest, k) \in SUBSET Later(s, from[k])
        /\ \A x \in Later(s, from[k]) :
              \/ x \in Later(rest, k)
              \/ \E i \in 1 .. Len(s) : /\ from[k] < i /\ s[i].bucket = x
                                        /\ i \notin Left(rest, from)
    BY <1>0, LaterInPart DEF n
  <2>2. \A i \in 1 .. Len(s) : from[k] < i /\ i \notin Left(rest, from) => s[i].bucket = b
    <3>1. from[k] \in Nat /\ from[k] > 0
      BY <1>1 DEF n
    <3>2. QED
      BY <3>1
  <2>3. QED
    BY <2>1, <2>2
<1>11. Agrees(s2, du2, us2, ri2)
  <2>1. /\ du2[s2[n + 1].bucket] = s2[n + 1].tokens
        /\ us2[s2[n + 1].bucket] = s2[n + 1].at
        /\ ri2[s2[n + 1].bucket] = Later(s2, n + 1)
    BY <1>2, <1>3, <1>4, <1>8
  <2>2. ASSUME NEW k \in 1 .. n
        PROVE  /\ du2[s2[k].bucket] = s2[k].tokens
               /\ us2[s2[k].bucket] = s2[k].at
               /\ ri2[s2[k].bucket] = Later(s2, k)
    <3>1. /\ from[k] \in 1 .. Len(s) /\ s2[k] = s[from[k]]
          /\ s2[k].bucket \in Bucket /\ s2[k].bucket # b
      BY <1>1, <1>4, <1>5 DEF n
    <3>2. /\ du[s2[k].bucket] = s2[k].tokens /\ us[s2[k].bucket] = s2[k].at
          /\ ri[s2[k].bucket] = Later(s, from[k])
      BY <1>0, <3>1 DEF Agrees
    <3>3. ri2[s2[k].bucket] = Later(s2, k)
      BY <1>2, <1>9, <1>10, <3>1, <3>2, ZenonT(60)
    <3>4. QED
      BY <1>2, <3>1, <3>2, <3>3
  <2>3. QED
    BY <1>6, <2>1, <2>2 DEF Agrees
<1>12. Restored(now, s2, du2, us2, ri2)
  <2> SUFFICES ASSUME NEW d \in Bucket, \A k \in 1 .. Len(s2) : s2[k].bucket # d
               PROVE  DueAt(now, du2, us2, ri2, d) = Full(d)
    BY DEF Restored
  <2>1. d # b
    BY <1>3, <1>4
  <2>2. du2[d] = du[d] /\ us2[d] = us[d] /\ ri2[d] = ri[d] \cup {b}
    BY <1>2, <2>1
  <2>3. /\ IsFiniteSet(ri[d]) /\ Cardinality(ri[d]) \in Nat
        /\ Cardinality(ri2[d]) = IF b \in ri[d] THEN Cardinality(ri[d]) ELSE Cardinality(ri[d]) + 1
    <3>1. IsFiniteSet(ri[d])
      BY <1>0 DEF Histories
    <3>2. QED
      BY <2>2, <3>1, FS_AddElement, FS_CardinalityType, ZenonT(60)
  <2>4. CASE \A k \in 1 .. Len(s) : s[k].bucket # d
    <3>1. DueAt(now, du, us, ri, d) = Full(d)
      BY <1>0, <2>4 DEF Restored
    <3>2. CASE Cardinality(ri[d]) >= MaxKeys
      <4>1. Cardinality(ri2[d]) >= MaxKeys
        BY <2>3, <3>2, LimitConstants
      <4>2. QED
        BY <4>1 DEF DueAt
    <3>3. CASE ~(Cardinality(ri[d]) >= MaxKeys)
      <4>1. RefillAt(now, d, du[d], us[d]) = Full(d)
        BY <3>1, <3>3 DEF DueAt
      <4>2. QED
        BY <2>2, <4>1 DEF DueAt
    <3>4. QED
      BY <3>2, <3>3
  <2>5. CASE \E i \in 1 .. Len(s) : s[i].bucket = d
    <3>1. PICK i \in 1 .. Len(s) : s[i].bucket = d
      BY <2>5
    <3>2. i \notin Left(rest, from)
      <4>1. \A k \in 1 .. n : s[from[k]].bucket # d
        BY <1>1, <1>4 DEF n
      <4>2. QED
        BY <3>1, <4>1 DEF Left, n
    <3>3. i = 1 /\ Len(s) = MaxKeys /\ \A k \in 1 .. Len(s) : s[k].bucket # b
      BY <2>1, <3>1, <3>2
    <3>4. ri[d] = Later(s, i) /\ Cardinality(Later(s, i)) = Len(s) - i
      BY <1>0, <3>1, LaterMany DEF Agrees
    <3>5. b \notin ri[d]
      BY <3>3, <3>4 DEF Later
    <3>6. Cardinality(ri2[d]) >= MaxKeys
      BY <2>3, <3>3, <3>4, <3>5, LimitConstants
    <3>7. QED
      BY <3>6 DEF DueAt
  <2>6. QED
    BY <2>4, <2>5
<1>13. Len(s2) <= MaxKeys
  BY <1>4, LimitConstants DEF n
<1>14. QED
  BY <1>2, <1>7, <1>11, <1>12, <1>13 DEF Sound, s2, du2, us2, ri2

-----------------------------------------------------------------------------
(* consume.                                                                *)

\* The entries kept of a store are a part of it.
LEMMA EntriesArePart ==
    ASSUME NEW now, NEW s, Ordered(now, s), NEW places \in SUBSET (1 .. Len(s))
    PROVE  /\ Entries(s, places) \in Seq(Held) /\ Len(Entries(s, places)) \in Nat
           /\ Len(Entries(s, places)) <= Len(s)
           /\ (\E p \in 1 .. Len(s) : p \notin places) => Len(Entries(s, places)) < Len(s)
           /\ \E from : PartOf(Entries(s, places), s, from) /\ Left(Entries(s, places), from) = places
<1>0. s \in Seq(Held) /\ Len(s) \in Nat
  BY OrderedFacts DEF Ordered
<1> DEFINE rest == Entries(s, places)
           n == Cardinality(places)
<1>1. /\ n \in Nat /\ n <= Len(s)
      /\ (\E p \in 1 .. Len(s) : p \notin places) => n < Len(s)
      /\ rest \in Seq(Held) /\ Len(rest) = n
  BY <1>0, EntriesAre
<1> HIDE DEF rest, n
<1>2. \E from \in [1 .. n -> places] :
         /\ \A k \in 1 .. n : rest[k] = s[from[k]]
         /\ \A j, k \in 1 .. n : j < k => from[j] < from[k]
         /\ \A p \in places : \E k \in 1 .. n : from[k] = p
  <2>1. InTheirOrder(s, places)
    BY <1>0, EntriesAre
  <2>2. QED
    BY <2>1 DEF InTheirOrder, rest, n
<1>3. PICK from \in [1 .. n -> places] :
         /\ \A k \in 1 .. n : rest[k] = s[from[k]]
         /\ \A j, k \in 1 .. n : j < k => from[j] < from[k]
         /\ \A p \in places : \E k \in 1 .. n : from[k] = p
  BY <1>2
<1>4. from \in [1 .. Len(rest) -> 1 .. Len(s)]
  BY <1>1, <1>3
<1>5. PartOf(rest, s, from)
  BY <1>1, <1>3, <1>4 DEF PartOf
<1>6. Left(rest, from) = places
  <2> DEFINE L == {from[k] : k \in 1 .. n}
  <2>1. Left(rest, from) = L
    BY <1>1 DEF Left
  <2>2. L \subseteq places
    BY <1>3
  <2>3. places \subseteq L
    BY <1>3
  <2>4. QED
    BY <2>1, <2>2, <2>3
<1>7. QED
  BY <1>1, <1>5, <1>6 DEF rest

\* What is owed after a cleanup, which writes off what it finds idle.
OwedOf(du, us) ==
    [b \in Bucket |-> IF tick - cleaned >= CleanupEvery /\ tick - us[b] >= IdleTtl
                      THEN Full(b) ELSE du[b]]

\* cleanup drops the idle buckets: the store stays sound.
LEMMA CleanupKeeps ==
    ASSUME tick \in Nat, cleaned \in Nat,
           NEW s, NEW du, NEW us, NEW ri, Sound(tick, s, du, us, ri)
    PROVE  Sound(tick, Cleanup(s), OwedOf(du, us), us, ri)
<1> DEFINE places == {k \in 1 .. Len(s) : tick - s[k].at < IdleTtl}
           owed == OwedOf(du, us)
<1>0. /\ Ordered(tick, s) /\ Len(s) <= MaxKeys /\ DOMAIN s = 1 .. Len(s) /\ Len(s) \in Nat
      /\ \A k \in 1 .. Len(s) : s[k].at \in Nat /\ s[k].bucket \in Bucket
      /\ Histories(tick, du, us, ri) /\ Agrees(s, du, us, ri)
  BY OrderedFacts DEF Sound
<1>1. Cleanup(s) = IF tick - cleaned < CleanupEvery THEN s ELSE Entries(s, places)
  BY <1>0 DEF Cleanup
<1>2. CASE tick - cleaned < CleanupEvery
  <2>1. ~(tick - cleaned >= CleanupEvery)
    BY <1>2, LimitConstants
  <2>2. owed = [b \in Bucket |-> du[b]]
    BY <2>1 DEF OwedOf
  <2>3. owed = du
    BY <1>0, <2>2 DEF Histories
  <2>4. QED
    BY <1>1, <1>2, <2>3
<1>3. CASE ~(tick - cleaned < CleanupEvery)
  <2>1. tick - cleaned >= CleanupEvery
    BY <1>3, LimitConstants
  <2>2. \A b \in Bucket : owed[b] = IF tick - us[b] >= IdleTtl THEN Full(b) ELSE du[b]
    BY <2>1 DEF OwedOf
  <2>3. owed \in [Bucket -> Nat]
    <3>1. \A b \in Bucket : Full(b) \in Nat /\ du[b] \in Nat
      BY <1>0, LimitConstants DEF Histories
    <3>2. QED
      BY <3>1 DEF OwedOf
  <2> HIDE DEF owed
  <2>4. \A i \in 1 .. Len(s) : us[s[i].bucket] = s[i].at
    BY <1>0 DEF Agrees
  <2>5. ASSUME NEW i \in 1 .. Len(s), i \notin places
        PROVE  /\ owed[s[i].bucket] = Full(s[i].bucket)
               /\ \A j \in 1 .. Len(s) : j < i => j \notin places
    <3>1. ~(tick - s[i].at < IdleTtl)
      BY <2>5
    <3>2. tick - s[i].at >= IdleTtl
      BY <1>0, <3>1, LimitConstants
    <3>3. ASSUME NEW j \in 1 .. Len(s), j < i PROVE ~(tick - s[j].at < IdleTtl)
      <4>1. s[j].at <= s[i].at
        BY <1>0, <3>3 DEF Ordered
      <4>2. QED
        BY <1>0, <3>1, <4>1, LimitConstants
    <3>4. owed[s[i].bucket] = Full(s[i].bucket)
      BY <1>0, <2>2, <2>4, <3>2
    <3>5. QED
      BY <3>3, <3>4
  <2>6. ASSUME NEW i \in 1 .. Len(s), i \in places
        PROVE  owed[s[i].bucket] = du[s[i].bucket]
    <3>1. ~(tick - s[i].at >= IdleTtl)
      BY <1>0, <2>6, LimitConstants
    <3>2. QED
      BY <1>0, <2>2, <2>4, <3>1
  <2>7. places \in SUBSET (1 .. Len(s))
    OBVIOUS
  <2> HIDE DEF places
  <2>8. /\ Entries(s, places) \in Seq(Held) /\ Len(Entries(s, places)) \in Nat
        /\ Len(Entries(s, places)) <= Len(s)
    BY <1>0, <2>7, EntriesArePart
  <2>9. \E from : PartOf(Entries(s, places), s, from) /\ Left(Entries(s, places), from) = places
    BY <1>0, <2>7, EntriesArePart
  <2>10. PICK from : PartOf(Entries(s, places), s, from) /\ Left(Entries(s, places), from) = places
    BY <2>9
  <2>11. Len(Entries(s, places)) <= MaxKeys
    BY <1>0, <2>8, LimitConstants
  <2>12. \A b \in Bucket : owed[b] = du[b] \/ owed[b] = Full(b)
    BY <2>2
  <2> DEFINE kept == Entries(s, places)
  <2>13. /\ \A i \in 1 .. Len(s) : i \in Left(kept, from) => owed[s[i].bucket] = du[s[i].bucket]
         /\ \A i \in 1 .. Len(s) : i \notin Left(kept, from) =>
              /\ owed[s[i].bucket] = Full(s[i].bucket)
              /\ \A j \in 1 .. Len(s) : j < i => j \notin Left(kept, from)
    BY <2>5, <2>6, <2>10
  <2>14. kept \in Seq(Held) /\ PartOf(kept, s, from) /\ Len(kept) <= MaxKeys
    BY <2>8, <2>10, <2>11
  <2> HIDE DEF kept
  <2>15. Sound(tick, kept, owed, us, ri)
    BY <2>3, <2>12, <2>13, <2>14, DropIdle
  <2>16. QED
    BY <1>1, <1>3, <2>15 DEF kept, owed
<1>4. QED
  BY <1>2, <1>3

\* But for the bucket that was used, as much is owed as after the cleanup.
OwedButFor(b, d1, du, us) ==
    d1 \in [Bucket -> Nat] /\ \A d \in Bucket : d # b => d1[d] = OwedOf(du, us)[d]

\* A use after the cleanup finds nothing left to write off.
LEMMA OwedOnce ==
    ASSUME tick \in Nat, NEW du, NEW us \in [Bucket -> Nat], NEW b \in Bucket, NEW d1,
           OwedButFor(b, d1, du, us)
    PROVE  OwedOf(d1, TimesUsed(tick, us, b)) = d1
<1> DEFINE u1 == TimesUsed(tick, us, b)
<1>0. u1 = [us EXCEPT ![b] = tick]
  BY DEF TimesUsed
<1> HIDE DEF u1
<1>1. ASSUME NEW d \in Bucket PROVE OwedOf(d1, u1)[d] = d1[d]
  <2>1. OwedOf(d1, u1)[d] = IF tick - cleaned >= CleanupEvery /\ tick - u1[d] >= IdleTtl
                            THEN Full(d) ELSE d1[d]
    BY DEF OwedOf
  <2>2. CASE d = b
    <3>1. u1[d] = tick
      BY <1>0, <2>2
    <3>2. ~(tick - u1[d] >= IdleTtl)
      BY <3>1, LimitConstants
    <3>3. QED
      BY <2>1, <3>2
  <2>3. CASE d # b
    <3>1. u1[d] = us[d]
      BY <1>0, <2>3
    <3>2. OwedOf(du, us)[d] = IF tick - cleaned >= CleanupEvery /\ tick - us[d] >= IdleTtl
                              THEN Full(d) ELSE du[d]
      BY DEF OwedOf
    <3>3. d1[d] = OwedOf(du, us)[d]
      BY <2>3 DEF OwedButFor
    <3>4. QED
      BY <2>1, <3>1, <3>2, <3>3
  <2>4. QED
    BY <2>2, <2>3
<1>2. OwedOf(d1, u1) = [d \in Bucket |-> OwedOf(d1, u1)[d]] /\ d1 = [d \in Bucket |-> d1[d]]
  BY DEF OwedOf, OwedButFor
<1>3. QED
  BY <1>1, <1>2 DEF u1

\* A least number is the minimum.
LEMMA LeastIs ==
    ASSUME NEW S \in SUBSET Nat, NEW m \in S, \A y \in S : m <= y
    PROVE  Min(S) = m
<1>1. Min(S) \in S /\ \A y \in S : Min(S) <= y
  BY DEF Min
<1>2. Min(S) <= m /\ m <= Min(S) /\ Min(S) \in Nat /\ m \in Nat
  BY <1>1
<1>3. QED
  BY <1>2

\* Of a full store the first bucket is dropped: it was used longest ago.
LEMMA EvictsFirst ==
    ASSUME NEW now, NEW s, Ordered(now, s), Len(s) > 0
    PROVE  EvictIfFull(s) = IF Len(s) < MaxKeys THEN s ELSE Entries(s, (1 .. Len(s)) \ {1})
<1>0. /\ Len(s) \in Nat /\ DOMAIN s = 1 .. Len(s) /\ 1 \in 1 .. Len(s)
      /\ \A k \in 1 .. Len(s) : s[k].at \in Nat
  BY OrderedFacts
<1>1. \A k \in 1 .. Len(s) : s[1].at <= s[k].at
  <2> SUFFICES ASSUME NEW k \in 1 .. Len(s) PROVE s[1].at <= s[k].at
    OBVIOUS
  <2>1. CASE k = 1
    BY <1>0, <2>1
  <2>2. CASE 1 < k
    BY <1>0, <2>2 DEF Ordered
  <2>3. QED
    BY <2>1, <2>2
<1> DEFINE ats == {s[k].at : k \in 1 .. Len(s)}
           oldest == s[1].at
           old == {k \in 1 .. Len(s) : s[k].at = oldest}
<1>2. Min(ats) = oldest
  <2>1. ats \in SUBSET Nat /\ oldest \in ats /\ \A y \in ats : oldest <= y
    BY <1>0, <1>1
  <2> HIDE DEF ats, oldest
  <2>2. QED
    BY <2>1, LeastIs
<1>3. Min(old) = 1
  <2>1. old \in SUBSET Nat /\ 1 \in old /\ \A y \in old : 1 <= y
    BY <1>0
  <2> HIDE DEF old
  <2>2. QED
    BY <2>1, LeastIs
<1>4. EvictIfFull(s) = IF Len(s) < MaxKeys THEN s
                       ELSE Entries(s, (1 .. Len(s)) \ {Min({k \in 1 .. Len(s) : s[k].at = Min(ats)})})
  BY <1>0 DEF EvictIfFull
<1>5. {k \in 1 .. Len(s) : s[k].at = Min(ats)} = old
  BY <1>2
<1>6. QED
  BY <1>3, <1>4, <1>5

\* What is in the bucket before a use, and what is left of the store.
TokensBefore(kept, b) ==
    LET found == {e \in ToSet(kept) : e.bucket = b}
    IN  IF found = {} THEN Full(b)
        ELSE LET e == CHOOSE x \in found : TRUE IN Refilled(b, e.tokens, e.at)
RestOf(kept, b) ==
    IF {e \in ToSet(kept) : e.bucket = b} = {} THEN EvictIfFull(kept)
    ELSE Entries(kept, {k \in DOMAIN kept : kept[k].bucket # b})

\* consumeBucket as one formula.
LEMMA ConsumeIs ==
    ASSUME NEW s, NEW b
    PROVE  /\ Consume(s, b).store
                = Append(RestOf(Cleanup(s), b),
                         [bucket |-> b, at |-> tick, tokens |-> Spent(TokensBefore(Cleanup(s), b))])
           /\ Consume(s, b).allowed = (TokensBefore(Cleanup(s), b) >= Window)
BY DEF Consume, RestOf, TokensBefore, Spent

\* consumeBucket on a store that the cleanup leaves sound, with the histories of the use, leaves a sound store.
LEMMA ConsumeKeeps ==
    ASSUME tick \in Nat, NEW s, NEW du, NEW us, NEW ri, Sound(tick, Cleanup(s), du, us, ri),
           NEW b \in Bucket
    PROVE  Sound(tick, Consume(s, b).store, DueUsed(tick, du, us, ri, b), TimesUsed(tick, us, b),
                 RivalsUsed(ri, b))
<1> DEFINE kept == Cleanup(s)
           found == {e \in ToSet(kept) : e.bucket = b}
           rest == RestOf(kept, b)
           e2 == [bucket |-> b, at |-> tick, tokens |-> Spent(DueAt(tick, du, us, ri, b))]
           Goal == Sound(tick, Append(rest, e2), DueUsed(tick, du, us, ri, b),
                         TimesUsed(tick, us, b), RivalsUsed(ri, b))
<1>1. Sound(tick, kept, du, us, ri)
  OBVIOUS
<1>2. Consume(s, b).store
        = Append(rest, [bucket |-> b, at |-> tick, tokens |-> Spent(TokensBefore(kept, b))])
  BY ConsumeIs
<1> HIDE DEF kept
<1>3. /\ Ordered(tick, kept) /\ Len(kept) <= MaxKeys /\ Histories(tick, du, us, ri)
      /\ Agrees(kept, du, us, ri) /\ Restored(tick, kept, du, us, ri)
  BY <1>1 DEF Sound
<1>4. /\ Len(kept) \in Nat /\ DOMAIN kept = 1 .. Len(kept) /\ kept \in Seq(Held)
      /\ \A j, k \in 1 .. Len(kept) : kept[j].bucket = kept[k].bucket => j = k
  BY <1>3, OrderedFacts DEF Ordered
<1>5. found = {e \in {kept[k] : k \in 1 .. Len(kept)} : e.bucket = b}
  BY <1>4 DEF ToSet
<1>6. CASE found # {}
  <2>1. PICK p \in 1 .. Len(kept) : kept[p].bucket = b
    BY <1>5, <1>6
  <2>2. found = {kept[p]}
    <3>1. kept[p] \in found
      BY <1>5, <2>1
    <3>2. \A e \in found : e = kept[p]
      BY <1>4, <1>5, <2>1
    <3>3. QED
      BY <3>1, <3>2
  <2>3. TokensBefore(kept, b) = RefillAt(tick, b, kept[p].tokens, kept[p].at)
    <3>1. TokensBefore(kept, b) = LET e == CHOOSE x \in found : TRUE IN Refilled(b, e.tokens, e.at)
      BY <1>6 DEF TokensBefore
    <3>2. (CHOOSE x \in found : TRUE) = kept[p]
      BY <2>2
    <3>3. QED
      BY <3>1, <3>2 DEF Refilled, RefillAt
  <2>4. TokensBefore(kept, b) = DueAt(tick, du, us, ri, b)
    <3>1. DueAt(tick, du, us, ri, kept[p].bucket)
            = RefillAt(tick, kept[p].bucket, kept[p].tokens, kept[p].at)
      BY <1>3, HeldIsDue
    <3>2. QED
      BY <2>1, <2>3, <3>1
  <2> DEFINE places == {k \in 1 .. Len(kept) : kept[k].bucket # b}
  <2>5. rest = Entries(kept, places) /\ places \in SUBSET (1 .. Len(kept)) /\ p \notin places
    BY <1>4, <1>6, <2>1 DEF RestOf
  <2>6. /\ Entries(kept, places) \in Seq(Held) /\ Len(Entries(kept, places)) \in Nat
        /\ Len(Entries(kept, places)) < Len(kept)
        /\ \E from : PartOf(Entries(kept, places), kept, from)
                     /\ Left(Entries(kept, places), from) = places
    BY <1>3, <2>5, EntriesArePart
  <2>7. PICK from : PartOf(rest, kept, from) /\ Left(rest, from) = places
    BY <2>5, <2>6
  <2>8. \A k \in 1 .. Len(rest) : rest[k].bucket # b
    <3>1. \A k \in 1 .. Len(rest) : from[k] \in places /\ rest[k] = kept[from[k]]
      BY <2>7 DEF PartOf, Left
    <3>2. QED
      BY <3>1
  <2>9. \A i \in 1 .. Len(kept) : i \notin Left(rest, from) => kept[i].bucket = b
    BY <2>7
  <2>10. rest \in Seq(Held) /\ Len(rest) < MaxKeys
    <3>1. rest \in Seq(Held) /\ Len(rest) \in Nat /\ Len(rest) < Len(kept)
      BY <2>5, <2>6
    <3> HIDE DEF rest
    <3>2. QED
      BY <1>3, <1>4, <3>1, LimitConstants
  <2> HIDE DEF rest, places, e2
  <2>11. Goal
    BY <1>1, <2>7, <2>8, <2>9, <2>10, UseKeeps DEF e2
  <2>12. QED
    BY <1>2, <2>4, <2>11 DEF e2
<1>7. CASE found = {}
  <2>1. \A k \in 1 .. Len(kept) : kept[k].bucket # b
    BY <1>5, <1>7
  <2>2. TokensBefore(kept, b) = DueAt(tick, du, us, ri, b)
    <3>1. TokensBefore(kept, b) = Full(b)
      BY <1>7 DEF TokensBefore
    <3>2. QED
      BY <1>3, <2>1, <3>1 DEF Restored
  <2>3. rest = EvictIfFull(kept)
    BY <1>7 DEF RestOf
  <2>4. CASE Len(kept) < MaxKeys
    <3>1. rest = kept
      BY <2>3, <2>4 DEF EvictIfFull
    <3> DEFINE from == [k \in 1 .. Len(kept) |-> k]
    <3>2. PartOf(kept, kept, from) /\ Left(kept, from) = 1 .. Len(kept)
      BY DEF PartOf, Left
    <3> HIDE DEF rest, from, e2
    <3>3. Goal
      BY <1>1, <1>4, <2>1, <2>4, <3>1, <3>2, UseKeeps DEF e2
    <3>4. QED
      BY <1>2, <2>2, <3>3 DEF e2
  <2>5. CASE ~(Len(kept) < MaxKeys)
    <3>1. Len(kept) = MaxKeys /\ Len(kept) > 0
      BY <1>3, <1>4, <2>5, LimitConstants
    <3> DEFINE places == (1 .. Len(kept)) \ {1}
    <3>2. rest = Entries(kept, places) /\ places \in SUBSET (1 .. Len(kept))
          /\ 1 \notin places /\ 1 \in 1 .. Len(kept)
      BY <1>3, <1>4, <2>3, <2>5, <3>1, EvictsFirst
    <3>3. /\ Entries(kept, places) \in Seq(Held) /\ Len(Entries(kept, places)) \in Nat
          /\ Len(Entries(kept, places)) < Len(kept)
          /\ \E from : PartOf(Entries(kept, places), kept, from)
                       /\ Left(Entries(kept, places), from) = places
      BY <1>3, <3>2, EntriesArePart
    <3>4. PICK from : PartOf(rest, kept, from) /\ Left(rest, from) = places
      BY <3>2, <3>3
    <3>5. \A k \in 1 .. Len(rest) : rest[k].bucket # b
      <4>1. \A k \in 1 .. Len(rest) : from[k] \in 1 .. Len(kept) /\ rest[k] = kept[from[k]]
        BY <3>4 DEF PartOf
      <4>2. QED
        BY <2>1, <4>1
    <3>6. \A i \in 1 .. Len(kept) : i \notin Left(rest, from) => i = 1
      BY <3>4
    <3>7. rest \in Seq(Held) /\ Len(rest) < MaxKeys
      BY <3>1, <3>2, <3>3
    <3> HIDE DEF rest, places, e2
    <3>8. Goal
      BY <1>1, <2>1, <3>1, <3>4, <3>5, <3>6, <3>7, UseKeeps DEF e2
    <3>9. QED
      BY <1>2, <2>2, <3>8 DEF e2
  <2>6. QED
    BY <2>4, <2>5
<1>8. QED
  BY <1>6, <1>7

-----------------------------------------------------------------------------
(* The buckets of a request.                                               *)

\* The recursion of FoldLeft: over the places of a sequence, the last one first.
SpendsTo(g, base, bs) ==
    g = [S \in SUBSET DOMAIN bs |->
            IF S = {} THEN base ELSE LET x == Max(S) IN Spend(g[S \ {x}], bs[x])]

Start == [store |-> store, allowed |-> TRUE, spent |-> <<>>]

\* The fold over the buckets of a request, as the function it chooses.
LEMMA ChargedIs ==
    ASSUME NEW bs
    PROVE  Charged(bs) = (CHOOSE g : SpendsTo(g, Start, bs))[DOMAIN bs]
BY DEF Charged, FoldLeft, MapThenFoldSet, SpendsTo, Start

\* The number of buckets of a request is one or two.
LEMMA GreatestOfTwo ==
    /\ Max({1}) = 1 /\ Max({2}) = 2 /\ Max({1, 2}) = 2
<1>1. ASSUME NEW S \in SUBSET {1, 2}, NEW m \in S, \A y \in S : m >= y
      PROVE  Max(S) = m
  <2>1. Max(S) \in S /\ \A y \in S : Max(S) >= y
    BY <1>1 DEF Max
  <2>2. Max(S) >= m /\ m >= Max(S)
    BY <1>1, <2>1
  <2>3. Max(S) \in {1, 2} /\ m \in {1, 2}
    BY <1>1, <2>1
  <2>4. QED
    BY <2>2, <2>3
<1>2. Max({1}) = 1
  BY <1>1
<1>3. Max({2}) = 2
  BY <1>1
<1>4. Max({1, 2}) = 2
  BY <1>1
<1>5. QED
  BY <1>2, <1>3, <1>4

\* A request of one bucket.
LEMMA ChargedOne ==
    ASSUME NEW x
    PROVE  Charged(<<x>>) = Spend(Start, x)
<1> DEFINE bs == <<x>>
           one == Spend(Start, x)
           base == Start
           g == [S \in SUBSET {1} |-> IF S = {} THEN base ELSE one]
<1>1. DOMAIN bs = {1} /\ bs[1] = x
  OBVIOUS
<1>2. one = Spend(base, bs[1])
  BY <1>1
<1> HIDE DEF bs, one, base
<1>3. \A S \in SUBSET {1} : S = {} \/ S = {1}
  OBVIOUS
<1>4. SpendsTo(g, base, bs)
  <2> SUFFICES ASSUME NEW S \in SUBSET {1}
               PROVE  g[S] = IF S = {} THEN base ELSE Spend(g[S \ {Max(S)}], bs[Max(S)])
    BY <1>1 DEF SpendsTo
  <2>1. CASE S = {}
    BY <2>1
  <2>2. CASE S = {1}
    <3>1. Max(S) = 1 /\ S \ {Max(S)} = {} /\ S # {}
      BY <2>2, GreatestOfTwo
    <3>2. g[{}] = base /\ g[S] = one
      BY <3>1
    <3>3. QED
      BY <1>2, <3>1, <3>2
  <2>3. QED
    BY <1>3, <2>1, <2>2
<1> HIDE DEF g
<1>5. PICK h : SpendsTo(h, base, bs) /\ h = CHOOSE f : SpendsTo(f, base, bs)
  BY <1>4
<1>6. \A S \in SUBSET {1} : h[S] = IF S = {} THEN base ELSE Spend(h[S \ {Max(S)}], bs[Max(S)])
  BY <1>1, <1>5 DEF SpendsTo
<1>7. h[{1}] = one
  <2>1. h[{}] = base
    BY <1>6
  <2>2. h[{1}] = Spend(h[{1} \ {1}], bs[1])
    BY <1>6, GreatestOfTwo
  <2>3. {1} \ {1} = {}
    OBVIOUS
  <2>4. QED
    BY <1>2, <2>1, <2>2, <2>3
<1>8. Charged(bs) = h[{1}]
  BY <1>1, <1>5, ChargedIs DEF base
<1>9. QED
  BY <1>7, <1>8 DEF bs, one

\* A request of two buckets.
LEMMA ChargedTwo ==
    ASSUME NEW x, NEW y
    PROVE  Charged(<<x, y>>) = Spend(Spend(Start, x), y)
<1> DEFINE bs == <<x, y>>
           base == Start
           one == Spend(base, x)
           two == Spend(base, y)
           both == Spend(one, y)
           g == [S \in SUBSET {1, 2} |->
                    IF S = {} THEN base
                    ELSE IF S = {1} THEN one ELSE IF S = {2} THEN two ELSE both]
<1>1. DOMAIN bs = {1, 2} /\ bs[1] = x /\ bs[2] = y
  OBVIOUS
<1>2. one = Spend(base, bs[1]) /\ two = Spend(base, bs[2]) /\ both = Spend(one, bs[2])
  BY <1>1
<1> HIDE DEF bs, base, one, two, both
<1>3. \A S \in SUBSET {1, 2} : S = {} \/ S = {1} \/ S = {2} \/ S = {1, 2}
  OBVIOUS
<1>4. {1} # {} /\ {2} # {} /\ {1, 2} # {} /\ {1, 2} # {1} /\ {1, 2} # {2} /\ {1} # {2}
      /\ {1} \ {1} = {} /\ {2} \ {2} = {} /\ {1, 2} \ {2} = {1}
  OBVIOUS
<1>5. g[{}] = base /\ g[{1}] = one /\ g[{2}] = two /\ g[{1, 2}] = both
  BY <1>4
<1>6. SpendsTo(g, base, bs)
  <2> SUFFICES ASSUME NEW S \in SUBSET {1, 2}
               PROVE  g[S] = IF S = {} THEN base ELSE Spend(g[S \ {Max(S)}], bs[Max(S)])
    BY <1>1 DEF SpendsTo
  <2> HIDE DEF g
  <2>1. CASE S = {}
    BY <1>5, <2>1
  <2>2. CASE S = {1}
    BY <1>2, <1>4, <1>5, <2>2, GreatestOfTwo
  <2>3. CASE S = {2}
    BY <1>2, <1>4, <1>5, <2>3, GreatestOfTwo
  <2>4. CASE S = {1, 2}
    BY <1>2, <1>4, <1>5, <2>4, GreatestOfTwo
  <2>5. QED
    BY <1>3, <2>1, <2>2, <2>3, <2>4
<1> HIDE DEF g
<1>7. PICK h : SpendsTo(h, base, bs) /\ h = CHOOSE f : SpendsTo(f, base, bs)
  BY <1>6
<1>8. \A S \in SUBSET {1, 2} : h[S] = IF S = {} THEN base ELSE Spend(h[S \ {Max(S)}], bs[Max(S)])
  BY <1>1, <1>7 DEF SpendsTo
<1>9. h[{1, 2}] = both
  <2>1. h[{}] = base
    BY <1>8
  <2>2. h[{1}] = Spend(h[{1} \ {1}], bs[1])
    BY <1>4, <1>8, GreatestOfTwo
  <2>3. h[{1, 2}] = Spend(h[{1, 2} \ {2}], bs[2])
    BY <1>4, <1>8, GreatestOfTwo
  <2>4. QED
    BY <1>2, <1>4, <2>1, <2>2, <2>3
<1>10. Charged(bs) = h[{1, 2}]
  BY <1>1, <1>7, ChargedIs DEF base
<1>11. QED
  BY <1>9, <1>10 DEF bs, base, one, both

-----------------------------------------------------------------------------
(* The histories after a request.                                          *)

SpentBefore(sp, b) ==
    {sp[k] : k \in {n \in DOMAIN sp : \E j \in DOMAIN sp : n < j /\ sp[j] = b}}
SpentAfter(sp, b) ==
    {sp[k] : k \in {n \in DOMAIN sp : \E j \in 1 .. (n - 1) : sp[j] = b}}

\* What a charge assigns.
LEMMA ChargeIs ==
    ASSUME NEW c, Charge(c)
    PROVE  /\ store' = c.store
           /\ cleaned' = IF tick - cleaned < CleanupEvery THEN cleaned ELSE tick
           /\ due' = [b \in Bucket |-> IF b \notin ToSet(c.spent) THEN Owed(b)
                                       ELSE Spent(DueAfter(b, Owed(b), SpentBefore(c.spent, b)))]
           /\ used' = [b \in Bucket |-> IF b \in ToSet(c.spent) THEN tick ELSE used[b]]
           /\ rivals' = [b \in Bucket |-> IF b \in ToSet(c.spent) THEN SpentAfter(c.spent, b)
                                          ELSE rivals[b] \cup ToSet(c.spent)]
BY DEF Charge, SpentBefore, SpentAfter, Spent

\* A bucket is due in full once as many others were used as are kept.
LEMMA DueAfterIs ==
    ASSUME NEW b, NEW tokens, NEW since
    PROVE  DueAfter(b, tokens, since)
             = IF Cardinality(rivals[b] \cup since) >= MaxKeys THEN Full(b)
               ELSE RefillAt(tick, b, tokens, used[b])
BY DEF DueAfter, Refilled, RefillAt

\* Who was spent before and after, when one bucket was.
LEMMA OneSpent ==
    ASSUME NEW x
    PROVE  /\ ToSet(<<x>>) = {x}
           /\ \A b : SpentBefore(<<x>>, b) = {} /\ SpentAfter(<<x>>, b) = {}
<1> DEFINE sp == <<x>>
<1>1. DOMAIN sp = {1} /\ sp[1] = x
  OBVIOUS
<1> HIDE DEF sp
<1>2. ToSet(sp) = {x}
  BY <1>1 DEF ToSet
<1>3. ASSUME NEW b PROVE SpentBefore(sp, b) = {} /\ SpentAfter(sp, b) = {}
  <2>1. \A n, j \in {1} : ~(n < j)
    OBVIOUS
  <2>2. \A n \in {1} : ~ \E j \in 1 .. (n - 1) : TRUE
    OBVIOUS
  <2>3. SpentBefore(sp, b) = {}
    BY <1>1, <2>1 DEF SpentBefore
  <2>4. SpentAfter(sp, b) = {}
    BY <1>1, <2>2 DEF SpentAfter
  <2>5. QED
    BY <2>3, <2>4
<1>4. QED
  BY <1>2, <1>3 DEF sp

\* And when two different ones were.
LEMMA TwoSpent ==
    ASSUME NEW x, NEW y, x # y
    PROVE  /\ ToSet(<<x, y>>) = {x, y}
           /\ SpentBefore(<<x, y>>, x) = {} /\ SpentAfter(<<x, y>>, x) = {y}
           /\ SpentBefore(<<x, y>>, y) = {x} /\ SpentAfter(<<x, y>>, y) = {}
<1> DEFINE sp == <<x, y>>
<1>1. DOMAIN sp = {1, 2} /\ sp[1] = x /\ sp[2] = y
  OBVIOUS
<1> HIDE DEF sp
<1>2. ToSet(sp) = {x, y}
  BY <1>1 DEF ToSet
<1>3. \A n, j \in {1, 2} : n < j <=> n = 1 /\ j = 2
  OBVIOUS
<1>4. \A n \in {1, 2} : \A j : j \in 1 .. (n - 1) <=> n = 2 /\ j = 1
  OBVIOUS
<1>5. {n \in {1, 2} : \E j \in {1, 2} : n < j /\ sp[j] = x} = {}
  BY <1>1, <1>3
<1>6. {n \in {1, 2} : \E j \in {1, 2} : n < j /\ sp[j] = y} = {1}
  BY <1>1, <1>3
<1>7. {n \in {1, 2} : \E j \in 1 .. (n - 1) : sp[j] = x} = {2}
  BY <1>1, <1>4
<1>8. {n \in {1, 2} : \E j \in 1 .. (n - 1) : sp[j] = y} = {}
  BY <1>1, <1>4
<1>9. SpentBefore(sp, x) = {} /\ SpentAfter(sp, x) = {y}
  BY <1>1, <1>5, <1>7 DEF SpentBefore, SpentAfter
<1>10. SpentBefore(sp, y) = {x} /\ SpentAfter(sp, y) = {}
  BY <1>1, <1>6, <1>8 DEF SpentBefore, SpentAfter
<1>11. QED
  BY <1>2, <1>9, <1>10 DEF sp

\* The histories after one bucket was spent.
LEMMA ChargeOne ==
    ASSUME tick \in Nat, NEW owed, owed = OwedOf(due, used),
           Histories(tick, owed, used, rivals), NEW x \in Bucket,
           NEW c, Charge(c), c.spent = <<x>>
    PROVE  /\ due' = DueUsed(tick, owed, used, rivals, x)
           /\ used' = TimesUsed(tick, used, x)
           /\ rivals' = RivalsUsed(rivals, x)
<1>0. \A b \in Bucket : owed[b] = Owed(b)
  BY DEF OwedOf, Owed, IdleBucket
<1>1. /\ ToSet(c.spent) = {x} /\ SpentBefore(c.spent, x) = {} /\ SpentAfter(c.spent, x) = {}
  BY OneSpent
<1>2. DueAfter(x, owed[x], {}) = DueAt(tick, owed, used, rivals, x)
  <2>1. rivals[x] \cup {} = rivals[x]
    OBVIOUS
  <2>2. QED
    BY <2>1, DueAfterIs DEF DueAt
<1> DEFINE after == Spent(DueAt(tick, owed, used, rivals, x))
<1>3. /\ due' = [b \in Bucket |-> IF b # x THEN owed[b] ELSE after]
      /\ used' = [b \in Bucket |-> IF b = x THEN tick ELSE used[b]]
      /\ rivals' = [b \in Bucket |-> IF b = x THEN {} ELSE rivals[b] \cup {x}]
  <2>1. /\ due' = [b \in Bucket |-> IF b \notin ToSet(c.spent) THEN owed[b]
                                     ELSE Spent(DueAfter(b, owed[b], SpentBefore(c.spent, b)))]
        /\ used' = [b \in Bucket |-> IF b \in ToSet(c.spent) THEN tick ELSE used[b]]
        /\ rivals' = [b \in Bucket |-> IF b \in ToSet(c.spent) THEN SpentAfter(c.spent, b)
                                       ELSE rivals[b] \cup ToSet(c.spent)]
    BY <1>0, ChargeIs
  <2>2. \A b \in Bucket : b \in ToSet(c.spent) <=> b = x
    BY <1>1
  <2>3. Spent(DueAfter(x, owed[x], SpentBefore(c.spent, x))) = after
    BY <1>1, <1>2
  <2> HIDE DEF after
  <2>4. \A b \in Bucket :
          (IF b \notin ToSet(c.spent) THEN owed[b] ELSE Spent(DueAfter(b, owed[b], SpentBefore(c.spent, b))))
            = IF b # x THEN owed[b] ELSE after
    BY <2>2, <2>3
  <2>5. \A b \in Bucket :
          (IF b \in ToSet(c.spent) THEN SpentAfter(c.spent, b) ELSE rivals[b] \cup ToSet(c.spent))
            = IF b = x THEN {} ELSE rivals[b] \cup {x}
    BY <1>1, <2>2
  <2>6. due' = [b \in Bucket |-> IF b # x THEN owed[b] ELSE after]
    BY <2>1, <2>4
  <2>7. used' = [b \in Bucket |-> IF b = x THEN tick ELSE used[b]]
    BY <2>1, <2>2
  <2>8. rivals' = [b \in Bucket |-> IF b = x THEN {} ELSE rivals[b] \cup {x}]
    BY <2>1, <2>5
  <2>9. QED
    BY <2>6, <2>7, <2>8
<1>4. due' = [owed EXCEPT ![x] = after] /\ used' = [used EXCEPT ![x] = tick]
  <2> HIDE DEF after
  <2>1. owed = [b \in Bucket |-> owed[b]] /\ used = [b \in Bucket |-> used[b]]
    BY DEF Histories
  <2>2. QED
    BY <1>3, <2>1
<1>5. QED
  BY <1>3, <1>4 DEF DueUsed, TimesUsed, RivalsUsed

\* After two, they are those after the one and then the other.
LEMMA ChargeTwo ==
    ASSUME tick \in Nat, NEW owed, owed = OwedOf(due, used),
           Histories(tick, owed, used, rivals), NEW x \in Bucket, NEW y \in Bucket,
           x # y, NEW c, Charge(c), c.spent = <<x, y>>,
           NEW d1, d1 = DueUsed(tick, owed, used, rivals, x),
           NEW u1, u1 = TimesUsed(tick, used, x),
           NEW r1, r1 = RivalsUsed(rivals, x)
    PROVE  /\ due' = DueUsed(tick, d1, u1, r1, y)
           /\ used' = TimesUsed(tick, u1, y)
           /\ rivals' = RivalsUsed(r1, y)
<1>0. \A b \in Bucket : owed[b] = Owed(b)
  BY DEF OwedOf, Owed, IdleBucket
<1>1. /\ ToSet(c.spent) = {x, y}
      /\ SpentBefore(c.spent, x) = {} /\ SpentAfter(c.spent, x) = {y}
      /\ SpentBefore(c.spent, y) = {x} /\ SpentAfter(c.spent, y) = {}
  BY TwoSpent
<1>2. /\ d1 = [owed EXCEPT ![x] = Spent(DueAt(tick, owed, used, rivals, x))]
      /\ u1 = [used EXCEPT ![x] = tick]
      /\ \A b \in Bucket : r1[b] = IF b = x THEN {} ELSE rivals[b] \cup {x}
  BY DEF DueUsed, TimesUsed, RivalsUsed
<1>3. DueAfter(x, owed[x], {}) = DueAt(tick, owed, used, rivals, x)
  <2>1. rivals[x] \cup {} = rivals[x]
    OBVIOUS
  <2>2. QED
    BY <2>1, DueAfterIs DEF DueAt
<1>4. DueAfter(y, owed[y], {x}) = DueAt(tick, d1, u1, r1, y)
  <2>1. r1[y] = rivals[y] \cup {x}
    BY <1>2
  <2>2. d1[y] = owed[y] /\ u1[y] = used[y]
    <3> DEFINE v == Spent(DueAt(tick, owed, used, rivals, x))
    <3> HIDE DEF v
    <3>1. d1 = [owed EXCEPT ![x] = v] /\ u1 = [used EXCEPT ![x] = tick]
      BY <1>2 DEF v
    <3>2. QED
      BY <3>1 DEF Histories
  <2>3. QED
    BY <2>1, <2>2, DueAfterIs DEF DueAt
<1> DEFINE first == Spent(DueAt(tick, owed, used, rivals, x))
           second == Spent(DueAt(tick, d1, u1, r1, y))
<1>5. /\ due' = [b \in Bucket |-> IF b \notin ToSet(c.spent) THEN owed[b]
                                  ELSE Spent(DueAfter(b, owed[b], SpentBefore(c.spent, b)))]
      /\ used' = [b \in Bucket |-> IF b \in ToSet(c.spent) THEN tick ELSE used[b]]
      /\ rivals' = [b \in Bucket |-> IF b \in ToSet(c.spent) THEN SpentAfter(c.spent, b)
                                     ELSE rivals[b] \cup ToSet(c.spent)]
  BY <1>0, ChargeIs
<1>6. /\ Spent(DueAfter(x, owed[x], SpentBefore(c.spent, x))) = first
      /\ Spent(DueAfter(y, owed[y], SpentBefore(c.spent, y))) = second
  BY <1>1, <1>3, <1>4
<1>7. d1 = [owed EXCEPT ![x] = first]
  BY <1>2
<1>8. /\ DueUsed(tick, d1, u1, r1, y) = [d1 EXCEPT ![y] = second]
      /\ TimesUsed(tick, u1, y) = [u1 EXCEPT ![y] = tick]
      /\ RivalsUsed(r1, y) = [b \in Bucket |-> IF b = y THEN {} ELSE r1[b] \cup {y}]
  BY DEF DueUsed, TimesUsed, RivalsUsed
<1> HIDE DEF first, second
<1>9. \A b \in Bucket : b \in ToSet(c.spent) <=> b = x \/ b = y
  BY <1>1
<1>10. owed = [b \in Bucket |-> owed[b]] /\ used = [b \in Bucket |-> used[b]]
  BY DEF Histories
<1>11. due' = [d1 EXCEPT ![y] = second]
  <2>1. \A b \in Bucket :
          (IF b \notin ToSet(c.spent) THEN owed[b] ELSE Spent(DueAfter(b, owed[b], SpentBefore(c.spent, b))))
            = IF b = y THEN second ELSE IF b = x THEN first ELSE owed[b]
    BY <1>6, <1>9
  <2>2. due' = [b \in Bucket |-> IF b = y THEN second ELSE IF b = x THEN first ELSE owed[b]]
    BY <1>5, <2>1
  <2>3. d1 = [b \in Bucket |-> IF b = x THEN first ELSE owed[b]]
    BY <1>7, <1>10
  <2>4. QED
    BY <2>2, <2>3
<1>12. used' = [u1 EXCEPT ![y] = tick]
  <2>1. used' = [b \in Bucket |-> IF b = y THEN tick ELSE IF b = x THEN tick ELSE used[b]]
    BY <1>5, <1>9
  <2>2. u1 = [b \in Bucket |-> IF b = x THEN tick ELSE used[b]]
    BY <1>2, <1>10
  <2>3. QED
    BY <2>1, <2>2
<1>13. rivals' = [b \in Bucket |-> IF b = y THEN {} ELSE r1[b] \cup {y}]
  <2>1. ASSUME NEW b \in Bucket
        PROVE  (IF b \in ToSet(c.spent) THEN SpentAfter(c.spent, b) ELSE rivals[b] \cup ToSet(c.spent))
                 = IF b = y THEN {} ELSE r1[b] \cup {y}
    <3>1. CASE b = y
      BY <1>1, <3>1
    <3>2. CASE b = x
      <4>1. r1[b] \cup {y} = {y}
        BY <1>2, <3>2
      <4>2. QED
        BY <1>1, <3>2, <4>1
    <3>3. CASE b # x /\ b # y
      <4>1. r1[b] \cup {y} = rivals[b] \cup {x, y}
        BY <1>2, <3>3
      <4>2. QED
        BY <1>1, <3>3, <4>1
    <3>4. QED
      BY <3>1, <3>2, <3>3
  <2>2. QED
    BY <1>5, <2>1
<1>14. QED
  BY <1>8, <1>11, <1>12, <1>13

-----------------------------------------------------------------------------
(* The limiter holds.                                                      *)

LimitInv ==
    /\ tick \in 0 .. MaxTick /\ cleaned \in 0 .. tick
    /\ reading \in SUBSET (Address \X Account)
    /\ Sound(tick, store, due, used, rivals)

\* A request draws on one bucket, or on two of different rules.
LEMMA ChargeKeeps ==
    ASSUME LimitInv, NEW bs, Charge(Charged(bs)),
           NEW x \in Bucket, NEW y \in Bucket, x # y, bs = <<x>> \/ bs = <<x, y>>
    PROVE  Sound(tick, store', due', used', rivals') /\ cleaned' \in 0 .. tick
<1>1. /\ tick \in Nat /\ cleaned \in 0 .. tick /\ cleaned \in Nat
      /\ Sound(tick, store, due, used, rivals)
  BY DEF LimitInv
<1>2. PICK owed : owed = OwedOf(due, used)
  OBVIOUS
<1>3. Sound(tick, Cleanup(store), owed, used, rivals)
  BY <1>1, <1>2, CleanupKeeps
<1>4. Histories(tick, owed, used, rivals)
  BY <1>3 DEF Sound
<1>5. PICK c : c = Charged(bs)
  OBVIOUS
<1>6. Charge(c)
  BY <1>5
<1>7. store' = c.store /\ cleaned' = IF tick - cleaned < CleanupEvery THEN cleaned ELSE tick
  BY <1>6, ChargeIs
<1>8. cleaned' \in 0 .. tick
  BY <1>1, <1>7
<1>9. PICK s0 : s0 = store
  OBVIOUS
<1>10. PICK s1 : s1 = Consume(s0, x).store
  OBVIOUS
<1>11. PICK s2 : s2 = Consume(s1, y).store
  OBVIOUS
<1>12. PICK d1 : d1 = DueUsed(tick, owed, used, rivals, x)
  OBVIOUS
<1>13. PICK u1 : u1 = TimesUsed(tick, used, x)
  OBVIOUS
<1>14. PICK r1 : r1 = RivalsUsed(rivals, x)
  OBVIOUS
<1>15. Sound(tick, s1, d1, u1, r1)
  BY <1>1, <1>9, <1>10, <1>12, <1>13, <1>14, <1>3, ConsumeKeeps
<1>16. OwedOf(d1, u1) = d1
  <2>1. used \in [Bucket -> Nat] /\ d1 \in [Bucket -> Nat]
    BY <1>4, <1>15 DEF Sound, Histories
  <2> DEFINE v == Spent(DueAt(tick, owed, used, rivals, x))
  <2> HIDE DEF v
  <2>2. d1 = [owed EXCEPT ![x] = v] /\ owed \in [Bucket -> Nat]
    BY <1>4, <1>12 DEF DueUsed, Histories, v
  <2>3. OwedButFor(x, d1, due, used)
    BY <1>2, <2>1, <2>2 DEF OwedButFor
  <2>4. QED
    BY <1>1, <1>13, <2>1, <2>3, OwedOnce
<1>17. Sound(tick, Cleanup(s1), d1, u1, r1)
  BY <1>1, <1>15, <1>16, CleanupKeeps
<1>18. Sound(tick, s2, DueUsed(tick, d1, u1, r1, y), TimesUsed(tick, u1, y), RivalsUsed(r1, y))
  BY <1>1, <1>11, <1>17, ConsumeKeeps
<1>19. /\ Spend(Start, x).store = s1 /\ Spend(Start, x).spent = <<x>>
       /\ Spend(Start, x).allowed = Consume(s0, x).allowed
  <2>1. /\ Start.store = s0 /\ Start.allowed = TRUE /\ Start.spent = <<>>
    BY <1>9 DEF Start
  <2>2. Append(<<>>, x) = <<x>>
    OBVIOUS
  <2>3. Spend(Start, x) = [store |-> s1, allowed |-> Consume(s0, x).allowed, spent |-> <<x>>]
    BY <1>10, <2>1, <2>2 DEF Spend
  <2>4. QED
    BY <2>3
<1>20. CASE c = Spend(Start, x)
  <2>1. c.spent = <<x>> /\ c.store = s1
    BY <1>19, <1>20
  <2>2. due' = d1 /\ used' = u1 /\ rivals' = r1
    BY <1>1, <1>4, <1>6, <1>12, <1>13, <1>14, <1>2, <2>1, ChargeOne
  <2>3. QED
    BY <1>7, <1>8, <1>15, <2>1, <2>2
<1>21. CASE c = Spend(Spend(Start, x), y)
  <2>1. CASE ~Consume(s0, x).allowed
    <3>1. c = Spend(Start, x)
      BY <1>19, <1>21, <2>1 DEF Spend
    <3>2. QED
      BY <1>20, <3>1
  <2>2. CASE Consume(s0, x).allowed
    <3>1. Append(<<x>>, y) = <<x, y>>
      <4> DEFINE s == Append(<<x>>, y)
      <4>1. <<x>> \in Seq({x, y}) /\ Len(<<x>>) = 1 /\ <<x>>[1] = x
        OBVIOUS
      <4>2. /\ s \in Seq({x, y}) /\ Len(s) = 2 /\ s[1] = x /\ s[2] = y
        BY <4>1, AppendProperties
      <4> HIDE DEF s
      <4>3. s \in [1 .. 2 -> {x, y}]
        BY <4>2, LenProperties
      <4>4. s = <<x, y>>
        BY <4>2, <4>3
      <4>5. QED
        BY <4>4 DEF s
    <3>2. c = [store |-> s2, allowed |-> Consume(s1, y).allowed, spent |-> <<x, y>>]
      <4>1. c = [store |-> Consume(Spend(Start, x).store, y).store,
                 allowed |-> Consume(Spend(Start, x).store, y).allowed,
                 spent |-> Append(Spend(Start, x).spent, y)]
        <5> DEFINE w == Spend(Start, x)
        <5>1. c = Spend(w, y) /\ w.allowed
          BY <1>19, <1>21, <2>2
        <5> HIDE DEF w
        <5>2. c = [store |-> Consume(w.store, y).store,
                   allowed |-> Consume(w.store, y).allowed,
                   spent |-> Append(w.spent, y)]
          BY <5>1 DEF Spend
        <5>3. QED
          BY <5>2 DEF w
      <4>2. QED
        BY <1>11, <1>19, <3>1, <4>1
    <3>3. c.spent = <<x, y>> /\ c.store = s2
      BY <3>2
    <3>4. /\ due' = DueUsed(tick, d1, u1, r1, y)
          /\ used' = TimesUsed(tick, u1, y)
          /\ rivals' = RivalsUsed(r1, y)
      BY <1>1, <1>4, <1>6, <1>12, <1>13, <1>14, <1>2, <3>3, ChargeTwo
    <3>5. QED
      BY <1>7, <1>8, <1>18, <3>3, <3>4
  <2>3. QED
    BY <2>1, <2>2
<1>22. c = Spend(Start, x) \/ c = Spend(Spend(Start, x), y)
  BY <1>5, ChargedOne, ChargedTwo
<1>23. QED
  BY <1>20, <1>21, <1>22

\* A sound store stays sound as time passes.
LEMMA SoundLater ==
    ASSUME NEW now \in Nat, NEW s, NEW du, NEW us, NEW ri, Sound(now, s, du, us, ri)
    PROVE  Sound(now + 1, s, du, us, ri)
<1>0. /\ Ordered(now, s) /\ Len(s) <= MaxKeys /\ Histories(now, du, us, ri)
      /\ Agrees(s, du, us, ri) /\ Restored(now, s, du, us, ri)
  BY DEF Sound
<1>1. Ordered(now + 1, s)
  <2>1. \A k \in 1 .. Len(s) : s[k].at \in Nat /\ s[k].at <= now
    BY <1>0, OrderedFacts DEF Ordered
  <2>2. \A k \in 1 .. Len(s) : s[k].at <= now + 1
    BY <2>1
  <2>3. QED
    BY <1>0, <2>2 DEF Ordered
<1>2. Histories(now + 1, du, us, ri)
  <2>1. \A b \in Bucket : us[b] \in Nat /\ us[b] <= now
    BY <1>0 DEF Histories
  <2>2. \A b \in Bucket : us[b] <= now + 1
    BY <2>1
  <2>3. QED
    BY <1>0, <2>2 DEF Histories
<1>3. Restored(now + 1, s, du, us, ri)
  <2> SUFFICES ASSUME NEW b \in Bucket, \A k \in 1 .. Len(s) : s[k].bucket # b
               PROVE  DueAt(now + 1, du, us, ri, b) = Full(b)
    BY DEF Restored
  <2>1. DueAt(now, du, us, ri, b) = Full(b)
    BY <1>0 DEF Restored
  <2>2. du[b] \in Nat /\ us[b] \in Nat /\ us[b] <= now
    BY <1>0 DEF Histories
  <2>3. CASE Cardinality(ri[b]) >= MaxKeys
    BY <2>3 DEF DueAt
  <2>4. CASE ~(Cardinality(ri[b]) >= MaxKeys)
    <3>1. RefillAt(now, b, du[b], us[b]) = Full(b)
      BY <2>1, <2>4 DEF DueAt
    <3>2. RefillAt(now + 1, b, du[b], us[b]) = Full(b)
      BY <2>2, <3>1, RefillIs
    <3>3. QED
      BY <3>2 DEF DueAt
  <2>5. QED
    BY <2>3, <2>4
<1>4. QED
  BY <1>0, <1>1, <1>2, <1>3 DEF Sound

\* An empty store is sound.
LEMMA LimitInitially ==
    ASSUME LimitInit
    PROVE  LimitInv
<1>1. Ordered(0, <<>>) /\ Len(<<>>) = 0 /\ Len(<<>>) <= MaxKeys
  <2>1. <<>> \in Seq(Held) /\ Len(<<>>) = 0
    BY EmptySeq
  <2>2. QED
    BY <2>1, LimitConstants DEF Ordered
<1>2. /\ due = [b \in Bucket |-> Full(b)] /\ used = [b \in Bucket |-> 0]
      /\ rivals = [b \in Bucket |-> {}] /\ store = <<>> /\ tick = 0 /\ cleaned = 0 /\ reading = {}
  BY DEF LimitInit
<1>3. Histories(0, due, used, rivals)
  <2>1. \A b \in Bucket : due[b] = Full(b) /\ used[b] = 0 /\ rivals[b] = {}
    BY <1>2
  <2>2. due \in [Bucket -> Nat] /\ used \in [Bucket -> Nat] /\ rivals \in [Bucket -> SUBSET Bucket]
    BY <1>2, LimitConstants
  <2>3. \A b \in Bucket : due[b] <= Full(b) /\ used[b] <= 0 /\ IsFiniteSet(rivals[b])
    <3> SUFFICES ASSUME NEW b \in Bucket
                 PROVE  due[b] <= Full(b) /\ used[b] <= 0 /\ IsFiniteSet(rivals[b])
      OBVIOUS
    <3>1. Full(b) \in Nat
      BY LimitConstants
    <3>2. due[b] <= Full(b) /\ used[b] <= 0
      BY <2>1, <3>1
    <3>3. IsFiniteSet(rivals[b])
      BY <2>1, FS_EmptySet
    <3>4. QED
      BY <3>2, <3>3
  <2>4. QED
    BY <2>2, <2>3 DEF Histories
<1>4. Agrees(<<>>, due, used, rivals)
  BY <1>1 DEF Agrees
<1>5. Restored(0, <<>>, due, used, rivals)
  <2> SUFFICES ASSUME NEW b \in Bucket PROVE DueAt(0, due, used, rivals, b) = Full(b)
    BY DEF Restored
  <2>1. due[b] = Full(b) /\ used[b] = 0 /\ rivals[b] = {}
    BY <1>2
  <2>2. ~(Cardinality(rivals[b]) >= MaxKeys)
    BY <2>1, FS_EmptySet, LimitConstants
  <2>3. DueAt(0, due, used, rivals, b) = RefillAt(0, b, Full(b), 0)
    BY <2>1, <2>2 DEF DueAt
  <2> DEFINE m == MaxRequests[b[1]]
             f == Full(b)
  <2>4. f \in Nat /\ m \in Nat
    BY LimitConstants
  <2> HIDE DEF m, f
  <2>5. f + (0 - 0) * m = f
    BY <2>4
  <2>6. Min({f, f}) = f
    BY <2>4, LesserOf
  <2>7. RefillAt(0, b, f, 0) = Min({f, f + (0 - 0) * m})
    BY DEF RefillAt, f, m
  <2>8. QED
    BY <2>3, <2>5, <2>6, <2>7 DEF f
<1>6. Sound(tick, store, due, used, rivals)
  BY <1>1, <1>2, <1>3, <1>4, <1>5 DEF Sound
<1>7. tick \in 0 .. MaxTick /\ cleaned \in 0 .. tick
  BY <1>2, LimitConstants
<1>8. QED
  BY <1>2, <1>6, <1>7 DEF LimitInv

\* Every request and every tick keeps the store sound.
LEMMA LimitStep ==
    ASSUME LimitInv, [LimitNext]_limitVars
    PROVE  LimitInv'
<1>1. /\ tick \in 0 .. MaxTick /\ cleaned \in 0 .. tick /\ tick \in Nat
      /\ reading \in SUBSET (Address \X Account) /\ Sound(tick, store, due, used, rivals)
  BY DEF LimitInv
<1>2. \A a \in Address : /\ <<"global-ip", a>> \in Bucket /\ <<"auth-ip", a>> \in Bucket
                         /\ <<"global-ip", a>> # <<"auth-ip", a>>
  BY DEF Bucket
<1>3. ASSUME tick' = tick, reading' \in SUBSET (Address \X Account),
             Sound(tick, store', due', used', rivals'), cleaned' \in 0 .. tick
      PROVE  LimitInv'
  BY <1>1, <1>3 DEF LimitInv
<1>4. ASSUME NEW a \in Address, PlainRequest(a) PROVE LimitInv'
  <2>1. Charge(Charged(<<<<"global-ip", a>>>>)) /\ tick' = tick /\ reading' = reading
    BY <1>4 DEF PlainRequest
  <2>2. Sound(tick, store', due', used', rivals') /\ cleaned' \in 0 .. tick
    BY <1>2, <2>1, ChargeKeeps
  <2>3. QED
    BY <1>1, <1>3, <2>1, <2>2
<1>5. ASSUME NEW a \in Address, AuthRequest(a) PROVE LimitInv'
  <2>1. /\ Charge(Charged(<<<<"global-ip", a>>, <<"auth-ip", a>>>>)) /\ tick' = tick
        /\ reading' = reading \/ \E u \in Account : reading' = reading \cup {<<a, u>>}
    BY <1>5 DEF AuthRequest
  <2>2. Sound(tick, store', due', used', rivals') /\ cleaned' \in 0 .. tick
    BY <1>2, <2>1, ChargeKeeps
  <2>3. reading' \in SUBSET (Address \X Account)
    BY <1>1, <2>1
  <2>4. QED
    BY <1>3, <2>1, <2>2, <2>3
<1>6. ASSUME NEW r \in reading, AccountRequest(r) PROVE LimitInv'
  <2>1. /\ Charge(Charged(<<<<"auth-account", r[2]>>>>)) /\ tick' = tick
        /\ reading' = reading \ {r}
    BY <1>6 DEF AccountRequest
  <2>2. /\ <<"auth-account", r[2]>> \in Bucket /\ <<"global-ip", r[1]>> \in Bucket
        /\ <<"auth-account", r[2]>> # <<"global-ip", r[1]>>
    <3>1. r[1] \in Address /\ r[2] \in Account
      BY <1>1
    <3>2. QED
      BY <3>1 DEF Bucket
  <2>3. Sound(tick, store', due', used', rivals') /\ cleaned' \in 0 .. tick
    BY <2>1, <2>2, ChargeKeeps
  <2>4. QED
    BY <1>1, <1>3, <2>1, <2>3
<1>7. CASE Tick
  <2>1. /\ tick < MaxTick /\ tick' = tick + 1 /\ cleaned' = cleaned /\ store' = store
        /\ reading' = reading /\ due' = due /\ used' = used /\ rivals' = rivals
    BY <1>7 DEF Tick
  <2>2. Sound(tick + 1, store, due, used, rivals)
    BY <1>1, SoundLater
  <2>3. Sound(tick', store', due', used', rivals')
    BY <2>1, <2>2
  <2>4. tick' \in 0 .. MaxTick /\ cleaned' \in 0 .. tick'
    BY <1>1, <2>1, LimitConstants
  <2>5. QED
    BY <1>1, <2>1, <2>3, <2>4 DEF LimitInv
<1>8. CASE UNCHANGED limitVars
  BY <1>1, <1>3, <1>8 DEF limitVars
<1>9. QED
  BY <1>4, <1>5, <1>6, <1>7, <1>8 DEF LimitNext

\* What an idle bucket lacks at most: the refill of the rest of the window.
LEMMA IdleLacks ==
    ASSUME NEW b \in Bucket, NEW tokens \in Nat, NEW now \in Nat, NEW since \in Nat,
           since <= now, now - since >= IdleTtl
    PROVE  Full(b) <= RefillAt(now, b, tokens, since)
                      + (Window - Min({IdleTtl, Window})) * MaxRequests[b[1]]
<1> DEFINE m == MaxRequests[b[1]]
           full == Full(b)
           idle == Min({IdleTtl, Window})
           rest == Window - idle
           n == now - since
<1>1. /\ m \in Nat /\ Window \in Nat /\ IdleTtl \in Nat /\ full = m * Window /\ full \in Nat
      /\ n \in Nat /\ IdleTtl <= n
  BY LimitConstants DEF Full
<1>2. idle = IF IdleTtl <= Window THEN IdleTtl ELSE Window
  BY <1>1, LesserOf
<1>3. RefillAt(now, b, tokens, since) = Min({full, tokens + n * m})
  BY DEF RefillAt
<1> HIDE DEF m, full, idle, n
<1>4. idle \in Nat /\ rest \in Nat /\ idle <= n /\ Window = idle + rest
  BY <1>1, <1>2
<1> HIDE DEF rest
<1>5. idle * m \in Nat /\ n * m \in Nat /\ idle * m <= n * m
  BY <1>1, <1>4, LargerFactor
<1>6. full = idle * m + rest * m /\ rest * m \in Nat
  BY <1>1, <1>4
<1> DEFINE held == tokens + n * m
<1>7. held \in Nat /\ full <= held + rest * m
  BY <1>5, <1>6
<1> HIDE DEF held
<1>8. Min({full, held}) = IF full <= held THEN full ELSE held
  BY <1>1, <1>7, LesserOf
<1>9. full <= Min({full, held}) + rest * m
  BY <1>1, <1>6, <1>7, <1>8
<1>10. QED
  BY <1>3, <1>9 DEF held, full, rest, idle, m

\* A sound store holds what LimitHolds promises.
LEMMA LimitInvHolds ==
    ASSUME LimitInv
    PROVE  LimitHolds
<1>1. /\ tick \in 0 .. MaxTick /\ cleaned \in 0 .. tick /\ tick \in Nat
      /\ reading \in SUBSET (Address \X Account)
      /\ Ordered(tick, store) /\ Len(store) <= MaxKeys /\ Histories(tick, due, used, rivals)
      /\ Agrees(store, due, used, rivals) /\ Restored(tick, store, due, used, rivals)
  BY DEF LimitInv, Sound
<1>2. /\ Len(store) \in Nat /\ DOMAIN store = 1 .. Len(store)
      /\ \A k \in 1 .. Len(store) :
           store[k].bucket \in Bucket /\ store[k].at \in Nat /\ store[k].tokens \in Nat
      /\ \A j, k \in 1 .. Len(store) : store[j].bucket = store[k].bucket => j = k
  BY <1>1, OrderedFacts
<1>3. LimitTypeOK
  <2> SUFFICES ASSUME NEW k \in 1 .. Len(store)
               PROVE  store[k].at \in 0 .. tick /\ store[k].tokens \in 0 .. Full(store[k].bucket)
    BY <1>1, <1>2 DEF LimitTypeOK
  <2>1. store[k].at <= tick /\ store[k].tokens <= Full(store[k].bucket)
    BY <1>1 DEF Ordered
  <2>2. Full(store[k].bucket) \in Nat
    BY <1>2, LimitConstants
  <2>3. QED
    BY <1>1, <1>2, <2>1, <2>2
<1>4. ASSUME NEW b \in Bucket PROVE Tokens(b) <= Due(b)
  <2>1. Due(b) = DueAt(tick, due, used, rivals, b)
    <3>1. rivals[b] \cup {} = rivals[b]
      OBVIOUS
    <3>2. QED
      BY <3>1, DueAfterIs DEF Due, DueAt
  <2>2. Tokens(b) = DueAt(tick, due, used, rivals, b)
    <3>1. CASE Present(b)
      <4>1. PICK k \in 1 .. Len(store) : store[k].bucket = b
        BY <1>2, <3>1 DEF Present
      <4>2. Entry(b) = store[k]
        <5>1. store[k] \in ToSet(store)
          BY <1>2 DEF ToSet
        <5>2. \A e \in ToSet(store) : e.bucket = b => e = store[k]
          BY <1>2, <4>1 DEF ToSet
        <5>3. QED
          BY <4>1, <5>1, <5>2 DEF Entry
      <4>3. Tokens(b) = RefillAt(tick, b, store[k].tokens, store[k].at)
        BY <3>1, <4>2 DEF Tokens, Refilled, RefillAt
      <4>4. DueAt(tick, due, used, rivals, store[k].bucket)
              = RefillAt(tick, store[k].bucket, store[k].tokens, store[k].at)
        BY <1>1, HeldIsDue
      <4>5. QED
        BY <4>1, <4>3, <4>4
    <3>2. CASE ~Present(b)
      <4>1. \A k \in 1 .. Len(store) : store[k].bucket # b
        BY <1>2, <3>2 DEF Present
      <4>2. Tokens(b) = Full(b) /\ DueAt(tick, due, used, rivals, b) = Full(b)
        BY <1>1, <3>2, <4>1 DEF Tokens, Restored
      <4>3. QED
        BY <4>2
    <3>3. QED
      BY <3>1, <3>2
  <2>3. DueAt(tick, due, used, rivals, b) \in Nat
    BY <1>1, DueIs
  <2>4. QED
    BY <2>1, <2>2, <2>3
<1>5. ASSUME NEW b \in Bucket, IdleBucket(b)
      PROVE  Full(b) <= Refilled(b, due[b], used[b])
                        + (Window - Min({IdleTtl, Window})) * MaxRequests[b[1]]
  BY <1>1, <1>5, IdleLacks DEF Histories, IdleBucket, Refilled, RefillAt
<1>6. QED
  BY <1>3, <1>4, <1>5 DEF LimitHolds, AllowanceIsKept, IdleGivesLittle

\* No bucket holds more than it would in a store that drops nothing, unless as many
\* others as the store holds have been used since or a cleanup found it idle, and
\* that gives it at most the refill of the time by which the idle time falls short of
\* the window: what consume evicts and cleans up renews no other allowance.
THEOREM LimitHoldsCorrect == LimitSpec => []LimitHolds
<1>1. LimitInit => LimitInv
  BY LimitInitially
<1>2. LimitInv /\ [LimitNext]_limitVars => LimitInv'
  BY LimitStep
<1>3. LimitInv => LimitHolds
  BY LimitInvHolds
<1>4. QED
  BY <1>1, <1>2, <1>3, PTL DEF LimitSpec

-----------------------------------------------------------------------------
(* Liked issues: what a member did last.                                   *)

Happening == [story : Story, liked : BOOLEAN, at : Nat]
Event == [story : Story, at : Nat]

\* The events are in the order of their times, and none is ahead of the clock.
InTime(past, now) ==
    /\ past \in Seq(Happening) /\ now \in Nat
    /\ \A k \in 1 .. Len(past) : past[k].at <= now
    /\ \A j, k \in 1 .. Len(past) : j <= k => past[j].at <= past[k].at

\* The queries, of given events.
ActsBefore(past, s, asOf) ==
    {k \in 1 .. Len(past) : past[k].story = s /\ (asOf = NoCursor \/ past[k].at < asOf)}
LastIn(past, s, asOf) == Max({0} \cup ActsBefore(past, s, asOf))
EventIn(past, s, asOf) == [story |-> s, at |-> past[LastIn(past, s, asOf)].at]
LikedIn(past, s, asOf) == LastIn(past, s, asOf) # 0 /\ past[LastIn(past, s, asOf)].liked
EventsIn(past, asOf) ==
    {EventIn(past, s, asOf) : s \in {u \in Story : LikedIn(past, u, asOf)}}

\* The queries of the model, of the events they are asked about.
LEMMA QueriesAre ==
    ASSUME acts \in Seq(Happening)
    PROVE  \A asOf : LikedEvents(asOf) = EventsIn(acts, asOf)
<1>1. DOMAIN acts = 1 .. Len(acts)
  BY LenProperties
<1>2. \A asOf, s : LastAct(s, asOf) = LastIn(acts, s, asOf)
  BY <1>1 DEF LastAct, Earlier, LastIn, ActsBefore
<1>3. QED
  BY <1>2 DEF LikedEvents, EventsIn, EventIn, LikedIn

\* The last one is one of them, and the last.
LEMMA LastInIs ==
    ASSUME NEW past \in Seq(Happening), NEW s, NEW asOf
    PROVE  /\ LastIn(past, s, asOf) \in {0} \cup ActsBefore(past, s, asOf)
           /\ \A k \in ActsBefore(past, s, asOf) : k <= LastIn(past, s, asOf)
           /\ LastIn(past, s, asOf) \in 0 .. Len(past)
           /\ Len(past) \in Nat
<1> DEFINE S == {0} \cup ActsBefore(past, s, asOf)
<1>1. Len(past) \in Nat
  BY LenProperties
<1>2. S \in SUBSET (0 .. Len(past)) /\ S # {}
  BY <1>1 DEF ActsBefore
<1>3. Max(S) \in S /\ \A y \in S : y <= Max(S)
  <2> HIDE DEF S
  <2>1. QED
    BY <1>1, <1>2, GreatestIsIn
<1>4. QED
  BY <1>1, <1>2, <1>3 DEF LastIn

\* It is the greatest there is.
LEMMA LastInUnique ==
    ASSUME NEW past \in Seq(Happening), NEW s, NEW asOf, NEW m \in {0} \cup ActsBefore(past, s, asOf),
           \A k \in ActsBefore(past, s, asOf) : k <= m
    PROVE  LastIn(past, s, asOf) = m
<1>1. Len(past) \in Nat
  BY LenProperties
<1>2. {0} \cup ActsBefore(past, s, asOf) \in SUBSET Nat
  BY <1>1 DEF ActsBefore
<1>3. \A y \in {0} \cup ActsBefore(past, s, asOf) : y <= m
  BY <1>2
<1>4. QED
  BY <1>2, <1>3, GreatestIs DEF LastIn

\* Two sequences of events tell the same of an issue.
SameLast(past, longer, s, asOf) ==
    /\ LastIn(longer, s, asOf) = LastIn(past, s, asOf)
    /\ LikedIn(longer, s, asOf) <=> LikedIn(past, s, asOf)
    /\ LastIn(past, s, asOf) # 0 => EventIn(longer, s, asOf) = EventIn(past, s, asOf)

\* The last event is the last of its issue, and of this time.
ComesLast(past, longer, s, now) ==
    LastIn(longer, s, NoCursor) = Len(past) + 1 /\ longer[Len(past) + 1].at = now

\* An act comes last for its issue, and changes nothing for the others; for a
\* time that has come already it changes nothing at all.
LEMMA ActComesLast ==
    ASSUME NEW past, NEW now, InTime(past, now), NEW t \in Story, NEW liked \in BOOLEAN, NEW longer,
           longer = Append(past, [story |-> t, liked |-> liked, at |-> now])
    PROVE  /\ InTime(longer, now)
           /\ ComesLast(past, longer, t, now)
           /\ \A s : s # t => SameLast(past, longer, s, NoCursor)
           /\ \A asOf \in Nat : asOf <= now => \A s : SameLast(past, longer, s, asOf)
<1> DEFINE act == [story |-> t, liked |-> liked, at |-> now]
           n == Len(past)
<1>1. /\ act \in Happening /\ act.story = t /\ act.at = now
      /\ past \in Seq(Happening) /\ now \in Nat
  BY DEF InTime, Happening
<1>2. /\ n \in Nat /\ longer \in Seq(Happening) /\ Len(longer) = n + 1
      /\ longer[n + 1] = act /\ \A k \in 1 .. n : longer[k] = past[k]
  <2>1. n \in Nat
    BY <1>1, LenProperties
  <2> HIDE DEF act
  <2>2. QED
    BY <1>1, <2>1, AppendProperties DEF act
<1>3. \A k \in 1 .. n : past[k] \in Happening /\ past[k].at \in Nat
  <2>1. \A k \in 1 .. n : past[k] \in Happening
    BY <1>1, ElementOfSeq
  <2>2. QED
    BY <2>1 DEF Happening
<1>4. InTime(longer, now)
  <2>1. \A k \in 1 .. n : past[k].at <= now
    BY DEF InTime
  <2>2. \A j, k \in 1 .. n : j <= k => past[j].at <= past[k].at
    BY DEF InTime
  <2>3. \A k \in 1 .. (n + 1) : k = n + 1 \/ k \in 1 .. n
    BY <1>2
  <2>4. \A k \in 1 .. (n + 1) : longer[k].at <= now
    BY <1>1, <1>2, <2>1, <2>3
  <2>5. ASSUME NEW j \in 1 .. (n + 1), NEW k \in 1 .. (n + 1), j <= k
        PROVE  longer[j].at <= longer[k].at
    <3>1. CASE k = n + 1
      BY <1>1, <1>2, <2>4, <3>1
    <3>2. CASE k \in 1 .. n
      <4>1. j \in 1 .. n
        BY <1>2, <2>5, <3>2
      <4>2. QED
        BY <1>2, <2>2, <2>5, <3>2, <4>1
    <3>3. QED
      BY <2>3, <3>1, <3>2
  <2>6. QED
    BY <1>1, <1>2, <2>4, <2>5 DEF InTime
<1> HIDE DEF act
<1>5. LastIn(longer, t, NoCursor) = n + 1
  <2>1. n + 1 \in ActsBefore(longer, t, NoCursor)
    BY <1>1, <1>2 DEF ActsBefore
  <2>2. \A k \in ActsBefore(longer, t, NoCursor) : k <= n + 1
    BY <1>2 DEF ActsBefore
  <2>3. QED
    BY <1>2, <2>1, <2>2, LastInUnique
<1>6. ASSUME NEW s, NEW asOf, ActsBefore(longer, s, asOf) = ActsBefore(past, s, asOf)
      PROVE  SameLast(past, longer, s, asOf)
  <2>1. LastIn(longer, s, asOf) = LastIn(past, s, asOf)
    BY <1>6 DEF LastIn
  <2>2. LastIn(past, s, asOf) \in 0 .. n
    BY <1>1, LastInIs
  <2>3. LastIn(past, s, asOf) # 0 => longer[LastIn(past, s, asOf)] = past[LastIn(past, s, asOf)]
    BY <1>2, <2>2
  <2>4. QED
    BY <2>1, <2>3 DEF EventIn, LikedIn, SameLast
<1>7. ASSUME NEW s, s # t
      PROVE  SameLast(past, longer, s, NoCursor)
  <2>1. ActsBefore(longer, s, NoCursor) = ActsBefore(past, s, NoCursor)
    <3>1. \A k \in 1 .. (n + 1) : k = n + 1 \/ k \in 1 .. n
      BY <1>2
    <3>2. \A k \in 1 .. (n + 1) : longer[k].story = s <=> k \in 1 .. n /\ past[k].story = s
      BY <1>1, <1>2, <1>7, <3>1
    <3>3. QED
      BY <1>2, <3>2 DEF ActsBefore
  <2>2. QED
    BY <1>6, <2>1
<1>8. ASSUME NEW asOf \in Nat, asOf <= now, NEW s
      PROVE  SameLast(past, longer, s, asOf)
  <2>1. ActsBefore(longer, s, asOf) = ActsBefore(past, s, asOf)
    <3>1. asOf # NoCursor
      BY LikesAssumption
    <3>2. ~ (act.at < asOf)
      BY <1>1, <1>8
    <3>3. \A k \in 1 .. (n + 1) : k = n + 1 \/ k \in 1 .. n
      BY <1>2
    <3>4. \A k \in 1 .. (n + 1) : longer[k].at < asOf <=> k \in 1 .. n /\ past[k].at < asOf
      BY <1>2, <3>2, <3>3
    <3>5. \A k \in 1 .. (n + 1) :
            longer[k].story = s /\ longer[k].at < asOf <=> k \in 1 .. n /\ past[k].story = s /\ past[k].at < asOf
      BY <1>2, <3>4
    <3>6. QED
      BY <1>2, <3>1, <3>5 DEF ActsBefore
  <2>2. QED
    BY <1>6, <2>1
<1>9. QED
  BY <1>1, <1>2, <1>4, <1>5, <1>7, <1>8 DEF ComesLast

-----------------------------------------------------------------------------
(* Liked issues: a walk over the pages.                                    *)

Walk == [pc : {"off", "start", "read", "page", "end"}, section : Section \cup {NoCursor},
         cursor : {NoCursor} \cup Event, read : SUBSET Event, shown : Seq(Story),
         steady : SUBSET Story]

\* What has been shown is not after the cursor, though it may have been liked again.
Passed(w, past) ==
    w.cursor # NoCursor =>
        \A s \in Range(w.shown) :
            /\ LastIn(past, s, NoCursor) # 0
            /\ ~ compareLikedIssues(w.cursor, EventIn(past, s, NoCursor))

\* What has not been touched has been shown, or is still to come.
Ahead(w, past, seen) ==
    \A s \in w.steady :
        /\ s \in seen /\ LikedIn(past, s, NoCursor)
        /\ w.section = NoCursor \/ SectionOf[s] = w.section
        /\ s \in Range(w.shown) \/ isAfterCursor(EventIn(past, s, NoCursor), w.cursor)
        /\ w.pc = "read" => EventIn(past, s, NoCursor) \in w.read

\* What was read is an event of each issue, and none of a later time than the last.
ReadIsPast(w, past) ==
    /\ IsFiniteSet(w.read)
    /\ \A d, e \in w.read : d.story = e.story => d = e
    /\ \A e \in w.read : /\ LastIn(past, e.story, NoCursor) # 0
                         /\ e.at <= past[LastIn(past, e.story, NoCursor)].at
                         /\ w.cursor # NoCursor /\ e.story \in Range(w.shown) =>
                               ~ compareLikedIssues(w.cursor, e)

WalkSound(w, past, seen) ==
    /\ w \in Walk
    /\ IsInjective(w.shown)
    /\ w.pc \in {"off", "start"} => w.shown = <<>> /\ w.cursor = NoCursor
    /\ w.pc = "read" /\ w.cursor = NoCursor => w.shown = <<>>
    /\ w.pc = "page" => w.cursor # NoCursor
    /\ w.pc \in {"read", "page"} => Passed(w, past) /\ Ahead(w, past, seen)
    /\ w.pc = "read" => ReadIsPast(w, past)
    /\ w.pc = "end" => w.steady \subseteq Range(w.shown)

\* The order of the pages.
LEMMA LikedOrder ==
    /\ Story \subseteq Nat
    /\ \A a, b, c \in Event : compareLikedIssues(a, b) /\ compareLikedIssues(b, c) =>
           compareLikedIssues(a, c)
    /\ \A a \in Event : ~ compareLikedIssues(a, a)
    /\ \A a, b \in Event : \/ compareLikedIssues(a, b) \/ compareLikedIssues(b, a)
                           \/ a.story = b.story
    /\ \A a, b, c \in Event : b.story = c.story /\ b.at <= c.at /\ ~ compareLikedIssues(a, b) =>
           ~ compareLikedIssues(a, c)
<1>1. Story \subseteq Nat
  BY LikesAssumption
<1>2. \A e \in Event : e.story \in Nat /\ e.at \in Nat
  BY <1>1 DEF Event
<1>3. ASSUME NEW a \in Event, NEW b \in Event, NEW c \in Event
      PROVE  /\ compareLikedIssues(a, b) /\ compareLikedIssues(b, c) => compareLikedIssues(a, c)
             /\ ~ compareLikedIssues(a, a)
             /\ \/ compareLikedIssues(a, b) \/ compareLikedIssues(b, a) \/ a.story = b.story
             /\ b.story = c.story /\ b.at <= c.at /\ ~ compareLikedIssues(a, b) =>
                   ~ compareLikedIssues(a, c)
  <2>1. \A x, y, z, u, v, w \in Nat :
          /\ (x > y \/ (x = y /\ u > v)) /\ (y > z \/ (y = z /\ v > w)) => x > z \/ (x = z /\ u > w)
          /\ ~ (x > x \/ (x = x /\ u > u))
          /\ (x > y \/ (x = y /\ u > v)) \/ (y > x \/ (y = x /\ v > u)) \/ u = v
          /\ v = w /\ y <= z /\ ~ (x > y \/ (x = y /\ u > v)) => ~ (x > z \/ (x = z /\ u > w))
    OBVIOUS
  <2>2. QED
    BY <1>2, <2>1 DEF compareLikedIssues
<1>4. QED
  BY <1>1, <1>3

\* Records of a walk: a field at a time.
LEMMA WalkFields ==
    ASSUME NEW w \in Walk
    PROVE  /\ w.pc \in {"off", "start", "read", "page", "end"}
           /\ w.section \in Section \cup {NoCursor} /\ w.cursor \in {NoCursor} \cup Event
           /\ w.read \in SUBSET Event /\ w.shown \in Seq(Story) /\ w.steady \in SUBSET Story
           /\ \A s \in Range(w.shown) : s \in Story
<1>1. /\ w.pc \in {"off", "start", "read", "page", "end"}
      /\ w.section \in Section \cup {NoCursor} /\ w.cursor \in {NoCursor} \cup Event
      /\ w.read \in SUBSET Event /\ w.shown \in Seq(Story) /\ w.steady \in SUBSET Story
  BY DEF Walk
<1>2. \A s \in Range(w.shown) : s \in Story
  <2>1. DOMAIN w.shown = 1 .. Len(w.shown) /\ \A k \in 1 .. Len(w.shown) : w.shown[k] \in Story
    BY <1>1, LenProperties, ElementOfSeq
  <2>2. QED
    BY <2>1 DEF Range
<1>3. QED
  BY <1>1, <1>2

Less(w, s) == [w EXCEPT !.steady = @ \ {s}]
\* A walk that need no longer show a story is otherwise as it was.
LEMMA LessSteady ==
    ASSUME NEW w \in Walk, NEW s, NEW v, v = Less(w, s)
    PROVE  /\ v \in Walk /\ v.pc = w.pc /\ v.section = w.section /\ v.cursor = w.cursor
           /\ v.read = w.read /\ v.shown = w.shown /\ v.steady = w.steady \ {s}
BY DEF Walk, Less

\* An event that an issue has.
LEMMA EventIs ==
    ASSUME NEW past \in Seq(Happening), NEW s \in Story, LastIn(past, s, NoCursor) # 0
    PROVE  /\ EventIn(past, s, NoCursor) \in Event
           /\ EventIn(past, s, NoCursor).story = s
           /\ EventIn(past, s, NoCursor).at = past[LastIn(past, s, NoCursor)].at
           /\ LastIn(past, s, NoCursor) \in 1 .. Len(past)
<1>1. LastIn(past, s, NoCursor) \in 1 .. Len(past)
  BY LastInIs
<1>2. past[LastIn(past, s, NoCursor)] \in Happening
  BY <1>1, ElementOfSeq
<1>3. QED
  BY <1>1, <1>2 DEF EventIn, Event, Happening

\* The member acts.
LEMMA WalkActs ==
    ASSUME NEW past, NEW now, InTime(past, now), NEW w, NEW seen, WalkSound(w, past, seen),
           NEW t \in Story, NEW liked \in BOOLEAN,
           NEW longer, longer = Append(past, [story |-> t, liked |-> liked, at |-> now]),
           NEW v, v = Less(w, t)
    PROVE  WalkSound(v, longer, seen)
<1>1. /\ v \in Walk /\ v.pc = w.pc /\ v.section = w.section /\ v.cursor = w.cursor
      /\ v.read = w.read /\ v.shown = w.shown /\ v.steady = w.steady \ {t}
  <2>1. w \in Walk
    BY DEF WalkSound
  <2>2. QED
    BY <2>1, LessSteady
<1>2. w \in Walk /\ past \in Seq(Happening) /\ now \in Nat
  BY DEF WalkSound, InTime
<1>3. /\ w.cursor \in {NoCursor} \cup Event /\ w.read \in SUBSET Event
      /\ \A s \in Range(w.shown) : s \in Story
  BY <1>2, WalkFields
<1>4. /\ InTime(longer, now)
      /\ LastIn(longer, t, NoCursor) = Len(past) + 1 /\ longer[Len(past) + 1].at = now
      /\ \A s : s # t => SameLast(past, longer, s, NoCursor)
  <2>1. InTime(longer, now)
    BY ActComesLast
  <2>2. ComesLast(past, longer, t, now)
    BY ActComesLast
  <2>3. \A s : s # t => SameLast(past, longer, s, NoCursor)
    BY ActComesLast
  <2>4. QED
    BY <2>1, <2>2, <2>3 DEF ComesLast
<1>5. longer \in Seq(Happening) /\ Len(past) \in Nat
  BY <1>2, <1>4, LenProperties DEF InTime
<1>6. LastIn(longer, t, NoCursor) # 0
  BY <1>4, <1>5
<1>7. ASSUME NEW s \in Story, LastIn(past, s, NoCursor) # 0
      PROVE  /\ LastIn(longer, s, NoCursor) # 0
             /\ EventIn(longer, s, NoCursor) \in Event /\ EventIn(past, s, NoCursor) \in Event
             /\ EventIn(longer, s, NoCursor).story = s /\ EventIn(past, s, NoCursor).story = s
             /\ EventIn(longer, s, NoCursor).at = longer[LastIn(longer, s, NoCursor)].at
             /\ EventIn(past, s, NoCursor).at = past[LastIn(past, s, NoCursor)].at
             /\ EventIn(past, s, NoCursor).at <= EventIn(longer, s, NoCursor).at
             /\ s # t => EventIn(longer, s, NoCursor) = EventIn(past, s, NoCursor)
  <2>1. /\ EventIn(past, s, NoCursor) \in Event /\ EventIn(past, s, NoCursor).story = s
        /\ EventIn(past, s, NoCursor).at = past[LastIn(past, s, NoCursor)].at
        /\ LastIn(past, s, NoCursor) \in 1 .. Len(past)
    BY <1>2, <1>7, EventIs
  <2>2. LastIn(longer, s, NoCursor) # 0
    BY <1>4, <1>6, <1>7 DEF SameLast
  <2>3. /\ EventIn(longer, s, NoCursor) \in Event /\ EventIn(longer, s, NoCursor).story = s
        /\ EventIn(longer, s, NoCursor).at = longer[LastIn(longer, s, NoCursor)].at
    BY <1>5, <2>2, EventIs
  <2>4. s # t => EventIn(longer, s, NoCursor) = EventIn(past, s, NoCursor)
    BY <1>4, <1>7 DEF SameLast
  <2>5. EventIn(past, s, NoCursor).at <= EventIn(longer, s, NoCursor).at
    <3>1. CASE s = t
      BY <1>4, <2>1, <2>3, <3>1 DEF InTime
    <3>2. CASE s # t
      BY <2>1, <2>4, <3>2 DEF Event
    <3>3. QED
      BY <3>1, <3>2
  <2>6. QED
    BY <2>1, <2>2, <2>3, <2>4, <2>5
<1>8. ASSUME Passed(w, past) PROVE Passed(v, longer)
  <2> SUFFICES ASSUME w.cursor # NoCursor, NEW s \in Range(w.shown)
               PROVE  /\ LastIn(longer, s, NoCursor) # 0
                      /\ ~ compareLikedIssues(w.cursor, EventIn(longer, s, NoCursor))
    BY <1>1 DEF Passed
  <2>1. /\ s \in Story /\ LastIn(past, s, NoCursor) # 0 /\ w.cursor \in Event
        /\ ~ compareLikedIssues(w.cursor, EventIn(past, s, NoCursor))
    BY <1>3, <1>8 DEF Passed
  <2>2. QED
    BY <1>7, <2>1, LikedOrder
<1>9. ASSUME Ahead(w, past, seen) PROVE Ahead(v, longer, seen)
  <2> SUFFICES ASSUME NEW s \in v.steady
               PROVE  /\ s \in seen /\ LikedIn(longer, s, NoCursor)
                      /\ w.section = NoCursor \/ SectionOf[s] = w.section
                      /\ \/ s \in Range(w.shown)
                         \/ isAfterCursor(EventIn(longer, s, NoCursor), w.cursor)
                      /\ w.pc = "read" => EventIn(longer, s, NoCursor) \in w.read
    BY <1>1 DEF Ahead
  <2>1. s \in w.steady /\ s # t
    BY <1>1
  <2>2. SameLast(past, longer, s, NoCursor)
    BY <1>4, <2>1
  <2>3. LikedIn(past, s, NoCursor)
    BY <1>9, <2>1 DEF Ahead
  <2>4. /\ LikedIn(longer, s, NoCursor)
        /\ EventIn(longer, s, NoCursor) = EventIn(past, s, NoCursor)
    BY <2>2, <2>3 DEF SameLast, LikedIn
  <2>5. QED
    BY <1>9, <2>1, <2>4 DEF Ahead
<1>10. ASSUME ReadIsPast(w, past) PROVE ReadIsPast(v, longer)
  <2>1. \A e \in w.read : /\ LastIn(longer, e.story, NoCursor) # 0
                          /\ e.at <= longer[LastIn(longer, e.story, NoCursor)].at
    <3> SUFFICES ASSUME NEW e \in w.read
                 PROVE  /\ LastIn(longer, e.story, NoCursor) # 0
                        /\ e.at <= longer[LastIn(longer, e.story, NoCursor)].at
      OBVIOUS
    <3>1. e.story \in Story /\ e.at \in Nat
      BY <1>3 DEF Event
    <3>2. /\ LastIn(past, e.story, NoCursor) # 0
          /\ e.at <= past[LastIn(past, e.story, NoCursor)].at
      BY <1>10 DEF ReadIsPast
    <3> DEFINE a == EventIn(past, e.story, NoCursor)
               b == EventIn(longer, e.story, NoCursor)
    <3>3. /\ LastIn(longer, e.story, NoCursor) # 0
          /\ a \in Event /\ b \in Event /\ a.at <= b.at
          /\ a.at = past[LastIn(past, e.story, NoCursor)].at
          /\ b.at = longer[LastIn(longer, e.story, NoCursor)].at
      BY <1>7, <3>1, <3>2
    <3>4. a.at \in Nat /\ b.at \in Nat
      BY <3>3 DEF Event
    <3>5. e.at <= a.at
      BY <3>2, <3>3
    <3>6. e.at <= b.at
      BY <3>1, <3>3, <3>4, <3>5
    <3>7. QED
      BY <3>3, <3>6
  <2>2. QED
    BY <1>1, <1>10, <2>1 DEF ReadIsPast
<1>11. QED
  BY <1>1, <1>8, <1>9, <1>10 DEF WalkSound

\* An issue is withdrawn.
LEMMA WalkWithdrawn ==
    ASSUME NEW past, NEW w, NEW seen, WalkSound(w, past, seen), NEW t,
           NEW v, v = Less(w, t)
    PROVE  WalkSound(v, past, seen \ {t})
<1>1. /\ v \in Walk /\ v.pc = w.pc /\ v.section = w.section /\ v.cursor = w.cursor
      /\ v.read = w.read /\ v.shown = w.shown /\ v.steady = w.steady \ {t}
  <2>1. w \in Walk
    BY DEF WalkSound
  <2>2. QED
    BY <2>1, LessSteady
<1>2. Passed(w, past) => Passed(v, past)
  BY <1>1 DEF Passed
<1>3. Ahead(w, past, seen) => Ahead(v, past, seen \ {t})
  BY <1>1 DEF Ahead
<1>4. ReadIsPast(w, past) => ReadIsPast(v, past)
  BY <1>1 DEF ReadIsPast
<1>5. QED
  BY <1>1, <1>2, <1>3, <1>4 DEF WalkSound

\* What is read is an event of each issue that is liked.
LEMMA EventsAre ==
    ASSUME NEW past \in Seq(Happening)
    PROVE  /\ EventsIn(past, NoCursor) \in SUBSET Event /\ IsFiniteSet(EventsIn(past, NoCursor))
           /\ \A e \in EventsIn(past, NoCursor) :
                 /\ LikedIn(past, e.story, NoCursor) /\ e.story \in Story
                 /\ e = EventIn(past, e.story, NoCursor)
           /\ \A s \in Story : LikedIn(past, s, NoCursor) =>
                 EventIn(past, s, NoCursor) \in EventsIn(past, NoCursor)
<1>1. \A s \in Story : LikedIn(past, s, NoCursor) =>
          EventIn(past, s, NoCursor) \in Event /\ EventIn(past, s, NoCursor).story = s
  BY EventIs DEF LikedIn
<1>2. IsFiniteSet(EventsIn(past, NoCursor))
  <2> DEFINE L == {u \in Story : LikedIn(past, u, NoCursor)}
             f == [s \in L |-> EventIn(past, s, NoCursor)]
  <2>1. IsFiniteSet(L)
    BY LikesAssumption, FS_Subset
  <2>2. f \in Surjection(L, EventsIn(past, NoCursor))
    BY DEF Surjection, EventsIn
  <2> HIDE DEF L, f
  <2>3. QED
    BY <2>1, <2>2, FS_Surjection
<1>3. QED
  BY <1>1, <1>2 DEF EventsIn

\* A page is asked for.
LEMMA WalkAsks ==
    ASSUME NEW past \in Seq(Happening), NEW w, NEW seen, WalkSound(w, past, seen),
           NEW section \in Section \cup {NoCursor},
           w.pc = "start" \/ (w.pc = "page" /\ section = w.section),
           NEW lasting, w.pc # "start" => lasting = w.steady,
           w.pc = "start" => lasting = {e.story : e \in {d \in EventsIn(past, NoCursor) :
                                         /\ d.story \in seen
                                         /\ section = NoCursor \/ SectionOf[d.story] = section}},
           NEW v, v = [w EXCEPT !.pc = "read", !.section = section,
                                !.read = EventsIn(past, NoCursor), !.steady = lasting]
    PROVE  WalkSound(v, past, seen)
<1>1. w \in Walk
  BY DEF WalkSound
<1>2. /\ EventsIn(past, NoCursor) \in SUBSET Event /\ IsFiniteSet(EventsIn(past, NoCursor))
      /\ \A e \in EventsIn(past, NoCursor) : /\ LikedIn(past, e.story, NoCursor)
                                             /\ e.story \in Story
                                             /\ e = EventIn(past, e.story, NoCursor)
      /\ \A s \in Story : LikedIn(past, s, NoCursor) =>
            EventIn(past, s, NoCursor) \in EventsIn(past, NoCursor)
  BY EventsAre
<1>3. lasting \in SUBSET Story
  <2>1. CASE w.pc = "start"
    BY <1>2, <2>1
  <2>2. CASE w.pc # "start"
    BY <1>1, <2>2, WalkFields
  <2>3. QED
    BY <2>1, <2>2
<1>4. PICK events : events = EventsIn(past, NoCursor)
  OBVIOUS
<1>5. /\ v \in Walk /\ v.pc = "read" /\ v.section = section /\ v.read = events
      /\ v.steady = lasting /\ v.shown = w.shown /\ v.cursor = w.cursor
  BY <1>1, <1>2, <1>3, <1>4 DEF Walk
<1>6. /\ IsInjective(w.shown)
      /\ w.pc = "start" => w.shown = <<>> /\ w.cursor = NoCursor
      /\ w.pc = "page" => w.cursor # NoCursor /\ Passed(w, past) /\ Ahead(w, past, seen)
  BY DEF WalkSound
<1>7. Passed(v, past)
  BY <1>5, <1>6 DEF Passed
<1>8. Ahead(v, past, seen)
  <2> SUFFICES ASSUME NEW s \in lasting
               PROVE  /\ s \in seen /\ LikedIn(past, s, NoCursor)
                      /\ section = NoCursor \/ SectionOf[s] = section
                      /\ \/ s \in Range(w.shown)
                         \/ isAfterCursor(EventIn(past, s, NoCursor), w.cursor)
                      /\ EventIn(past, s, NoCursor) \in events
    BY <1>5 DEF Ahead
  <2>1. CASE w.pc = "start"
    <3>1. isAfterCursor(EventIn(past, s, NoCursor), w.cursor)
      BY <1>6, <2>1 DEF isAfterCursor
    <3>2. PICK e \in events :
             s = e.story /\ s \in seen /\ (section = NoCursor \/ SectionOf[s] = section)
      BY <1>4, <2>1
    <3>3. QED
      BY <1>2, <1>4, <3>1, <3>2
  <2>2. CASE w.pc = "page"
    <3>1. /\ s \in w.steady /\ section = w.section
          /\ s \in Story
      BY <1>3, <2>2
    <3>2. /\ s \in seen /\ LikedIn(past, s, NoCursor)
          /\ w.section = NoCursor \/ SectionOf[s] = w.section
          /\ s \in Range(w.shown) \/ isAfterCursor(EventIn(past, s, NoCursor), w.cursor)
      BY <1>6, <2>2, <3>1 DEF Ahead
    <3>3. QED
      BY <1>2, <1>4, <3>1, <3>2
  <2>3. QED
    BY <2>1, <2>2
<1>9. ReadIsPast(v, past)
  <2>1. \A d, e \in events : d.story = e.story => d = e
    BY <1>2, <1>4
  <2>2. ASSUME NEW e \in events
        PROVE  /\ LastIn(past, e.story, NoCursor) # 0
               /\ e.at <= past[LastIn(past, e.story, NoCursor)].at
               /\ w.cursor # NoCursor /\ e.story \in Range(w.shown) =>
                     ~ compareLikedIssues(w.cursor, e)
    <3>1. LastIn(past, e.story, NoCursor) # 0 /\ e = EventIn(past, e.story, NoCursor)
      BY <1>2, <1>4 DEF LikedIn
    <3>2. e.at = past[LastIn(past, e.story, NoCursor)].at /\ e.at \in Nat
      <4>1. e \in Event /\ e.story \in Story
        BY <1>2, <1>4
      <4>2. e.at \in Nat
        BY <4>1 DEF Event
      <4>3. EventIn(past, e.story, NoCursor).at = past[LastIn(past, e.story, NoCursor)].at
        BY <3>1, <4>1, EventIs
      <4>4. QED
        BY <3>1, <4>2, <4>3
    <3>3. w.cursor # NoCursor => w.pc = "page"
      BY <1>6
    <3>4. w.cursor # NoCursor /\ e.story \in Range(w.shown) => ~ compareLikedIssues(w.cursor, e)
      BY <1>6, <3>1, <3>3 DEF Passed
    <3>5. e.at <= past[LastIn(past, e.story, NoCursor)].at
      BY <3>2
    <3>6. QED
      BY <3>1, <3>4, <3>5
  <2>3. QED
    BY <1>2, <1>4, <1>5, <2>1, <2>2 DEF ReadIsPast
<1>10. QED
  BY <1>5, <1>6, <1>7, <1>8, <1>9 DEF WalkSound

\* A page, of the items that are left.
PlaceAfter(after, e) == Cardinality({o \in after : compareLikedIssues(o, e)}) + 1
PageOf(after) ==
    [k \in 1 .. Min({Cardinality(after), PageSize + 1}) |->
        CHOOSE e \in after : PlaceAfter(after, e) = k]
LeftOf(read, section, cursor, seen) ==
    {e \in {d \in {c \in read : c.story \in seen} :
              section = NoCursor \/ SectionOf[d.story] = section} : isAfterCursor(e, cursor)}

\* The page of the model is the page of what is left.
LEMMA PageAfterIs ==
    ASSUME NEW read, NEW section, NEW cursor
    PROVE  PageAfter(read, section, cursor) = PageOf(LeftOf(read, section, cursor, visible))
BY DEF PageAfter, PageOf, LeftOf, PlaceAfter, Eligible, CurrentLikes

\* It is the first of them, in order and each once.
InPages(page, after) ==
    /\ \A j, k \in 1 .. Len(page) : j < k => compareLikedIssues(page[j], page[k])
    /\ \A j, k \in 1 .. Len(page) : page[j] = page[k] => j = k
    /\ \A e \in after : \/ \E k \in 1 .. Len(page) : page[k] = e
                        \/ \A k \in 1 .. Len(page) : compareLikedIssues(page[k], e)
    /\ Len(page) <= PageSize => \A e \in after : \E k \in 1 .. Len(page) : page[k] = e

\* A page is taken in order from what is left, and leaves out something only when it
\* is longer than the page size.
LEMMA PageIs ==
    ASSUME NEW after \in SUBSET Event, IsFiniteSet(after),
           \A d, e \in after : d.story = e.story => d = e
    PROVE  /\ PageOf(after) \in Seq(after)
           /\ Len(PageOf(after)) \in 0 .. (PageSize + 1) /\ PageSize \in Nat /\ PageSize > 0
           /\ InPages(PageOf(after), after)
<1> DEFINE R == {p \in after \X after : compareLikedIssues(p[1], p[2])}
           n == Min({Cardinality(after), PageSize + 1})
           page == PageOf(after)
<1>1. /\ Cardinality(after) \in Nat /\ PageSize \in Nat /\ PageSize > 0
  BY FS_CardinalityType, LikesAssumption
<1>2. /\ n \in 0 .. Cardinality(after) /\ n <= PageSize + 1
      /\ n <= PageSize => n = Cardinality(after)
  <2>1. n \in {Cardinality(after), PageSize + 1}
    <3>1. {Cardinality(after), PageSize + 1} \in SUBSET Nat
      BY <1>1
    <3>2. QED
      BY <3>1, LeastIsIn
  <2>2. n <= Cardinality(after) /\ n <= PageSize + 1
    <3>1. \E x \in {Cardinality(after), PageSize + 1} :
             \A y \in {Cardinality(after), PageSize + 1} : x <= y
      BY <1>1
    <3>2. QED
      BY <3>1 DEF Min
  <2>3. QED
    BY <1>1, <2>1, <2>2
<1>3. /\ Orders(R, after)
      /\ \A d, e \in after : <<d, e>> \in R <=> compareLikedIssues(d, e)
      /\ \A e \in after : Below(R, after, e) = {o \in after : compareLikedIssues(o, e)}
  <2>1. \A d, e \in after : <<d, e>> \in R <=> compareLikedIssues(d, e)
    OBVIOUS
  <2> HIDE DEF R
  <2>2. \A e \in after : Below(R, after, e) = {o \in after : compareLikedIssues(o, e)}
    BY <2>1 DEF Below
  <2>3. Orders(R, after)
    <3>1. \A e \in after : e \in Event
      OBVIOUS
    <3>2. \A e \in after : <<e, e>> \notin R
      BY <2>1, <3>1, LikedOrder
    <3>3. \A a, b, c \in after : <<a, b>> \in R /\ <<b, c>> \in R => <<a, c>> \in R
      BY <2>1, <3>1, LikedOrder
    <3>4. \A a, b \in after : a # b => <<a, b>> \in R \/ <<b, a>> \in R
      BY <2>1, <3>1, LikedOrder
    <3>5. QED
      BY <3>2, <3>3, <3>4 DEF Orders
  <2>4. QED
    BY <2>1, <2>2, <2>3
<1> HIDE DEF R
<1>4. AllNumbers(R, after)
  BY <1>3, NumbersAreTaken
<1>5. \A e \in after : PlaceAfter(after, e) = Cardinality(Below(R, after, e)) + 1
  BY <1>3 DEF PlaceAfter
<1>6. \A e \in after : Cardinality(Below(R, after, e)) \in Nat
  <2>1. \A e \in after : Below(R, after, e) \in SUBSET after
    BY DEF Below
  <2>2. QED
    BY <2>1, FS_Subset, FS_CardinalityType
<1>7. \A k \in 1 .. n : \E e \in after : PlaceAfter(after, e) = k
  <2> SUFFICES ASSUME NEW k \in 1 .. n PROVE \E e \in after : PlaceAfter(after, e) = k
    OBVIOUS
  <2> HIDE DEF n
  <2>1. k - 1 \in 0 .. (Cardinality(after) - 1) /\ k \in Nat
    BY <1>1, <1>2
  <2>2. PICK e \in after : Cardinality(Below(R, after, e)) = k - 1
    BY <1>4, <2>1 DEF AllNumbers
  <2>3. PlaceAfter(after, e) = k
    BY <1>5, <2>1, <2>2
  <2>4. QED
    BY <2>3
<1>8. page = [k \in 1 .. n |-> CHOOSE e \in after : PlaceAfter(after, e) = k]
  BY DEF PageOf
<1> HIDE DEF page, n
<1>9. \A k \in 1 .. n : page[k] \in after /\ PlaceAfter(after, page[k]) = k
  BY <1>7, <1>8
<1>10. n \in Nat /\ page = [k \in 1 .. n |-> page[k]]
  BY <1>1, <1>2, <1>8
<1>11. page \in Seq(after) /\ Len(page) = n
  <2>1. [k \in 1 .. n |-> page[k]] \in Seq(after)
    BY <1>9, <1>10, IsASeq
  <2>2. page \in Seq(after)
    BY <1>10, <2>1
  <2>3. DOMAIN page = 1 .. n
    BY <1>8
  <2>4. QED
    BY <1>10, <2>2, <2>3, LenProperties
<1>12. \A k \in 1 .. n : /\ page[k] \in after
                         /\ Cardinality(Below(R, after, page[k])) = k - 1
  <2> SUFFICES ASSUME NEW k \in 1 .. n
               PROVE  page[k] \in after /\ Cardinality(Below(R, after, page[k])) = k - 1
    OBVIOUS
  <2>1. page[k] \in after /\ PlaceAfter(after, page[k]) = k
    BY <1>9
  <2>2. QED
    BY <1>5, <1>6, <1>10, <2>1
<1>13. /\ \A j, k \in 1 .. n : j < k => <<page[j], page[k]>> \in R
       /\ \A j, k \in 1 .. n : page[j] = page[k] => j = k
       /\ \A x \in after : \/ \E k \in 1 .. n : page[k] = x
                           \/ \A k \in 1 .. n : <<page[k], x>> \in R
       /\ n = Cardinality(after) => \A x \in after : \E k \in 1 .. n : page[k] = x
  BY <1>2, <1>3, <1>10, <1>12, FirstInOrder
<1>14. InPages(page, after)
  <2>1. \A j, k \in 1 .. n : j < k => compareLikedIssues(page[j], page[k])
    BY <1>3, <1>12, <1>13
  <2>2. \A x \in after : \/ \E k \in 1 .. n : page[k] = x
                         \/ \A k \in 1 .. n : compareLikedIssues(page[k], x)
    BY <1>3, <1>12, <1>13
  <2>3. QED
    BY <1>2, <1>11, <1>13, <2>1, <2>2 DEF InPages
<1>15. QED
  BY <1>1, <1>2, <1>10, <1>11, <1>14 DEF page

\* A page is answered.
ItemsOfPage(page) == SubSeq(page, 1, Min({Len(page), PageSize}))
StoriesOf(items) == [k \in DOMAIN items |-> items[k].story]
AfterAnswer(w, page) ==
    [w EXCEPT !.pc = IF Len(page) > PageSize THEN "page" ELSE "end",
              !.cursor = IF Len(page) > PageSize THEN Last(ItemsOfPage(page)) ELSE NoCursor,
              !.read = {},
              !.shown = @ \o StoriesOf(ItemsOfPage(page))]

\* The items of a page are the page without the one that tells of more.
LEMMA ItemsAre ==
    ASSUME NEW after \in SUBSET Event, NEW page \in Seq(after),
           Len(page) \in 0 .. (PageSize + 1)
    PROVE  /\ Len(ItemsOfPage(page)) \in 0 .. PageSize
           /\ Len(page) > PageSize => /\ Len(ItemsOfPage(page)) = PageSize
                                      /\ Last(ItemsOfPage(page)) = page[PageSize]
                                      /\ Len(page) = PageSize + 1
           /\ ~ (Len(page) > PageSize) => Len(ItemsOfPage(page)) = Len(page)
           /\ Len(ItemsOfPage(page)) <= Len(page)
           /\ StoriesOf(ItemsOfPage(page)) \in Seq(Story)
           /\ Len(StoriesOf(ItemsOfPage(page))) = Len(ItemsOfPage(page))
           /\ \A k \in 1 .. Len(ItemsOfPage(page)) :
                 StoriesOf(ItemsOfPage(page))[k] = page[k].story
<1> DEFINE m == Min({Len(page), PageSize})
           items == ItemsOfPage(page)
<1>1. Len(page) \in Nat /\ PageSize \in Nat /\ PageSize > 0
  BY LikesAssumption
<1>2. /\ m \in Nat /\ m <= Len(page) /\ m <= PageSize
      /\ Len(page) > PageSize => m = PageSize
      /\ ~ (Len(page) > PageSize) => m = Len(page)
  <2>1. {Len(page), PageSize} \in SUBSET Nat
    BY <1>1
  <2>2. m \in {Len(page), PageSize}
    BY <2>1, LeastIsIn
  <2>3. \E x \in {Len(page), PageSize} : \A y \in {Len(page), PageSize} : x <= y
    BY <1>1
  <2>4. m <= Len(page) /\ m <= PageSize
    BY <2>3 DEF Min
  <2>5. QED
    BY <1>1, <2>2, <2>4
<1> HIDE DEF m
<1>3. /\ items = SubSeq(page, 1, m) /\ items \in Seq(after) /\ Len(items) = m
      /\ \A k \in 1 .. m : items[k] = page[k]
  <2>1. items = SubSeq(page, 1, m)
    BY DEF ItemsOfPage, m
  <2>2. /\ SubSeq(page, 1, m) \in Seq(after)
        /\ Len(SubSeq(page, 1, m)) = IF 1 <= m THEN m - 1 + 1 ELSE 0
        /\ \A k \in 1 .. (m - 1 + 1) : SubSeq(page, 1, m)[k] = page[1 + k - 1]
    <3>1. \A k \in 1 .. m : k \in 1 .. Len(page)
      BY <1>1, <1>2
    <3>2. QED
      BY <1>1, <1>2, <3>1, SubSeqProperties
  <2>3. QED
    BY <1>2, <2>1, <2>2
<1> HIDE DEF items
<1>4. /\ DOMAIN items = 1 .. m
      /\ \A k \in 1 .. m : items[k] \in Event
  BY <1>2, <1>3, LenProperties, ElementOfSeq
<1>5. /\ StoriesOf(items) = [k \in 1 .. m |-> page[k].story]
      /\ \A k \in 1 .. m : page[k].story \in Story
  BY <1>3, <1>4 DEF StoriesOf, Event
<1>6. StoriesOf(items) \in Seq(Story)
  <2>1. [k \in 1 .. m |-> page[k].story] \in Seq(Story)
    BY <1>2, <1>5, IsASeq
  <2>2. QED
    BY <1>5, <2>1
<1>7. Len(StoriesOf(items)) = m
  <2>1. DOMAIN StoriesOf(items) = 1 .. m
    BY <1>5
  <2>2. QED
    BY <1>2, <1>6, <2>1, LenProperties
<1>8. Len(page) > PageSize => Last(items) = page[PageSize] /\ Len(page) = PageSize + 1
  BY <1>1, <1>2, <1>3 DEF Last
<1>9. QED
  BY <1>1, <1>2, <1>3, <1>5, <1>6, <1>7, <1>8 DEF items

\* A sequence is one after the other.
Joins(s, a, b) ==
    /\ DOMAIN s = 1 .. (Len(a) + Len(b))
    /\ \A k \in 1 .. Len(a) : s[k] = a[k]
    /\ \A k \in 1 .. Len(b) : s[Len(a) + k] = b[k]
    /\ \A k \in DOMAIN s : k \in DOMAIN a \/ \E i \in 1 .. Len(b) : k = Len(a) + i
LEMMA JoinIs ==
    ASSUME NEW E, NEW a \in Seq(E), NEW b \in Seq(E)
    PROVE  Joins(a \o b, a, b)
<1>1. PICK m, n : m = Len(a) /\ n = Len(b)
  OBVIOUS
<1>2. /\ m \in Nat /\ n \in Nat /\ DOMAIN a = 1 .. m
      /\ Len(a \o b) = m + n /\ DOMAIN (a \o b) = 1 .. Len(a \o b)
  BY <1>1, LenProperties, ConcatProperties
<1>3. \A k \in 1 .. (m + n) : (a \o b)[k] = IF k <= m THEN a[k] ELSE b[k - m]
  BY <1>1, ConcatProperties
<1>4. PICK s : s = a \o b
  OBVIOUS
<1>5. \A k \in 1 .. m : s[k] = a[k]
  <2>1. \A k \in 1 .. m : k \in 1 .. (m + n) /\ k <= m
    BY <1>2
  <2>2. QED
    BY <1>3, <1>4, <2>1
<1>6. \A k \in 1 .. n : s[m + k] = b[k]
  <2> SUFFICES ASSUME NEW k \in 1 .. n PROVE s[m + k] = b[k]
    OBVIOUS
  <2>1. m + k \in 1 .. (m + n) /\ ~ (m + k <= m) /\ (m + k) - m = k
    BY <1>2
  <2>2. QED
    BY <1>3, <1>4, <2>1
<1>7. \A k \in 1 .. (m + n) : k \in 1 .. m \/ \E i \in 1 .. n : k = m + i
  <2> SUFFICES ASSUME NEW k \in 1 .. (m + n), k \notin 1 .. m
               PROVE  \E i \in 1 .. n : k = m + i
    OBVIOUS
  <2>1. k - m \in 1 .. n /\ k = m + (k - m)
    BY <1>2
  <2>2. QED
    BY <2>1
<1>8. QED
  BY <1>1, <1>2, <1>4, <1>5, <1>6, <1>7 DEF Joins

\* The page that is answered goes on where the cursor stands.
LEMMA WalkAnswers ==
    ASSUME NEW past \in Seq(Happening), NEW w, NEW seen, WalkSound(w, past, seen), w.pc = "read",
           NEW v, v = AfterAnswer(w, PageOf(LeftOf(w.read, w.section, w.cursor, seen)))
    PROVE  WalkSound(v, past, seen)
<1> DEFINE after == LeftOf(w.read, w.section, w.cursor, seen)
           page == PageOf(after)
           items == ItemsOfPage(page)
           stories == StoriesOf(items)
           m == Len(items)
<1>1. /\ w \in Walk /\ IsInjective(w.shown)
      /\ w.cursor = NoCursor => w.shown = <<>>
      /\ Passed(w, past) /\ Ahead(w, past, seen) /\ ReadIsPast(w, past)
  BY DEF WalkSound
<1>2. /\ w.cursor \in {NoCursor} \cup Event /\ w.read \in SUBSET Event
      /\ w.shown \in Seq(Story) /\ w.steady \in SUBSET Story
      /\ \A s \in Range(w.shown) : s \in Story
  BY <1>1, WalkFields
<1>3. /\ after \in SUBSET Event /\ IsFiniteSet(after)
      /\ \A d, e \in after : d.story = e.story => d = e
      /\ \A e \in after : e \in w.read /\ isAfterCursor(e, w.cursor)
  <2>1. after \in SUBSET w.read /\ \A e \in after : isAfterCursor(e, w.cursor)
    BY DEF LeftOf
  <2>2. IsFiniteSet(after)
    BY <1>1, <2>1, FS_Subset DEF ReadIsPast
  <2> HIDE DEF after
  <2>3. QED
    BY <1>1, <1>2, <2>1, <2>2 DEF ReadIsPast
<1> HIDE DEF after
<1>4. /\ page \in Seq(after) /\ Len(page) \in 0 .. (PageSize + 1) /\ PageSize \in Nat /\ PageSize > 0
      /\ InPages(page, after)
  BY <1>3, PageIs
<1>5. v = AfterAnswer(w, page)
  BY DEF after
<1> HIDE DEF page
<1>6. /\ m \in 0 .. PageSize /\ m <= Len(page)
      /\ Len(page) > PageSize => m = PageSize /\ Last(items) = page[m] /\ Len(page) = PageSize + 1
      /\ ~ (Len(page) > PageSize) => m = Len(page)
      /\ stories \in Seq(Story) /\ Len(stories) = m
      /\ \A k \in 1 .. m : stories[k] = page[k].story
  BY <1>3, <1>4, ItemsAre
<1>7. \A k \in 1 .. Len(page) : page[k] \in after
  BY <1>4, ElementOfSeq
<1> DEFINE shown == w.shown \o stories
           more == Len(page) > PageSize
<1>8. more => Last(items) \in Event
  BY <1>3, <1>4, <1>6, <1>7
<1>9. /\ v.pc = (IF more THEN "page" ELSE "end")
      /\ v.cursor = (IF more THEN Last(items) ELSE NoCursor)
      /\ v.read = {} /\ v.shown = shown /\ v.section = w.section /\ v.steady = w.steady
      /\ v \in Walk
  <2>1. shown \in Seq(Story)
    BY <1>2, <1>6, ConcatProperties
  <2>2. PICK pc : pc = (IF more THEN "page" ELSE "end")
    OBVIOUS
  <2>3. PICK cursor : cursor = (IF more THEN Last(items) ELSE NoCursor)
    OBVIOUS
  <2>4. v = [w EXCEPT !.pc = pc, !.cursor = cursor, !.read = {}, !.shown = shown]
    BY <1>5, <2>2, <2>3 DEF AfterAnswer
  <2>5. pc \in {"page", "end"} /\ cursor \in {NoCursor} \cup Event
    BY <1>8, <2>2, <2>3
  <2> HIDE DEF shown, more, items
  <2>6. QED
    BY <1>1, <2>1, <2>2, <2>3, <2>4, <2>5 DEF Walk
<1>10. /\ Len(w.shown) \in Nat /\ DOMAIN w.shown = 1 .. Len(w.shown)
       /\ DOMAIN shown = 1 .. (Len(w.shown) + m)
       /\ \A k \in 1 .. Len(w.shown) : shown[k] = w.shown[k]
       /\ \A k \in 1 .. m : shown[Len(w.shown) + k] = page[k].story
       /\ \A k \in DOMAIN shown : k \in DOMAIN w.shown \/ \E i \in 1 .. m : k = Len(w.shown) + i
  <2>1. /\ Len(w.shown) \in Nat /\ DOMAIN w.shown = 1 .. Len(w.shown)
        /\ Len(stories) = m
    BY <1>2, <1>6, LenProperties
  <2>2. Joins(shown, w.shown, stories)
    BY <1>2, <1>6, JoinIs
  <2> HIDE DEF shown, m, stories
  <2>3. QED
    BY <1>6, <2>1, <2>2 DEF Joins
<1> HIDE DEF shown, stories, items, m, more
\* Each place of the longer sequence is one of the old, or one of the page.
<1>11. /\ \A k \in DOMAIN shown : \/ k \in DOMAIN w.shown /\ shown[k] = w.shown[k]
                                  \/ \E i \in 1 .. m : k = Len(w.shown) + i /\ shown[k] = page[i].story
       /\ \A s : s \in Range(shown) <=> s \in Range(w.shown) \/ \E i \in 1 .. m : s = page[i].story
  <2>1. ASSUME NEW k \in DOMAIN shown
        PROVE  \/ k \in DOMAIN w.shown /\ shown[k] = w.shown[k]
               \/ \E i \in 1 .. m : k = Len(w.shown) + i /\ shown[k] = page[i].story
    BY <1>10, <2>1
  <2>2. /\ \A k \in DOMAIN w.shown : k \in DOMAIN shown
        /\ \A i \in 1 .. m : Len(w.shown) + i \in DOMAIN shown
    BY <1>6, <1>10
  <2>3. QED
    BY <1>10, <2>1, <2>2 DEF Range
\* What is on the page has not been shown.
<1>12. \A i \in 1 .. m : page[i] \in after /\ page[i] \in w.read /\ page[i] \in Event
  BY <1>3, <1>6, <1>7
<1>13. \A i \in 1 .. m : page[i].story \notin Range(w.shown)
  <2> SUFFICES ASSUME NEW i \in 1 .. m, page[i].story \in Range(w.shown) PROVE FALSE
    OBVIOUS
  <2>1. w.cursor # NoCursor
    <3>1. w.shown = <<>> => Range(w.shown) = {}
      BY DEF Range
    <3>2. QED
      BY <1>1, <3>1
  <2>2. ~ compareLikedIssues(w.cursor, page[i])
    BY <1>1, <1>12, <2>1 DEF ReadIsPast
  <2>3. QED
    BY <1>3, <1>12, <2>1, <2>2 DEF isAfterCursor
<1>14. IsInjective(shown)
  <2> SUFFICES ASSUME NEW j \in DOMAIN shown, NEW k \in DOMAIN shown, shown[j] = shown[k]
               PROVE  j = k
    BY DEF IsInjective
  <2>1. \A a, b \in DOMAIN w.shown : w.shown[a] = w.shown[b] => a = b
    BY <1>1 DEF IsInjective
  <2>2. \A a, b \in 1 .. m : page[a].story = page[b].story => a = b
    <3> SUFFICES ASSUME NEW a \in 1 .. m, NEW b \in 1 .. m, page[a].story = page[b].story
                 PROVE  a = b
      OBVIOUS
    <3>1. page[a] = page[b]
      BY <1>3, <1>12
    <3>2. a \in 1 .. Len(page) /\ b \in 1 .. Len(page)
      BY <1>4, <1>6
    <3>3. QED
      BY <1>4, <3>1, <3>2 DEF InPages
  <2>3. \A a \in DOMAIN w.shown : w.shown[a] \in Range(w.shown)
    BY DEF Range
  <2>4. CASE j \in DOMAIN w.shown /\ shown[j] = w.shown[j]
    <3>1. CASE k \in DOMAIN w.shown /\ shown[k] = w.shown[k]
      BY <2>1, <2>4, <3>1
    <3>2. CASE \E i \in 1 .. m : k = Len(w.shown) + i /\ shown[k] = page[i].story
      <4>1. PICK i \in 1 .. m : shown[k] = page[i].story
        BY <3>2
      <4>2. shown[k] \in Range(w.shown)
        BY <2>3, <2>4
      <4>3. QED
        BY <1>13, <4>1, <4>2
    <3>3. QED
      BY <1>11, <3>1, <3>2
  <2>5. CASE \E i \in 1 .. m : j = Len(w.shown) + i /\ shown[j] = page[i].story
    <3>1. PICK a \in 1 .. m : j = Len(w.shown) + a /\ shown[j] = page[a].story
      BY <2>5
    <3>2. PICK b \in 1 .. m : k = Len(w.shown) + b /\ shown[k] = page[b].story
      BY <1>11, <1>13, <2>3, <3>1
    <3>3. a = b
      BY <2>2, <3>1, <3>2
    <3>4. QED
      BY <3>1, <3>2, <3>3
  <2>6. QED
    BY <1>11, <2>4, <2>5
<1>15. CASE ~ more
  <2>1. v.pc = "end"
    BY <1>9, <1>15
  <2>2. w.steady \subseteq Range(shown)
    <3> SUFFICES ASSUME NEW s \in w.steady, s \notin Range(w.shown)
                 PROVE  \E i \in 1 .. m : s = page[i].story
      BY <1>11
    <3>1. EventIn(past, s, NoCursor) \in after /\ EventIn(past, s, NoCursor).story = s
      <4>1. EventIn(past, s, NoCursor).story = s
        BY DEF EventIn
      <4>2. /\ s \in seen /\ (w.section = NoCursor \/ SectionOf[s] = w.section)
            /\ isAfterCursor(EventIn(past, s, NoCursor), w.cursor)
            /\ EventIn(past, s, NoCursor) \in w.read
        BY <1>1 DEF Ahead
      <4>3. QED
        BY <4>1, <4>2 DEF after, LeftOf
    <3>2. Len(page) = m /\ Len(page) <= PageSize
      BY <1>4, <1>6, <1>15 DEF more
    <3>3. QED
      BY <1>4, <3>1, <3>2 DEF InPages
  <2>3. QED
    BY <1>9, <1>14, <2>1, <2>2 DEF WalkSound
<1>16. CASE more
  <2>1. PICK last : last = page[m]
    OBVIOUS
  <2>2. /\ v.pc = "page" /\ v.cursor = last /\ m = PageSize /\ Len(page) = m + 1
        /\ m \in 1 .. Len(page) /\ m \in Nat
    BY <1>4, <1>6, <1>9, <1>16, <2>1 DEF more
  <2>3. last \in after /\ last \in Event /\ last # NoCursor
    <3>1. last \in after /\ last \in Event
      BY <1>3, <1>7, <2>1, <2>2
    <3>2. NoCursor \notin Event
      BY LikesAssumption DEF Event
    <3>3. QED
      BY <3>1, <3>2
  <2>4. ASSUME NEW s \in Range(w.shown)
        PROVE  LastIn(past, s, NoCursor) # 0 /\ ~ compareLikedIssues(last, EventIn(past, s, NoCursor))
    <3>1. w.cursor # NoCursor /\ w.cursor \in Event
      <4>1. w.shown = <<>> => Range(w.shown) = {}
        BY DEF Range
      <4>2. QED
        BY <1>1, <1>2, <4>1
    <3>2. /\ LastIn(past, s, NoCursor) # 0
          /\ ~ compareLikedIssues(w.cursor, EventIn(past, s, NoCursor))
      BY <1>1, <3>1 DEF Passed
    <3>3. compareLikedIssues(w.cursor, last)
      BY <1>3, <2>3, <3>1 DEF isAfterCursor
    <3>4. EventIn(past, s, NoCursor) \in Event
      BY <1>2, <3>2, EventIs
    <3>5. QED
      BY <2>3, <3>1, <3>2, <3>3, <3>4, LikedOrder
  <2>5. ASSUME NEW i \in 1 .. m
        PROVE  /\ LastIn(past, page[i].story, NoCursor) # 0
               /\ ~ compareLikedIssues(last, EventIn(past, page[i].story, NoCursor))
    <3>1. page[i].story \in Story /\ page[i] \in Event
      BY <1>12 DEF Event
    <3>2. /\ LastIn(past, page[i].story, NoCursor) # 0
          /\ page[i].at <= past[LastIn(past, page[i].story, NoCursor)].at
      BY <1>1, <1>12 DEF ReadIsPast
    <3> DEFINE e == EventIn(past, page[i].story, NoCursor)
    <3>3. e \in Event /\ e.story = page[i].story /\ page[i].at <= e.at
      BY <3>1, <3>2, EventIs
    <3> HIDE DEF e
    <3>4. ~ compareLikedIssues(last, page[i])
      <4>1. CASE i = m
        BY <2>1, <2>3, <4>1, LikedOrder
      <4>2. CASE i # m
        <5>1. i < m /\ i \in 1 .. Len(page)
          BY <2>2, <4>2
        <5>2. compareLikedIssues(page[i], last)
          BY <1>4, <2>1, <2>2, <5>1 DEF InPages
        <5>3. QED
          BY <2>3, <3>1, <5>2, LikedOrder
      <4>3. QED
        BY <4>1, <4>2
    <3>5. ~ compareLikedIssues(last, e)
      BY <2>3, <3>1, <3>3, <3>4, LikedOrder
    <3>6. QED
      BY <3>2, <3>5 DEF e
  <2>6. Passed(v, past)
    BY <1>9, <1>11, <2>2, <2>4, <2>5 DEF Passed
  <2>7. ASSUME NEW s \in w.steady
        PROVE  s \in Range(shown) \/ isAfterCursor(EventIn(past, s, NoCursor), last)
    <3> SUFFICES ASSUME s \notin Range(shown)
                 PROVE  compareLikedIssues(last, EventIn(past, s, NoCursor))
      BY DEF isAfterCursor
    <3> DEFINE e == EventIn(past, s, NoCursor)
    <3>1. e \in after /\ e.story = s
      <4>1. e.story = s
        BY DEF EventIn
      <4>2. /\ s \in seen /\ (w.section = NoCursor \/ SectionOf[s] = w.section)
            /\ isAfterCursor(e, w.cursor) /\ e \in w.read
        BY <1>1, <1>11 DEF Ahead
      <4>3. QED
        BY <4>1, <4>2 DEF after, LeftOf
    <3> HIDE DEF e
    <3>2. CASE \A k \in 1 .. Len(page) : compareLikedIssues(page[k], e)
      BY <2>1, <2>2, <3>2 DEF e
    <3>3. CASE \E k \in 1 .. Len(page) : page[k] = e
      <4>1. PICK k \in 1 .. Len(page) : page[k] = e
        BY <3>3
      <4>2. k \notin 1 .. m
        BY <1>11, <3>1, <4>1
      <4>3. m < k
        BY <2>2, <4>2
      <4>4. compareLikedIssues(page[m], page[k])
        BY <1>4, <2>2, <4>3 DEF InPages
      <4>5. QED
        BY <2>1, <4>1, <4>4 DEF e
    <3>4. QED
      BY <1>4, <3>1, <3>2, <3>3 DEF InPages
  <2>8. Ahead(v, past, seen)
    BY <1>1, <1>9, <2>2, <2>7 DEF Ahead
  <2>9. QED
    BY <1>9, <1>14, <2>2, <2>3, <2>6, <2>8 DEF WalkSound
<1>17. QED
  BY <1>15, <1>16

-----------------------------------------------------------------------------
(* Liked issues: the analysis of a period.                                 *)

CountsAddUp(r) ==
    MapThenSumSet(LAMBDA c : r.counts[c], DOMAIN r.counts) <= Cardinality(r.likes)

\* What was liked and published at the time of the request is what is read.
StudySound(st, past, seen, now) ==
    /\ st = [pc |-> st.pc, asOf |-> st.asOf, read |-> st.read, liked |-> st.liked]
    /\ st.pc \in {"asked", "read"} =>
          /\ st.asOf \in Nat /\ st.asOf <= now
          /\ st.liked = {s \in Story : s \in seen /\ LikedIn(past, s, st.asOf)}
    /\ st.pc = "read" => st.read = EventsIn(past, st.asOf)
    /\ st.pc = "end" => /\ st.liked = st.read.likes \cap seen
                        /\ CountsAddUp(st.read)

\* The issues of what is read, as far as they are published.
StoriesIn(read, seen) == {e.story : e \in {d \in read : d.story \in seen}}
LEMMA StoriesRead ==
    ASSUME NEW past, NEW asOf, NEW seen
    PROVE  StoriesIn(EventsIn(past, asOf), seen)
             = {s \in Story : s \in seen /\ LikedIn(past, s, asOf)}
<1> DEFINE L == {s \in Story : LikedIn(past, s, asOf)}
<1>1. EventsIn(past, asOf) = {EventIn(past, s, asOf) : s \in L}
  BY DEF EventsIn
<1>2. \A s : EventIn(past, s, asOf).story = s
  BY DEF EventIn
<1> HIDE DEF L
<1>3. \A s : s \in StoriesIn(EventsIn(past, asOf), seen) <=> s \in L /\ s \in seen
  BY <1>1, <1>2 DEF StoriesIn
<1>4. QED
  BY <1>3 DEF L

\* What was read for a time that has come is read again.
ReadTheSame(past, longer, asOf) ==
    /\ EventsIn(longer, asOf) = EventsIn(past, asOf)
    /\ \A s : LikedIn(longer, s, asOf) <=> LikedIn(past, s, asOf)
LEMMA EventsStay ==
    ASSUME NEW past, NEW now, InTime(past, now), NEW t \in Story, NEW liked \in BOOLEAN,
           NEW longer, longer = Append(past, [story |-> t, liked |-> liked, at |-> now]),
           NEW asOf \in Nat, asOf <= now
    PROVE  ReadTheSame(past, longer, asOf)
<1>1. \A s : SameLast(past, longer, s, asOf)
  <2>1. \A o \in Nat : o <= now => \A s : SameLast(past, longer, s, o)
    BY ActComesLast
  <2>2. QED
    BY <2>1
<1>2. \A s : /\ LikedIn(longer, s, asOf) <=> LikedIn(past, s, asOf)
             /\ LikedIn(past, s, asOf) => EventIn(longer, s, asOf) = EventIn(past, s, asOf)
  BY <1>1 DEF SameLast, LikedIn
<1>3. EventsIn(longer, asOf) = EventsIn(past, asOf)
  BY <1>2 DEF EventsIn
<1>4. QED
  BY <1>2, <1>3 DEF ReadTheSame

\* The member acts, issues are withdrawn, and time passes.
LEMMA StudyActs ==
    ASSUME NEW past, NEW now, InTime(past, now), NEW st, NEW seen, StudySound(st, past, seen, now),
           NEW t \in Story, NEW liked \in BOOLEAN,
           NEW longer, longer = Append(past, [story |-> t, liked |-> liked, at |-> now])
    PROVE  StudySound(st, longer, seen, now)
<1>1. ASSUME st.pc \in {"asked", "read"}
      PROVE  /\ EventsIn(longer, st.asOf) = EventsIn(past, st.asOf)
             /\ \A s : LikedIn(longer, s, st.asOf) <=> LikedIn(past, s, st.asOf)
  <2>1. st.asOf \in Nat /\ st.asOf <= now
    BY <1>1 DEF StudySound
  <2>2. QED
    <3>1. PICK o : o = st.asOf
      OBVIOUS
    <3>2. o \in Nat /\ o <= now
      BY <2>1, <3>1
    <3>3. ReadTheSame(past, longer, o)
      BY <3>2, EventsStay
    <3>4. QED
      BY <3>1, <3>3 DEF ReadTheSame
<1>2. st.pc \in {"asked", "read"} =>
          /\ st.asOf \in Nat /\ st.asOf <= now
          /\ st.liked = {s \in Story : s \in seen /\ LikedIn(longer, s, st.asOf)}
  BY <1>1 DEF StudySound
<1>3. st.pc = "read" => st.read = EventsIn(longer, st.asOf)
  BY <1>1 DEF StudySound
<1>4. QED
  BY <1>2, <1>3 DEF StudySound

\* An analysis stays sound when a story is withdrawn meanwhile.
LEMMA StudyWithdrawn ==
    ASSUME NEW past, NEW now, NEW st, NEW seen, StudySound(st, past, seen, now), NEW t,
           NEW next, next = [st EXCEPT !.liked = @ \ {t}]
    PROVE  StudySound(next, past, seen \ {t}, now)
<1>1. st = [pc |-> st.pc, asOf |-> st.asOf, read |-> st.read, liked |-> st.liked]
  BY DEF StudySound
<1>2. next = [pc |-> st.pc, asOf |-> st.asOf, read |-> st.read, liked |-> st.liked \ {t}]
  <2>1. PICK pc, asOf, read, likes :
           st = [pc |-> pc, asOf |-> asOf, read |-> read, liked |-> likes]
    BY <1>1
  <2>2. QED
    BY <2>1
<1>3. /\ next.pc = st.pc /\ next.asOf = st.asOf /\ next.read = st.read
      /\ next.liked = st.liked \ {t}
  BY <1>2
<1>4. st.pc \in {"asked", "read"} =>
          /\ st.asOf \in Nat /\ st.asOf <= now
          /\ st.liked \ {t} = {s \in Story : s \in seen \ {t} /\ LikedIn(past, s, st.asOf)}
  BY DEF StudySound
<1>5. st.pc = "read" => st.read = EventsIn(past, st.asOf)
  BY DEF StudySound
<1>6. st.pc = "end" => st.liked \ {t} = st.read.likes \cap (seen \ {t}) /\ CountsAddUp(st.read)
  BY DEF StudySound
<1> HIDE DEF CountsAddUp
<1>7. QED
  BY <1>2, <1>3, <1>4, <1>5, <1>6 DEF StudySound

\* And when time passes.
LEMMA StudyWaits ==
    ASSUME NEW past, NEW now \in Nat, NEW st, NEW seen, StudySound(st, past, seen, now)
    PROVE  StudySound(st, past, seen, now + 1)
<1>1. st.asOf \in Nat /\ st.asOf <= now => st.asOf <= now + 1
  OBVIOUS
<1>2. QED
  BY <1>1 DEF StudySound

\* The counts of the categories are those of the likes in the period.
CountsOf(read, from, seen) ==
    LET likes == {e \in read : e.story \in seen}
        period == {e \in likes : e.at >= from}
    IN  [likes |-> {e.story : e \in likes},
         counts |-> [c \in {SectionOf[e.story] : e \in period} |->
                       Cardinality({e \in period : SectionOf[e.story] = c})]]

\* The counts of an analysis are those of the liked stories, and add up to them.
LEMMA CountedAddUp ==
    ASSUME NEW read, IsFiniteSet(read), \A d, e \in read : d.story = e.story => d = e,
           NEW from, NEW seen
    PROVE  /\ Counted(read, from) = CountsOf(read, from, visible)
           /\ CountsAddUp(CountsOf(read, from, seen))
           /\ CountsOf(read, from, seen).likes = {e.story : e \in {d \in read : d.story \in seen}}
<1> DEFINE likes == {e \in read : e.story \in seen}
           period == {e \in likes : e.at >= from}
           of == [e \in period |-> SectionOf[e.story]]
           sections == {SectionOf[e.story] : e \in period}
           counts == [c \in sections |-> Cardinality({e \in period : SectionOf[e.story] = c})]
           stories == {e.story : e \in likes}
           r == CountsOf(read, from, seen)
<1>1. Counted(read, from) = CountsOf(read, from, visible)
  BY DEF Counted, CountsOf, CurrentLikes
<1>2. r.likes = stories /\ r.counts = counts /\ DOMAIN counts = sections
  BY DEF CountsOf
<1>3. /\ IsFiniteSet(likes) /\ IsFiniteSet(period) /\ Cardinality(period) \in Nat
      /\ Cardinality(period) <= Cardinality(likes) /\ Cardinality(likes) \in Nat
  <2>1. likes \in SUBSET read /\ period \in SUBSET likes
    OBVIOUS
  <2> HIDE DEF likes, period
  <2>2. QED
    BY <2>1, FS_Subset, FS_CardinalityType
<1>4. Cardinality(likes) = Cardinality(stories)
  <2> DEFINE name == [e \in likes |-> e.story]
  <2>1. name \in Bijection(likes, stories)
    <3>1. name \in Surjection(likes, stories)
      BY DEF Surjection
    <3>2. name \in Injection(likes, stories)
      <4>1. name \in [likes -> stories]
        OBVIOUS
      <4>2. \A d, e \in likes : name[d] = name[e] => d = e
        OBVIOUS
      <4> HIDE DEF name, likes, stories
      <4>3. QED
        BY <4>1, <4>2 DEF Injection, IsInjective
    <3>3. QED
      BY <3>1, <3>2 DEF Bijection
  <2> HIDE DEF name, likes, stories
  <2>2. QED
    BY <1>3, <2>1, FS_Bijection DEF ExistsBijection
<1>5. SumOver(counts, sections) = Cardinality(period)
  <2>1. \A e \in period : of[e] = SectionOf[e.story]
    OBVIOUS
  <2>2. sections = Classes(of, period)
    BY DEF Classes
  <2>3. counts = ClassSizes(of, period)
    <3>1. \A c : {e \in period : of[e] = c} = {e \in period : SectionOf[e.story] = c}
      BY <2>1
    <3> HIDE DEF period, of, sections
    <3>2. QED
      BY <2>2, <3>1 DEF ClassSizes
  <2> HIDE DEF period, of, sections, counts
  <2>4. QED
    BY <1>3, <2>2, <2>3, SumOfClasses
<1> HIDE DEF counts, sections, period, likes, stories
<1>6. MapThenSumSet(LAMBDA c : counts[c], sections) = SumOver(counts, sections)
  BY ZenonT(40) DEF MapThenSumSet, MapThenFoldSet, SumOver, SumsUp, OneOf
<1>7. MapThenSumSet(LAMBDA c : r.counts[c], DOMAIN r.counts)
        = MapThenSumSet(LAMBDA c : counts[c], sections)
  BY <1>2
<1>8. CountsAddUp(r)
  <2>1. SumOver(counts, sections) <= Cardinality(stories)
    BY <1>3, <1>4, <1>5
  <2>2. QED
    BY <1>2, <1>6, <1>7, <2>1 DEF CountsAddUp
<1>9. QED
  BY <1>1, <1>2, <1>8 DEF likes, stories

-----------------------------------------------------------------------------
(* Liked issues: the invariant.                                            *)

LikesInv ==
    /\ InTime(acts, clock) /\ visible \subseteq Story
    /\ WalkSound(walk, acts, visible)
    /\ StudySound(study, acts, visible, clock)

\* ActsBefore anything was read nothing can be wrong with it.
LEMMA LikesInvInit == ASSUME LikesInit PROVE LikesInv
<1>1. InTime(acts, clock)
  BY EmptySeq DEF LikesInit, InTime
<1>2. /\ <<>> \in Seq(Story) /\ NoCursor \in {NoCursor} \cup Event /\ IsInjective(<<>>)
  BY EmptySeq DEF IsInjective
<1>3. walk \in Walk /\ walk.pc \in {"off", "start"} /\ walk.shown = <<>> /\ walk.cursor = NoCursor
  BY <1>2 DEF LikesInit, Walk
<1>4. WalkSound(walk, acts, visible)
  BY <1>2, <1>3 DEF WalkSound
<1>5. StudySound(study, acts, visible, clock)
  BY DEF LikesInit, StudySound
<1>6. QED
  BY <1>1, <1>4, <1>5 DEF LikesInv, LikesInit

\* A like, or its end, during a walk keeps the invariant.
LEMMA ActOnKeeps ==
    ASSUME LikesInv, NEW s \in Story, NEW liked \in BOOLEAN, ActOn(s, liked)
    PROVE  LikesInv'
<1>1. PICK longer : longer = Append(acts, [story |-> s, liked |-> liked, at |-> clock])
  OBVIOUS
<1>2. PICK v : v = Less(walk, s)
  OBVIOUS
<1>3. acts' = longer /\ walk' = v /\ UNCHANGED <<clock, visible, study>>
  BY <1>1, <1>2 DEF ActOn, Less
<1>4. InTime(acts, clock) /\ WalkSound(walk, acts, visible) /\ StudySound(study, acts, visible, clock)
  BY DEF LikesInv
<1>5. InTime(longer, clock)
  BY <1>1, <1>4, ActComesLast
<1>6. WalkSound(v, longer, visible)
  BY <1>1, <1>2, <1>4, WalkActs
<1>7. StudySound(study, longer, visible, clock)
  BY <1>1, <1>4, StudyActs
<1>8. QED
  BY <1>3, <1>5, <1>6, <1>7 DEF LikesInv

\* So does the withdrawal of a story.
LEMMA WithdrawKeeps ==
    ASSUME LikesInv, NEW s \in Story, WithdrawStory(s)
    PROVE  LikesInv'
<1>1. PICK v : v = Less(walk, s)
  OBVIOUS
<1>2. PICK st : st = [study EXCEPT !.liked = @ \ {s}]
  OBVIOUS
<1>3. /\ walk' = v /\ study' = st /\ visible' = visible \ {s} /\ UNCHANGED <<clock, acts>>
  BY <1>1, <1>2 DEF WithdrawStory, Less
<1>4. InTime(acts, clock) /\ WalkSound(walk, acts, visible) /\ StudySound(study, acts, visible, clock)
  BY DEF LikesInv
<1>5. WalkSound(v, acts, visible \ {s})
  BY <1>1, <1>4, WalkWithdrawn
<1>6. StudySound(st, acts, visible \ {s}, clock)
  BY <1>2, <1>4, StudyWithdrawn
<1>7. QED
  BY <1>3, <1>4, <1>5, <1>6 DEF LikesInv

\* So does the clock.
LEMMA TimeKeeps ==
    ASSUME LikesInv, TimePasses
    PROVE  LikesInv'
<1>1. clock' = clock + 1 /\ UNCHANGED <<acts, visible, walk, study>>
  BY DEF TimePasses
<1>2. InTime(acts, clock) /\ clock \in Nat /\ acts \in Seq(Happening)
  BY DEF LikesInv, InTime
<1>3. \A k \in 1 .. Len(acts) : acts[k].at \in Nat
  <2>1. \A k \in 1 .. Len(acts) : acts[k] \in Happening
    BY <1>2, ElementOfSeq
  <2>2. QED
    BY <2>1 DEF Happening
<1>4. InTime(acts, clock + 1)
  <2>1. \A k \in 1 .. Len(acts) : acts[k].at <= clock + 1
    <3>1. \A k \in 1 .. Len(acts) : acts[k].at <= clock
      BY <1>2 DEF InTime
    <3>2. QED
      BY <1>2, <1>3, <3>1
  <2>2. QED
    BY <1>2, <2>1 DEF InTime
<1>5. StudySound(study, acts, visible, clock + 1)
  BY <1>2, StudyWaits DEF LikesInv
<1>6. QED
  BY <1>1, <1>4, <1>5 DEF LikesInv

\* So does the query of a page.
LEMMA AskKeeps ==
    ASSUME LikesInv, NEW section \in Section \cup {NoCursor}, AskPage(section)
    PROVE  LikesInv'
<1>1. acts \in Seq(Happening) /\ WalkSound(walk, acts, visible)
  BY DEF LikesInv, InTime
<1>2. LikedEvents(NoCursor) = EventsIn(acts, NoCursor)
  BY <1>1, QueriesAre
<1>3. PICK lasting : lasting = IF walk.pc = "start"
                             THEN {e.story : e \in Eligible(LikedEvents(NoCursor), section)}
                             ELSE walk.steady
  OBVIOUS
<1>4. walk' = [walk EXCEPT !.pc = "read", !.section = section,
                           !.read = EventsIn(acts, NoCursor), !.steady = lasting]
  BY <1>2, <1>3 DEF AskPage
<1>5. walk.pc = "start" => lasting = {e.story : e \in {d \in EventsIn(acts, NoCursor) :
                                       /\ d.story \in visible
                                       /\ section = NoCursor \/ SectionOf[d.story] = section}}
  BY <1>2, <1>3 DEF Eligible, CurrentLikes
<1>6. walk.pc # "start" => lasting = walk.steady
  BY <1>3
<1>7. walk.pc = "start" \/ (walk.pc = "page" /\ section = walk.section)
  BY DEF AskPage
<1>8. PICK v : v = [walk EXCEPT !.pc = "read", !.section = section,
                                !.read = EventsIn(acts, NoCursor), !.steady = lasting]
  OBVIOUS
<1>9. WalkSound(v, acts, visible)
  BY <1>1, <1>5, <1>6, <1>7, <1>8, WalkAsks
<1>10. walk' = v /\ UNCHANGED <<clock, acts, visible, study>>
  BY <1>4, <1>8 DEF AskPage
<1>11. QED
  BY <1>9, <1>10 DEF LikesInv

\* So does its answer.
LEMMA AnswerKeeps ==
    ASSUME LikesInv, AnswerPage
    PROVE  LikesInv'
<1>1. acts \in Seq(Happening) /\ WalkSound(walk, acts, visible) /\ walk.pc = "read"
  BY DEF LikesInv, InTime, AnswerPage
<1>2. PICK page : page = PageAfter(walk.read, walk.section, walk.cursor)
  OBVIOUS
<1>3. page = PageOf(LeftOf(walk.read, walk.section, walk.cursor, visible))
  BY <1>2, PageAfterIs
<1>4. PICK v : v = AfterAnswer(walk, page)
  OBVIOUS
<1>5. WalkSound(v, acts, visible)
  BY <1>1, <1>3, <1>4, WalkAnswers
<1>6. walk' = v /\ UNCHANGED <<clock, acts, visible, study>>
  BY <1>2, <1>4 DEF AnswerPage, AfterAnswer, ItemsOfPage, StoriesOf
<1>7. QED
  BY <1>5, <1>6 DEF LikesInv

\* So does the request of an analysis.
LEMMA AskAnalysisKeeps ==
    ASSUME LikesInv, AskAnalysis
    PROVE  LikesInv'
<1>1. acts \in Seq(Happening) /\ clock \in Nat
  BY DEF LikesInv, InTime
<1>2. LikedEvents(clock) = EventsIn(acts, clock)
  BY <1>1, QueriesAre
<1>3. PICK liked : liked = {e.story : e \in CurrentLikes(LikedEvents(clock))}
  OBVIOUS
<1>4. liked = {s \in Story : s \in visible /\ LikedIn(acts, s, clock)}
  <2>1. liked = StoriesIn(EventsIn(acts, clock), visible)
    BY <1>2, <1>3 DEF CurrentLikes, StoriesIn
  <2>2. QED
    BY <2>1, StoriesRead
<1>5. study = [pc |-> study.pc, asOf |-> study.asOf, read |-> study.read, liked |-> study.liked]
  BY DEF LikesInv, StudySound
<1>6. study' = [pc |-> "asked", asOf |-> clock, read |-> study.read, liked |-> liked]
  <2>1. study' = [study EXCEPT !.pc = "asked", !.asOf = clock, !.liked = liked]
    BY <1>3 DEF AskAnalysis
  <2>2. PICK pc, asOf, read, likes :
           study = [pc |-> pc, asOf |-> asOf, read |-> read, liked |-> likes]
    BY <1>5
  <2>3. QED
    BY <2>1, <2>2
<1>7. UNCHANGED <<clock, acts, visible, walk>>
  BY DEF AskAnalysis
<1>8. StudySound(study', acts, visible, clock)
  BY <1>1, <1>4, <1>6 DEF StudySound
<1>9. QED
  BY <1>7, <1>8 DEF LikesInv

\* So does its query.
LEMMA ReadAnalysisKeeps ==
    ASSUME LikesInv, ReadAnalysis
    PROVE  LikesInv'
<1>1. acts \in Seq(Happening)
  BY DEF LikesInv, InTime
<1>2. LikedEvents(study.asOf) = EventsIn(acts, study.asOf)
  BY <1>1, QueriesAre
<1>3. study = [pc |-> study.pc, asOf |-> study.asOf, read |-> study.read, liked |-> study.liked]
  BY DEF LikesInv, StudySound
<1>4. /\ study.pc = "asked" /\ study.asOf \in Nat /\ study.asOf <= clock
      /\ study.liked = {s \in Story : s \in visible /\ LikedIn(acts, s, study.asOf)}
  BY DEF LikesInv, StudySound, ReadAnalysis
<1>5. PICK events : events = EventsIn(acts, study.asOf)
  OBVIOUS
<1>6. study' = [pc |-> "read", asOf |-> study.asOf, read |-> events, liked |-> study.liked]
  <2>1. study' = [study EXCEPT !.pc = "read", !.read = events]
    BY <1>2, <1>5 DEF ReadAnalysis
  <2>2. PICK pc, asOf, read, likes :
           study = [pc |-> pc, asOf |-> asOf, read |-> read, liked |-> likes]
    BY <1>3
  <2>3. QED
    BY <2>1, <2>2
<1>7. UNCHANGED <<clock, acts, visible, walk>>
  BY DEF ReadAnalysis
<1>8. StudySound(study', acts, visible, clock)
  BY <1>4, <1>5, <1>6 DEF StudySound
<1>9. QED
  BY <1>7, <1>8 DEF LikesInv

\* So does its answer.
LEMMA AnswerAnalysisKeeps ==
    ASSUME LikesInv, AnswerAnalysis
    PROVE  LikesInv'
<1>1. acts \in Seq(Happening)
  BY DEF LikesInv, InTime
<1>2. /\ study.pc = "read" /\ study.read = EventsIn(acts, study.asOf)
      /\ study.liked = {s \in Story : s \in visible /\ LikedIn(acts, s, study.asOf)}
  BY DEF LikesInv, StudySound, AnswerAnalysis
<1>3. PICK from : from = study.asOf - AnalysisWindow
  OBVIOUS
<1>4. /\ IsFiniteSet(study.read)
      /\ \A d, e \in study.read : d.story = e.story => d = e
      /\ {e.story : e \in {d \in study.read : d.story \in visible}} = study.liked
  <2> DEFINE L == {u \in Story : LikedIn(acts, u, study.asOf)}
             f == [s \in L |-> EventIn(acts, s, study.asOf)]
  <2>1. IsFiniteSet(L)
    BY LikesAssumption, FS_Subset
  <2>2. f \in Surjection(L, study.read)
    BY <1>2 DEF Surjection, EventsIn
  <2>3. \A d, e \in study.read : d.story = e.story => d = e
    BY <1>2 DEF EventsIn, EventIn
  <2>4. {e.story : e \in {d \in study.read : d.story \in visible}} = study.liked
    BY <1>2, StoriesRead DEF StoriesIn
  <2> HIDE DEF L, f
  <2>5. QED
    BY <2>1, <2>2, <2>3, <2>4, FS_Surjection
<1>5. PICK r : r = CountsOf(study.read, from, visible)
  OBVIOUS
<1>6. Counted(study.read, from) = r /\ CountsAddUp(r) /\ r.likes = study.liked
  BY <1>4, <1>5, CountedAddUp
<1>7. /\ study' = [pc |-> "end", asOf |-> study.asOf, liked |-> study.liked, read |-> r]
      /\ UNCHANGED <<clock, acts, visible, walk>>
  BY <1>3, <1>6 DEF AnswerAnalysis
<1>8. study.liked = r.likes \cap visible
  BY <1>2, <1>6
<1>9. StudySound(study', acts, visible, clock)
  BY <1>6, <1>7, <1>8 DEF StudySound
<1>10. QED
  BY <1>7, <1>9 DEF LikesInv

\* Each step keeps the invariant.
LEMMA LikesStep == ASSUME LikesInv, [LikesNext]_likesVars PROVE LikesInv'
<1>1. CASE UNCHANGED likesVars
  BY <1>1 DEF LikesInv, likesVars
<1>2. CASE LikesNext
  BY <1>2, ActOnKeeps, WithdrawKeeps, TimeKeeps, AskKeeps, AnswerKeeps, AskAnalysisKeeps,
     ReadAnalysisKeeps, AnswerAnalysisKeeps DEF LikesNext
<1>3. QED
  BY <1>1, <1>2

\* What the invariant says of the answers.
LEMMA LikesInvHolds == LikesInv => LikesSound
<1> SUFFICES ASSUME LikesInv PROVE LikesSound
  OBVIOUS
<1>1. WalkIsComplete
  BY DEF LikesInv, WalkSound, WalkIsComplete
<1>2. AnalysisOfItsTime
  BY DEF LikesInv, StudySound, CountsAddUp, AnalysisOfItsTime
<1>3. QED
  BY <1>1, <1>2 DEF LikesSound

\* A walk misses nothing and repeats nothing, an analysis is of its time: for
\* every number of issues, pages, acts and withdrawals between the queries.
THEOREM LikesSoundCorrect == LikesSpec => []LikesSound
<1>1. LikesInit => LikesInv
  BY LikesInvInit
<1>2. LikesInv /\ [LikesNext]_likesVars => LikesInv'
  BY LikesStep
<1>3. LikesInv => LikesSound
  BY LikesInvHolds
<1>4. QED
  BY <1>1, <1>2, <1>3, PTL DEF LikesSpec

-----------------------------------------------------------------------------
(* The candidates of a batch.                                              *)

\* The first so many of a set of numbers: each once, all of them when there
\* are fewer, and one at least of a set that has one.
FirstActs(f, S, n) ==
    /\ f \in Seq(S) /\ Len(f) <= n
    /\ \A j, k \in 1 .. Len(f) : f[j] = f[k] => j = k
    /\ Len(f) < n => \A x \in S : \E k \in 1 .. Len(f) : f[k] = x
    /\ S # {} /\ n > 0 => Len(f) > 0
LEMMA FirstOnesAre ==
    ASSUME NEW S \in SUBSET Nat, IsFiniteSet(S), NEW n \in Nat
    PROVE  FirstActs(FirstOnes(S, n), S, n)
<1> DEFINE m == Min({n, Cardinality(S)})
           f == FirstOnes(S, n)
           R == Smaller(S)
<1>1. Cardinality(S) \in Nat /\ (S # {} => Cardinality(S) > 0)
  BY FS_CardinalityType, FS_EmptySet
<1>2. m \in 0 .. Cardinality(S) /\ m <= n /\ (m < n => m = Cardinality(S))
  <2>1. m \in {n, Cardinality(S)}
    <3>1. {n, Cardinality(S)} \in SUBSET Nat
      BY <1>1
    <3>2. QED
      BY <3>1, LeastIsIn
  <2>2. m <= n /\ m <= Cardinality(S)
    <3>1. \E x \in {n, Cardinality(S)} : \A y \in {n, Cardinality(S)} : x <= y
      BY <1>1
    <3>2. QED
      BY <3>1 DEF Min
  <2>3. QED
    BY <1>1, <2>1, <2>2
<1>3. /\ Orders(R, S)
      /\ \A x \in S : Below(R, S, x) = {y \in S : y < x}
  BY NumbersOrdered
<1> HIDE DEF R
<1>4. AllNumbers(R, S)
  BY <1>3, NumbersAreTaken
<1>5. f = [k \in 1 .. m |-> CHOOSE x \in S : Cardinality({y \in S : y < x}) = k - 1]
  BY DEF FirstOnes
<1> HIDE DEF f, m
<1>6. \A k \in 1 .. m : f[k] \in S /\ Cardinality(Below(R, S, f[k])) = k - 1
  <2> SUFFICES ASSUME NEW k \in 1 .. m
               PROVE  f[k] \in S /\ Cardinality(Below(R, S, f[k])) = k - 1
    OBVIOUS
  <2>1. k - 1 \in 0 .. (Cardinality(S) - 1)
    BY <1>1, <1>2
  <2>2. \E x \in S : Cardinality(Below(R, S, x)) = k - 1
    BY <1>4, <2>1 DEF AllNumbers
  <2>3. \E x \in S : Cardinality({y \in S : y < x}) = k - 1
    BY <1>3, <2>2
  <2>4. f[k] = CHOOSE x \in S : Cardinality({y \in S : y < x}) = k - 1
    BY <1>5
  <2>5. f[k] \in S /\ Cardinality({y \in S : y < f[k]}) = k - 1
    BY <2>3, <2>4
  <2>6. QED
    BY <1>3, <2>5
<1>7. m \in Nat /\ f = [k \in 1 .. m |-> f[k]]
  <2>1. m \in Nat
    BY <1>1, <1>2
  <2>2. f = [k \in 1 .. m |-> f[k]]
    BY <1>5
  <2>3. QED
    BY <2>1, <2>2
<1>8. f \in Seq(S) /\ Len(f) = m
  <2>1. [k \in 1 .. m |-> f[k]] \in Seq(S)
    BY <1>6, <1>7, IsASeq
  <2>2. f \in Seq(S)
    BY <1>7, <2>1
  <2>3. DOMAIN f = 1 .. m
    BY <1>5
  <2>4. QED
    BY <1>7, <2>2, <2>3, LenProperties
<1>9. /\ \A j, k \in 1 .. m : f[j] = f[k] => j = k
      /\ m = Cardinality(S) => \A x \in S : \E k \in 1 .. m : f[k] = x
  BY <1>2, <1>3, <1>6, <1>7, FirstInOrder
<1>10. S # {} /\ n > 0 => m > 0
  BY <1>1, <1>2
<1>11. QED
  BY <1>2, <1>8, <1>9, <1>10 DEF FirstActs, f

\* What is chosen, and where the slices stand.
Chosen == member /\ \E i \in Found : Shares[i] \cup Differs[i] # {}
AtMajor == IF Chosen THEN 2 ELSE 1
Explores == member /\ Familiar # {}
SliceCount == AtMajor + (IF member THEN 1 ELSE 0) + (IF Explores THEN 1 ELSE 0)
                      + (IF Chosen THEN 1 ELSE 0)
PersonalSet == {i \in Found : Personal(i)}
OpposedSet == {i \in Found : Opposed(i)}
SliceRecord == [of : SUBSET Found, weight : {15, 20, 30}]

\* A slice, if it is there, comes after the others.
MoreBy(t, E, s, b, x) ==
    /\ t \in Seq(E) /\ Len(s) \in Nat
    /\ Len(t) = Len(s) + (IF b THEN 1 ELSE 0)
    /\ \A k \in 1 .. Len(s) : t[k] = s[k]
    /\ b => t[Len(s) + 1] = x
    /\ \A k \in 1 .. Len(t) : k \in 1 .. Len(s) \/ t[k] = x
LEMMA OneMore ==
    ASSUME NEW E, NEW s \in Seq(E), NEW b \in BOOLEAN, NEW x \in E
    PROVE  MoreBy(s \o (IF b THEN <<x>> ELSE <<>>), E, s, b, x)
<1>1. CASE b
  <2>1. <<x>> \in Seq(E) /\ Len(<<x>>) = 1 /\ <<x>>[1] = x
    OBVIOUS
  <2>2. PICK t, m : t = s \o <<x>> /\ m = Len(s)
    OBVIOUS
  <2>3. t \in Seq(E) /\ Len(t) = m + 1 /\ m \in Nat /\ DOMAIN t = 1 .. Len(t)
    BY <2>1, <2>2, LenProperties, ConcatProperties
  <2>4. \A k \in 1 .. (m + 1) : t[k] = IF k <= m THEN s[k] ELSE <<x>>[k - m]
    BY <2>1, <2>2, ConcatProperties
  <2>5. \A k \in 1 .. m : t[k] = s[k]
    BY <2>3, <2>4
  <2>6. t[m + 1] = x
    BY <2>1, <2>3, <2>4
  <2>7. \A k \in 1 .. (m + 1) : k \in 1 .. m \/ t[k] = x
    BY <2>3, <2>6
  <2>8. QED
    BY <1>1, <2>2, <2>3, <2>5, <2>6, <2>7 DEF MoreBy
<1>2. CASE ~b
  <2>1. s \o <<>> = s /\ Len(s) \in Nat
    BY LenProperties, ConcatEmptySeq
  <2>2. QED
    BY <1>2, <2>1 DEF MoreBy
<1>3. QED
  BY <1>1, <1>2

\* The slices, which of their positions is whose, and their weights.
SlicesStand ==
    /\ SliceSeq \in Seq(SliceRecord) /\ Len(SliceSeq) = SliceCount
    /\ SliceCount \in 1 .. 5 /\ AtMajor \in 1 .. 2 /\ AtMajor <= SliceCount
    /\ \A k \in 1 .. SliceCount : k > 1 => SliceSeq[k].weight \in {15, 20}
    /\ Chosen => SliceSeq[1].of = PersonalSet /\ SliceSeq[SliceCount].of = OpposedSet
    /\ SliceSeq[AtMajor].of = Important
    /\ Explores => AtMajor + 2 <= SliceCount /\ SliceSeq[AtMajor + 2].of = Found \ Familiar
LEMMA SlicesAre ==
    ASSUME member \in BOOLEAN, linked \in SUBSET Found
    PROVE  SlicesStand
<1> DEFINE personal == [of |-> PersonalSet, weight |-> 30]
           major == [of |-> Important, weight |-> 20]
           connected == [of |-> linked, weight |-> 15]
           exploration == [of |-> Found \ Familiar, weight |-> 20]
           opposite == [of |-> OpposedSet, weight |-> 15]
           s0 == IF Chosen THEN <<personal>> ELSE <<>>
           s1 == s0 \o <<major>>
           s2 == s1 \o (IF member THEN <<connected>> ELSE <<>>)
           s3 == s2 \o (IF Explores THEN <<exploration>> ELSE <<>>)
           s4 == s3 \o (IF Chosen THEN <<opposite>> ELSE <<>>)
<1>1. SliceSeq = s4
  BY DEF SliceSeq, Chosen, Explores, PersonalSet, OpposedSet
<1>2. /\ PersonalSet \in SUBSET Found /\ OpposedSet \in SUBSET Found
      /\ Important \in SUBSET Found /\ (Found \ Familiar) \in SUBSET Found
  BY CandidatePoolAssumption DEF PersonalSet, OpposedSet
<1>3. /\ personal \in SliceRecord /\ major \in SliceRecord /\ connected \in SliceRecord
      /\ exploration \in SliceRecord /\ opposite \in SliceRecord
  BY <1>2 DEF SliceRecord
<1>4. /\ Chosen \in BOOLEAN /\ Explores \in BOOLEAN /\ (Chosen => member)
      /\ (Explores => member)
  BY DEF Chosen, Explores
<1>5. /\ personal.of = PersonalSet /\ major.of = Important /\ exploration.of = Found \ Familiar
      /\ opposite.of = OpposedSet /\ major.weight = 20 /\ connected.weight = 15
      /\ exploration.weight = 20 /\ opposite.weight = 15
  OBVIOUS
<1> HIDE DEF personal, major, connected, exploration, opposite
<1>6. /\ s0 \in Seq(SliceRecord) /\ Len(s0) = (IF Chosen THEN 1 ELSE 0)
      /\ Chosen => s0[1] = personal
  BY <1>3
<1> HIDE DEF s0
<1>7. /\ s1 \in Seq(SliceRecord) /\ Len(s1) = Len(s0) + 1
      /\ \A k \in 1 .. Len(s0) : s1[k] = s0[k]
      /\ s1[Len(s0) + 1] = major
  <2>1. s1 = s0 \o (IF TRUE THEN <<major>> ELSE <<>>)
    OBVIOUS
  <2> HIDE DEF s1
  <2>2. QED
    BY <1>3, <1>6, <2>1, OneMore DEF MoreBy
<1> HIDE DEF s1
<1>8. /\ s2 \in Seq(SliceRecord) /\ Len(s2) = Len(s1) + (IF member THEN 1 ELSE 0)
      /\ \A k \in 1 .. Len(s1) : s2[k] = s1[k]
      /\ \A k \in 1 .. Len(s2) : k \in 1 .. Len(s1) \/ s2[k] = connected
  BY <1>3, <1>7, OneMore DEF MoreBy
<1> HIDE DEF s2
<1>9. /\ s3 \in Seq(SliceRecord) /\ Len(s3) = Len(s2) + (IF Explores THEN 1 ELSE 0)
      /\ \A k \in 1 .. Len(s2) : s3[k] = s2[k]
      /\ Explores => s3[Len(s2) + 1] = exploration
      /\ \A k \in 1 .. Len(s3) : k \in 1 .. Len(s2) \/ s3[k] = exploration
  <2>1. MoreBy(s3, SliceRecord, s2, Explores, exploration)
    BY <1>3, <1>4, <1>8, OneMore
  <2>2. QED
    BY <2>1 DEF MoreBy
<1> HIDE DEF s3
<1>10. /\ s4 \in Seq(SliceRecord) /\ Len(s4) = Len(s3) + (IF Chosen THEN 1 ELSE 0)
       /\ \A k \in 1 .. Len(s3) : s4[k] = s3[k]
       /\ Chosen => s4[Len(s3) + 1] = opposite
       /\ \A k \in 1 .. Len(s4) : k \in 1 .. Len(s3) \/ s4[k] = opposite
  <2>1. MoreBy(s4, SliceRecord, s3, Chosen, opposite)
    BY <1>3, <1>4, <1>9, OneMore
  <2>2. QED
    BY <2>1 DEF MoreBy
<1> HIDE DEF s4
<1>11. /\ Len(s0) = AtMajor - 1 /\ Len(s1) = AtMajor /\ AtMajor \in 1 .. 2
       /\ Len(s2) = AtMajor + (IF member THEN 1 ELSE 0)
       /\ Explores => Len(s2) = AtMajor + 1 /\ Len(s3) = AtMajor + 2
       /\ Chosen => Len(s3) = SliceCount - 1
       /\ Len(s4) = SliceCount /\ SliceCount \in 1 .. 5 /\ AtMajor <= SliceCount
  <2>1. Len(s0) = AtMajor - 1 /\ AtMajor \in 1 .. 2
    BY <1>4, <1>6 DEF AtMajor
  <2>2. Len(s1) = AtMajor
    BY <1>7, <2>1
  <2>3. Len(s2) = AtMajor + (IF member THEN 1 ELSE 0)
    BY <1>8, <2>2
  <2>4. Len(s3) = AtMajor + (IF member THEN 1 ELSE 0) + (IF Explores THEN 1 ELSE 0)
    BY <1>9, <2>3
  <2>5. Len(s4) = SliceCount
    BY <1>10, <2>4 DEF SliceCount
  <2>6. SliceCount = AtMajor + (IF member THEN 1 ELSE 0) + (IF Explores THEN 1 ELSE 0)
                             + (IF Chosen THEN 1 ELSE 0)
    BY DEF SliceCount
  <2>7. SliceCount \in 1 .. 5 /\ AtMajor <= SliceCount
    BY <1>4, <2>1, <2>6
  <2>8. Explores => Len(s2) = AtMajor + 1 /\ Len(s3) = AtMajor + 2
    BY <1>4, <2>1, <2>3, <2>4
  <2>9. Chosen => Len(s3) = SliceCount - 1
    BY <1>4, <2>1, <2>4, <2>6
  <2>10. QED
    BY <2>1, <2>2, <2>3, <2>5, <2>7, <2>8, <2>9
<1>12. SliceSeq[AtMajor].of = Important
  <2>1. AtMajor \in 1 .. Len(s1) /\ AtMajor \in 1 .. Len(s2) /\ AtMajor \in 1 .. Len(s3)
        /\ AtMajor = Len(s0) + 1
    BY <1>4, <1>8, <1>9, <1>11
  <2>2. s4[AtMajor] = major
    BY <1>7, <1>8, <1>9, <1>10, <2>1
  <2>3. QED
    BY <1>1, <1>5, <2>2
<1>13. ASSUME Chosen
       PROVE  SliceSeq[1].of = PersonalSet /\ SliceSeq[SliceCount].of = OpposedSet
  <2>1. 1 \in 1 .. Len(s0) /\ 1 \in 1 .. Len(s1) /\ 1 \in 1 .. Len(s2) /\ 1 \in 1 .. Len(s3)
    BY <1>4, <1>6, <1>7, <1>8, <1>9, <1>11, <1>13
  <2>2. s4[1] = personal
    BY <1>6, <1>7, <1>8, <1>9, <1>10, <1>13, <2>1
  <2>3. Len(s3) + 1 = SliceCount
    BY <1>11, <1>13
  <2>4. s4[SliceCount] = opposite
    BY <1>10, <1>13, <2>3
  <2>5. QED
    BY <1>1, <1>5, <2>2, <2>4
<1>14. ASSUME Explores
       PROVE  AtMajor + 2 <= SliceCount /\ SliceSeq[AtMajor + 2].of = Found \ Familiar
  <2>1. AtMajor + 2 \in 1 .. Len(s3) /\ AtMajor + 2 = Len(s2) + 1
    BY <1>11, <1>14
  <2>2. s4[AtMajor + 2] = exploration
    BY <1>9, <1>10, <1>14, <2>1
  <2>3. AtMajor + 2 <= SliceCount
    BY <1>9, <1>10, <1>11, <1>14
  <2>4. QED
    BY <1>1, <1>5, <2>2, <2>3
<1>15. ASSUME NEW k \in 1 .. SliceCount, k > 1
       PROVE  SliceSeq[k].weight \in {15, 20}
  <2>1. CASE k \in 1 .. Len(s3) /\ k \in 1 .. Len(s2) /\ k \in 1 .. Len(s1)
    <3>1. k = AtMajor
      BY <1>11, <1>15, <2>1
    <3>2. SliceSeq[k] = major
      BY <1>1, <1>7, <1>8, <1>9, <1>10, <1>11, <2>1, <3>1
    <3>3. QED
      BY <1>5, <3>2
  <2>2. CASE k \in 1 .. Len(s3) /\ k \in 1 .. Len(s2) /\ k \notin 1 .. Len(s1)
    <3>1. SliceSeq[k] = connected
      BY <1>1, <1>8, <1>9, <1>10, <2>2
    <3>2. QED
      BY <1>5, <3>1
  <2>3. CASE k \in 1 .. Len(s3) /\ k \notin 1 .. Len(s2)
    <3>1. SliceSeq[k] = exploration
      BY <1>1, <1>9, <1>10, <2>3
    <3>2. QED
      BY <1>5, <3>1
  <2>4. CASE k \notin 1 .. Len(s3)
    <3>1. SliceSeq[k] = opposite
      BY <1>1, <1>10, <1>11, <2>4
    <3>2. QED
      BY <1>5, <3>1
  <2>5. QED
    BY <2>1, <2>2, <2>3, <2>4
<1>16. QED
  BY <1>1, <1>10, <1>11, <1>12, <1>13, <1>14, <1>15 DEF SlicesStand

\* What a slice may take: the shares of all slices but the last leave some.
Share(weight) == Max({1, (PoolLimit * weight) \div 100})
FoundBefore(k) == IF k = 1 THEN 0 ELSE Share(30) + (k - 2) * Share(20)
LEMMA SharesFit ==
    /\ \A w \in {15, 20, 30} : Share(w) \in Nat \ {0}
    /\ \A k \in 1 .. 5 : FoundBefore(k) \in Nat /\ FoundBefore(k) < PoolLimit
    /\ \A w \in {15, 20, 30} : Share(w) <= FoundBefore(2) - FoundBefore(1)
    /\ \A k \in 2 .. 5 : \A w \in {15, 20} : Share(w) <= FoundBefore(k + 1) - FoundBefore(k)
<1>1. PoolLimit \in Nat /\ PoolLimit > 4
  BY CandidatePoolAssumption
<1>2. \A w \in {15, 20, 30} : /\ Share(w) \in Nat
                              /\ Share(w) >= 1 /\ Share(w) >= (PoolLimit * w) \div 100
                              /\ (Share(w) = 1 \/ Share(w) = (PoolLimit * w) \div 100)
  <2> SUFFICES ASSUME NEW w \in {15, 20, 30}
               PROVE  /\ Share(w) \in Nat
                      /\ Share(w) >= 1 /\ Share(w) >= (PoolLimit * w) \div 100
                      /\ Share(w) = 1 \/ Share(w) = (PoolLimit * w) \div 100
    OBVIOUS
  <2>1. PICK q : q = (PoolLimit * w) \div 100
    OBVIOUS
  <2>2. q \in Nat
    BY <1>1, <2>1
  <2>3. Max({1, q}) \in {1, q} /\ \A y \in {1, q} : y <= Max({1, q})
    <3>1. {1, q} \in SUBSET (0 .. (q + 1)) /\ {1, q} # {} /\ q + 1 \in Nat
      BY <2>2
    <3>2. QED
      BY <3>1, GreatestIsIn
  <2>4. Share(w) = Max({1, q})
    BY <2>1 DEF Share
  <2>5. QED
    BY <2>1, <2>2, <2>3, <2>4
<1>3. PICK a, b, c : a = Share(15) /\ b = Share(20) /\ c = Share(30)
  OBVIOUS
<1>4. a \in Nat /\ b \in Nat /\ c \in Nat /\ a >= 1 /\ b >= 1 /\ c >= 1
  BY <1>2, <1>3
<1>5. b = PoolLimit \div 5 /\ c = (PoolLimit * 30) \div 100
  <2>1. (PoolLimit * 20) \div 100 = PoolLimit \div 5 /\ PoolLimit \div 5 >= 1
    BY <1>1
  <2>2. (PoolLimit * 30) \div 100 >= 1
    BY <1>1
  <2>3. /\ b >= (PoolLimit * 20) \div 100 /\ (b = 1 \/ b = (PoolLimit * 20) \div 100)
        /\ c >= (PoolLimit * 30) \div 100 /\ (c = 1 \/ c = (PoolLimit * 30) \div 100)
    BY <1>2, <1>3
  <2>4. (PoolLimit * 30) \div 100 \in Nat
    BY <1>1
  <2>5. PICK d, e : d = PoolLimit \div 5 /\ e = (PoolLimit * 30) \div 100
    OBVIOUS
  <2>6. d \in Nat /\ e \in Nat /\ d >= 1 /\ e >= 1
    BY <1>1, <2>1, <2>2, <2>4, <2>5
  <2>7. b = d /\ c = e
    <3>1. b >= d /\ (b = 1 \/ b = d) /\ c >= e /\ (c = 1 \/ c = e)
      BY <2>1, <2>3, <2>5
    <3>2. QED
      BY <1>4, <2>6, <3>1
  <2>8. QED
    BY <2>5, <2>7
<1>6. a <= b
  <2>1. (PoolLimit * 15) \div 100 <= PoolLimit \div 5
    BY <1>1
  <2>2. QED
    BY <1>2, <1>3, <1>4, <1>5, <2>1
<1>7. c + 3 * b < PoolLimit
  BY <1>1, <1>5
<1>8. /\ FoundBefore(1) = 0 /\ FoundBefore(2) = c /\ FoundBefore(3) = c + b
      /\ FoundBefore(4) = c + 2 * b /\ FoundBefore(5) = c + 3 * b /\ FoundBefore(6) = c + 4 * b
  BY <1>3, <1>4 DEF FoundBefore
<1>9. \A k \in 1 .. 5 : k = 1 \/ k = 2 \/ k = 3 \/ k = 4 \/ k = 5
  OBVIOUS
<1>10. \A k \in 1 .. 5 : FoundBefore(k) \in Nat /\ FoundBefore(k) < PoolLimit
  BY <1>1, <1>4, <1>7, <1>8, <1>9
<1>11. \A k \in 2 .. 5 : b <= FoundBefore(k + 1) - FoundBefore(k)
  <2> SUFFICES ASSUME NEW k \in 2 .. 5
               PROVE  b <= FoundBefore(k + 1) - FoundBefore(k)
    OBVIOUS
  <2>1. k \in {2, 3, 4, 5} /\ 2 + 1 = 3 /\ 3 + 1 = 4 /\ 4 + 1 = 5 /\ 5 + 1 = 6
    OBVIOUS
  <2>2. QED
    BY <1>4, <1>8, <2>1
<1>12. \A k \in 2 .. 5 : FoundBefore(k) \in Nat /\ FoundBefore(k + 1) \in Nat
  <2> SUFFICES ASSUME NEW k \in 2 .. 5
               PROVE  FoundBefore(k) \in Nat /\ FoundBefore(k + 1) \in Nat
    OBVIOUS
  <2>1. k \in {2, 3, 4, 5} /\ 2 + 1 = 3 /\ 3 + 1 = 4 /\ 4 + 1 = 5 /\ 5 + 1 = 6
    OBVIOUS
  <2>2. QED
    BY <1>4, <1>8, <2>1
<1>13. \A k \in 2 .. 5 : \A w \in {15, 20} : Share(w) <= FoundBefore(k + 1) - FoundBefore(k)
  BY <1>3, <1>4, <1>6, <1>11, <1>12
<1>14. \A w \in {15, 20, 30} : Share(w) \in Nat \ {0}
  BY <1>2
<1>15. \A w \in {15, 20, 30} : Share(w) <= FoundBefore(2) - FoundBefore(1)
  <2>1. b <= c
    BY <1>1, <1>5
  <2>2. FoundBefore(2) - FoundBefore(1) = c
    BY <1>4, <1>8
  <2>3. QED
    BY <1>3, <1>4, <1>6, <2>1, <2>2
<1>16. QED
  BY <1>10, <1>13, <1>14, <1>15

\* The candidates a query finds are put behind those found before.
TakenWell(ids, more, C, n) ==
    /\ more \in Seq(Found) /\ IsInjective(more)
    /\ Len(more) \in Nat /\ Len(ids) <= Len(more) /\ Len(more) <= Len(ids) + n
    /\ ToSet(ids) \subseteq ToSet(more) /\ ToSet(more) \subseteq ToSet(ids) \cup C
    /\ n > 0 /\ C # {} => ToSet(more) \cap C # {}
    /\ Len(more) < Len(ids) + n => C \subseteq ToSet(more)
LEMMA Taken ==
    ASSUME NEW ids \in Seq(Found), IsInjective(ids), NEW C \in SUBSET Found, NEW n \in Nat
    PROVE  TakenWell(ids, ids \o FirstOnes(C \ ToSet(ids), n), C, n)
<1> DEFINE D == C \ ToSet(ids)
<1>1. PICK rows, more : rows = FirstOnes(D, n) /\ more = ids \o rows
  OBVIOUS
<1>2. D \in SUBSET Nat /\ IsFiniteSet(D) /\ D \in SUBSET Found
  BY CandidatePoolAssumption, FS_Subset
<1>3. FirstActs(rows, D, n)
  <2> HIDE DEF D
  <2>1. QED
    BY <1>1, <1>2, FirstOnesAre
<1>4. rows \in Seq(D) /\ rows \in Seq(Found) /\ Len(rows) <= n /\ Len(rows) \in Nat
      /\ DOMAIN rows = 1 .. Len(rows) /\ \A k \in 1 .. Len(rows) : rows[k] \in D
  <2> HIDE DEF D
  <2>1. rows \in Seq(D) /\ Len(rows) <= n
    BY <1>3 DEF FirstActs
  <2>2. /\ Len(rows) \in Nat /\ DOMAIN rows = 1 .. Len(rows)
        /\ \A k \in 1 .. Len(rows) : rows[k] \in D
    BY <2>1, LenProperties, ElementOfSeq
  <2>3. Seq(D) \subseteq Seq(Found)
    BY <1>2, SeqMonotonic
  <2>4. rows \in Seq(Found)
    BY <2>1, <2>3
  <2>5. QED
    BY <2>1, <2>2, <2>4
<1>5. /\ Joins(more, ids, rows) /\ more \in Seq(Found) /\ Len(more) = Len(ids) + Len(rows)
      /\ Len(ids) \in Nat /\ DOMAIN ids = 1 .. Len(ids) /\ DOMAIN more = 1 .. Len(more)
  BY <1>1, <1>4, JoinIs, ConcatProperties, LenProperties
<1>6. \A k \in DOMAIN ids : k \in DOMAIN more /\ more[k] = ids[k]
  BY <1>4, <1>5 DEF Joins
<1>7. \A k \in 1 .. Len(rows) : /\ Len(ids) + k \in DOMAIN more
                                /\ more[Len(ids) + k] = rows[k]
  BY <1>4, <1>5 DEF Joins
<1>8. \A k \in DOMAIN more : k \in DOMAIN ids \/ \E i \in 1 .. Len(rows) : k = Len(ids) + i
  BY <1>5 DEF Joins
<1>9. ToSet(ids) \subseteq ToSet(more)
  BY <1>6 DEF ToSet
<1>10. \A k \in 1 .. Len(rows) : rows[k] \in ToSet(more)
  BY <1>7 DEF ToSet
<1>11. ToSet(more) \subseteq ToSet(ids) \cup C
  <2> SUFFICES ASSUME NEW k \in DOMAIN more PROVE more[k] \in ToSet(ids) \cup C
    BY DEF ToSet
  <2>1. CASE k \in DOMAIN ids
    BY <1>6, <2>1 DEF ToSet
  <2>2. CASE \E i \in 1 .. Len(rows) : k = Len(ids) + i
    BY <1>4, <1>7, <2>2
  <2>3. QED
    BY <1>8, <2>1, <2>2
<1>12. IsInjective(more)
  <2> SUFFICES ASSUME NEW j \in DOMAIN more, NEW k \in DOMAIN more, more[j] = more[k]
               PROVE  j = k
    BY DEF IsInjective
  <2>1. \A l \in DOMAIN ids : more[l] \in ToSet(ids)
    BY <1>6 DEF ToSet
  <2>2. \A i \in 1 .. Len(rows) : more[Len(ids) + i] \notin ToSet(ids)
    BY <1>4, <1>7
  <2>3. CASE j \in DOMAIN ids /\ k \in DOMAIN ids
    BY <1>6, <2>3 DEF IsInjective
  <2>4. CASE j \in DOMAIN ids /\ \E i \in 1 .. Len(rows) : k = Len(ids) + i
    BY <2>1, <2>2, <2>4
  <2>5. CASE k \in DOMAIN ids /\ \E i \in 1 .. Len(rows) : j = Len(ids) + i
    BY <2>1, <2>2, <2>5
  <2>6. CASE /\ \E i \in 1 .. Len(rows) : j = Len(ids) + i
             /\ \E i \in 1 .. Len(rows) : k = Len(ids) + i
    <3>1. PICK i \in 1 .. Len(rows), l \in 1 .. Len(rows) : j = Len(ids) + i /\ k = Len(ids) + l
      BY <2>6
    <3>2. rows[i] = rows[l]
      BY <1>7, <3>1
    <3>3. i = l
      BY <1>3, <3>2 DEF FirstActs
    <3>4. QED
      BY <3>1, <3>3
  <2>7. QED
    BY <1>8, <2>3, <2>4, <2>5, <2>6
<1>13. ASSUME n > 0, C # {} PROVE ToSet(more) \cap C # {}
  <2>1. CASE D = {}
    <3>1. C \subseteq ToSet(ids)
      BY <2>1
    <3>2. QED
      BY <1>9, <1>13, <3>1
  <2>2. CASE D # {}
    <3>1. Len(rows) > 0
      BY <1>3, <1>13, <2>2 DEF FirstActs
    <3>2. 1 \in 1 .. Len(rows)
      BY <1>4, <3>1
    <3>3. QED
      BY <1>4, <1>10, <3>2
  <2>3. QED
    BY <2>1, <2>2
<1>14. ASSUME Len(more) < Len(ids) + n PROVE C \subseteq ToSet(more)
  <2>1. Len(rows) < n
    BY <1>4, <1>5, <1>14
  <2>2. \A x \in D : \E k \in 1 .. Len(rows) : rows[k] = x
    BY <1>3, <2>1 DEF FirstActs
  <2>3. D \subseteq ToSet(more)
    BY <1>10, <2>2
  <2>4. QED
    BY <1>9, <2>3
<1>15. Len(ids) <= Len(more) /\ Len(more) <= Len(ids) + n /\ Len(more) \in Nat
  BY <1>4, <1>5
<1> HIDE DEF D
<1>16. TakenWell(ids, more, C, n)
  BY <1>5, <1>9, <1>11, <1>12, <1>13, <1>14, <1>15 DEF TakenWell
<1>17. QED
  BY <1>1, <1>16 DEF D

\* A slice whose query has been answered is served.  What is found stays
\* within the shares, so a slice still to be asked can be served too.
Served(r, st, S, at) == r.step > at /\ st \cap S # {} => ToSet(r.ids) \cap S # {}
AllServed(r, st) ==
    /\ Chosen => Served(r, st, PersonalSet, 1) /\ Served(r, st, OpposedSet, SliceCount)
    /\ Served(r, st, Important, AtMajor)
    /\ Explores => Served(r, st, Found \ Familiar, AtMajor + 2)
WithinShares(r) ==
    /\ r.step \in 1 .. SliceCount + 2
    /\ r.step <= SliceCount + 1 => Len(r.ids) <= FoundBefore(r.step)
    /\ r.done => r.step = SliceCount + 2 \/ Len(r.ids) = PoolLimit
AllFound(r, st) ==
    r.step = SliceCount + 2 /\ Len(r.ids) < PoolLimit => st \subseteq ToSet(r.ids)
FoundSound(r) ==
    /\ IsInjective(r.ids) /\ Len(r.ids) <= PoolLimit /\ ToSet(r.ids) \subseteq ever
Reading == [step : Nat, ids : Seq(Found), connected : SUBSET Found, result : Seq(Found),
            done : BOOLEAN]
PoolTypes ==
    /\ member \in BOOLEAN /\ reader \in Reading
    /\ public \in SUBSET Found /\ met \in SUBSET Found /\ linked \in SUBSET FollowUp
    /\ changes \in 0 .. MaxChanges
    /\ steady \in SUBSET EligibleNow /\ EligibleNow \in SUBSET ever /\ ever \in SUBSET Found
PoolInv ==
    /\ PoolTypes /\ FoundSound(reader)
    /\ WithinShares(reader) /\ AllServed(reader, steady) /\ AllFound(reader, steady)

\* A read that has found nothing keeps every promise.
LEMMA PoolInvInit == ASSUME PoolInit PROVE PoolInv
<1>1. /\ member \in BOOLEAN /\ public \in SUBSET Found /\ met = {} /\ linked \in SUBSET FollowUp
      /\ reader = [step |-> 1, ids |-> <<>>, connected |-> {}, result |-> <<>>, done |-> FALSE]
      /\ changes = 0 /\ steady = EligibleNow /\ ever = EligibleNow
  BY DEF PoolInit
<1>2. EligibleNow \in SUBSET Found
  BY <1>1 DEF EligibleNow
<1>3. PoolTypes
  <2>1. <<>> \in Seq(Found) /\ {} \in SUBSET Found /\ 1 \in Nat
    OBVIOUS
  <2>2. reader \in Reading
    BY <1>1, <2>1 DEF Reading
  <2>3. changes \in 0 .. MaxChanges
    BY <1>1, CandidatePoolAssumption
  <2>4. QED
    BY <1>1, <1>2, <2>2, <2>3 DEF PoolTypes
<1>4. reader.ids = <<>> /\ reader.step = 1 /\ reader.done = FALSE
  BY <1>1
<1>5. SlicesStand
  BY <1>1, CandidatePoolAssumption, SlicesAre
<1>6. SliceCount \in 1 .. 5 /\ AtMajor \in 1 .. 2
  BY <1>5 DEF SlicesStand
<1>7. FoundSound(reader)
  <2>1. IsInjective(<<>>) /\ ToSet(<<>>) = {} /\ Len(<<>>) = 0
    BY DEF IsInjective, ToSet
  <2>2. QED
    BY <1>4, <2>1, CandidatePoolAssumption DEF FoundSound
<1>8. WithinShares(reader)
  <2>1. FoundBefore(1) = 0 /\ Len(<<>>) = 0
    BY DEF FoundBefore
  <2>2. QED
    BY <1>4, <1>6, <2>1 DEF WithinShares
<1>9. AllServed(reader, steady) /\ AllFound(reader, steady)
  BY <1>4, <1>6 DEF AllServed, Served, AllFound
<1>10. QED
  BY <1>3, <1>7, <1>8, <1>9 DEF PoolInv

\* Nothing in a query changes what the member has chosen.
ChosenStays ==
    /\ Chosen' = Chosen /\ Explores' = Explores /\ AtMajor' = AtMajor
    /\ SliceCount' = SliceCount /\ PersonalSet' = PersonalSet /\ OpposedSet' = OpposedSet
LEMMA ChosenKept == ASSUME member' = member PROVE ChosenStays
<1>1. Chosen' = Chosen /\ Explores' = Explores
  BY DEF Chosen, Explores
<1>2. AtMajor' = AtMajor
  BY <1>1 DEF AtMajor
<1>3. SliceCount' = SliceCount
  BY <1>1, <1>2 DEF SliceCount
<1>4. \A i : Personal(i)' = Personal(i)
  BY DEF Personal
<1>5. \A i : Opposed(i)' = Opposed(i)
  BY <1>4 DEF Opposed
<1>6. PersonalSet' = PersonalSet
  BY <1>4 DEF PersonalSet
<1>7. OpposedSet' = OpposedSet
  BY <1>5 DEF OpposedSet
<1>8. QED
  BY <1>1, <1>2, <1>3, <1>6, <1>7 DEF ChosenStays

\* So what is said of a reader is said of it later too.
SaidAlike(r, st) ==
    /\ WithinShares(r)' = WithinShares(r) /\ AllServed(r, st)' = AllServed(r, st)
    /\ AllFound(r, st)' = AllFound(r, st)
LEMMA SaidLater ==
    ASSUME member' = member, NEW r, NEW st
    PROVE  SaidAlike(r, st)
<1>1. ChosenStays
  BY ChosenKept
<1>2. WithinShares(r)' = WithinShares(r)
  BY <1>1 DEF ChosenStays, WithinShares
<1>3. AllServed(r, st)' = AllServed(r, st)
  BY <1>1 DEF ChosenStays, AllServed, Served
<1>4. AllFound(r, st)' = AllFound(r, st)
  BY <1>1 DEF ChosenStays, AllFound
<1>5. QED
  BY <1>2, <1>3, <1>4 DEF SaidAlike

\* It implies what is promised.
LEMMA PoolInvHolds == ASSUME PoolInv PROVE PoolSound
<1>1. PoolTypes /\ FoundSound(reader) /\ WithinShares(reader)
      /\ AllServed(reader, steady) /\ AllFound(reader, steady)
  BY DEF PoolInv
<1>2. /\ member \in BOOLEAN /\ reader.ids \in Seq(Found) /\ reader.result \in Seq(Found)
      /\ reader.connected \in SUBSET Found /\ reader.done \in BOOLEAN
  BY <1>1 DEF PoolTypes, Reading
<1>3. SlicesStand
  BY <1>1, CandidatePoolAssumption, SlicesAre DEF PoolTypes
<1>4. SliceCount \in 1 .. 5 /\ AtMajor \in 1 .. 2 /\ AtMajor <= SliceCount
      /\ (Explores => AtMajor + 2 <= SliceCount)
  BY <1>3 DEF SlicesStand
<1>5. PoolTypeOK
  <2>1. reader.step \in 1 .. 7
    BY <1>1, <1>4 DEF WithinShares
  <2>2. QED
    BY <1>1, <1>2, <2>1 DEF PoolTypes, PoolTypeOK
<1>6. FindsCandidates
  BY <1>1 DEF FoundSound, FindsCandidates
<1>7. Len(reader.ids) \in Nat /\ PoolLimit \in Nat /\ PoolLimit > 4
  BY <1>2, CandidatePoolAssumption, LenProperties
<1>8. reader.step \in 1 .. SliceCount + 2
  BY <1>1 DEF WithinShares
<1>9. ASSUME reader.done
      PROVE  reader.step > SliceCount /\ (reader.step = SliceCount + 2 \/ Len(reader.ids) = PoolLimit)
  <2>1. reader.step = SliceCount + 2 \/ Len(reader.ids) = PoolLimit
    BY <1>1, <1>9 DEF WithinShares
  <2>2. ASSUME ~(reader.step > SliceCount) PROVE FALSE
    <3>1. reader.step \in 1 .. 5 /\ reader.step <= SliceCount + 1
      BY <1>4, <1>8, <2>2
    <3>2. Len(reader.ids) <= FoundBefore(reader.step)
      BY <1>1, <3>1 DEF WithinShares
    <3>3. FoundBefore(reader.step) \in Nat /\ FoundBefore(reader.step) < PoolLimit
      BY <3>1, SharesFit
    <3>4. Len(reader.ids) = PoolLimit
      BY <1>4, <2>1, <2>2
    <3>5. QED
      BY <1>7, <3>2, <3>3, <3>4
  <2>3. QED
    BY <2>1, <2>2
<1>10. FindsAll
  <2> SUFFICES ASSUME reader.done, Len(reader.ids) < PoolLimit
               PROVE  steady \subseteq ToSet(reader.ids)
    BY DEF FindsAll
  <2>1. reader.step = SliceCount + 2
    BY <1>7, <1>9
  <2>2. QED
    BY <1>1, <2>1 DEF AllFound
<1>11. ServesEverySlice
  <2> SUFFICES ASSUME reader.done,
                      NEW S \in {PersonalSet, Important, OpposedSet,
                                 IF member THEN Found \ Familiar ELSE {}},
                      steady \cap S # {}
               PROVE  ToSet(reader.ids) \cap S # {}
    BY DEF ServesEverySlice, PersonalSet, OpposedSet
  <2>1. reader.step > SliceCount /\ reader.step > AtMajor /\ reader.step > 1
        /\ (Explores => reader.step > AtMajor + 2)
    BY <1>4, <1>8, <1>9
  <2>2. ASSUME ~Chosen PROVE PersonalSet = {} /\ OpposedSet = {}
    BY <2>2 DEF Chosen, PersonalSet, OpposedSet, Personal, Opposed
  <2>3. CASE S = PersonalSet
    <3>1. Chosen
      BY <2>2, <2>3
    <3>2. QED
      BY <1>1, <2>1, <2>3, <3>1 DEF AllServed, Served
  <2>4. CASE S = OpposedSet
    <3>1. Chosen
      BY <2>2, <2>4
    <3>2. QED
      BY <1>1, <2>1, <2>4, <3>1 DEF AllServed, Served
  <2>5. CASE S = Important
    BY <1>1, <2>1, <2>5 DEF AllServed, Served
  <2>6. CASE S = IF member THEN Found \ Familiar ELSE {}
    <3>1. member /\ S = Found \ Familiar
      BY <2>6
    <3>2. CASE Explores
      BY <1>1, <2>1, <3>1, <3>2 DEF AllServed, Served
    <3>3. CASE ~Explores
      <4>1. S = Found
        BY <3>1, <3>3 DEF Explores
      <4>2. ToSet(reader.ids) \subseteq Found
        BY <1>1 DEF FoundSound, PoolTypes
      <4>3. CASE Len(reader.ids) = PoolLimit
        <5>1. 1 \in DOMAIN reader.ids
          BY <1>2, <1>7, <4>3, LenProperties
        <5>2. reader.ids[1] \in ToSet(reader.ids)
          BY <5>1 DEF ToSet
        <5>3. QED
          BY <4>1, <4>2, <5>2
      <4>4. CASE Len(reader.ids) # PoolLimit
        <5>1. Len(reader.ids) < PoolLimit
          BY <1>1, <1>7, <4>4 DEF FoundSound
        <5>2. steady \subseteq ToSet(reader.ids)
          BY <1>10, <5>1 DEF FindsAll
        <5>3. QED
          BY <5>2
      <4>5. QED
        BY <4>3, <4>4
    <3>4. QED
      BY <3>2, <3>3
  <2>7. QED
    BY <2>3, <2>4, <2>5, <2>6
<1>12. QED
  BY <1>5, <1>6, <1>10, <1>11 DEF PoolSound

\* A query that has been answered: its slice is served from now on.
LEMMA ServedOn ==
    ASSUME NEW r \in Reading, NEW q \in Reading, q.step = r.step + 1,
           ToSet(r.ids) \subseteq ToSet(q.ids),
           NEW st, NEW S, NEW at \in Nat, Served(r, st, S, at),
           r.step = at => (st \cap S # {} => ToSet(q.ids) \cap S # {})
    PROVE  Served(q, st, S, at)
<1> SUFFICES ASSUME q.step > at, st \cap S # {}
             PROVE  ToSet(q.ids) \cap S # {}
  BY DEF Served
<1>1. r.step \in Nat
  BY DEF Reading
<1>2. CASE r.step = at
  BY <1>2
<1>3. CASE r.step > at
  BY <1>3 DEF Served
<1>4. QED
  BY <1>1, <1>2, <1>3

\* What a query finds.
LEMMA TakeRowsFinds ==
    ASSUME PoolTypes, FoundSound(reader), NEW S \in SUBSET Found, NEW n \in Nat,
           Len(reader.ids) + n <= PoolLimit, TakeRows(S, n)
    PROVE  /\ reader' \in Reading /\ reader'.step = reader.step + 1
           /\ reader'.done = reader.done
           /\ TakenWell(reader.ids, reader'.ids, EligibleNow \cap S, n)
           /\ FoundSound(reader')
<1> DEFINE C == EligibleNow \cap S
           rows == FirstOnes((EligibleNow \cap S) \ ToSet(reader.ids), n)
<1>1. /\ reader \in Reading /\ reader.ids \in Seq(Found) /\ IsInjective(reader.ids)
      /\ reader.connected \in SUBSET Found /\ reader.step \in Nat
      /\ linked \in SUBSET Found
  BY CandidatePoolAssumption DEF PoolTypes, Reading, FoundSound
<1>2. C \in SUBSET Found /\ C \in SUBSET ever /\ ToSet(reader.ids) \in SUBSET ever
  BY DEF PoolTypes, FoundSound
<1>3. TakenWell(reader.ids, reader.ids \o FirstOnes(C \ ToSet(reader.ids), n), C, n)
  <2> HIDE DEF C
  <2>1. QED
    BY <1>1, <1>2, Taken
<1>4. TakenWell(reader.ids, reader.ids \o rows, C, n)
  BY <1>3
<1>5. reader' = [reader EXCEPT !.step = @ + 1, !.ids = @ \o rows,
                               !.connected = @ \cup (ToSet(rows) \cap linked)]
  BY DEF TakeRows
<1> HIDE DEF C, rows
<1>6. PICK more, con : more = reader.ids \o rows
                       /\ con = reader.connected \cup (ToSet(rows) \cap linked)
  OBVIOUS
<1>7. /\ more \in Seq(Found) /\ IsInjective(more) /\ con \in SUBSET Found
      /\ Len(more) \in Nat /\ Len(more) <= Len(reader.ids) + n
      /\ ToSet(more) \subseteq ToSet(reader.ids) \cup C
  BY <1>1, <1>4, <1>6 DEF TakenWell
<1>8. /\ reader' \in Reading /\ reader'.step = reader.step + 1 /\ reader'.ids = more
      /\ reader'.done = reader.done
  <2>1. reader' = [reader EXCEPT !.step = reader.step + 1, !.ids = more, !.connected = con]
    BY <1>5, <1>6
  <2>2. reader.step + 1 \in Nat
    BY <1>1
  <2>3. QED
    BY <1>1, <1>7, <2>1, <2>2 DEF Reading
<1>9. Len(more) <= PoolLimit /\ ToSet(more) \subseteq ever
  <2>1. Len(reader.ids) \in Nat /\ PoolLimit \in Nat
    BY <1>1, CandidatePoolAssumption, LenProperties
  <2>2. Len(more) <= PoolLimit
    BY <1>7, <2>1
  <2>3. ToSet(more) \subseteq ever
    BY <1>2, <1>7
  <2>4. QED
    BY <2>2, <2>3
<1>10. FoundSound(reader')
  BY <1>7, <1>8, <1>9 DEF FoundSound
<1>11. TakenWell(reader.ids, reader'.ids, EligibleNow \cap S, n)
  BY <1>4, <1>6, <1>8 DEF C
<1>12. QED
  BY <1>8, <1>10, <1>11

\* What is left of the limit, and what a slice may take of it.
LEMMA LimitsFit ==
    ASSUME PoolTypes, FoundSound(reader)
    PROVE  /\ Len(reader.ids) \in Nat /\ Remaining \in Nat /\ PoolLimit \in Nat
           /\ Len(reader.ids) + Remaining = PoolLimit
           /\ \A w \in {15, 20, 30} :
                 /\ SliceLimit(w) \in Nat /\ SliceLimit(w) <= Remaining
                 /\ SliceLimit(w) <= Share(w)
                 /\ Remaining > 0 => SliceLimit(w) > 0
<1>1. PoolLimit \in Nat /\ Len(reader.ids) \in Nat /\ Len(reader.ids) <= PoolLimit
  BY CandidatePoolAssumption, LenProperties DEF PoolTypes, Reading, FoundSound
<1>2. Remaining \in Nat /\ Len(reader.ids) + Remaining = PoolLimit
  BY <1>1 DEF Remaining
<1>3. ASSUME NEW w \in {15, 20, 30}
      PROVE  /\ SliceLimit(w) \in Nat /\ SliceLimit(w) <= Remaining
             /\ SliceLimit(w) <= Share(w)
             /\ Remaining > 0 => SliceLimit(w) > 0
  <2>1. PICK a, b : a = Remaining /\ b = Share(w)
    OBVIOUS
  <2>2. a \in Nat /\ b \in Nat /\ b > 0
    <3>1. Share(w) \in Nat \ {0}
      BY SharesFit
    <3>2. QED
      BY <1>2, <2>1, <3>1
  <2>3. SliceLimit(w) = Min({a, b})
    BY <2>1 DEF SliceLimit, Share
  <2>4. Min({a, b}) \in {a, b}
    <3>1. {a, b} \in SUBSET Nat
      BY <2>2
    <3>2. QED
      BY <3>1, LeastIsIn
  <2>5. Min({a, b}) <= a /\ Min({a, b}) <= b
    <3>1. \E x \in {a, b} : \A y \in {a, b} : x <= y
      BY <2>2
    <3>2. QED
      BY <3>1 DEF Min
  <2>6. QED
    BY <2>1, <2>2, <2>3, <2>4, <2>5
<1>4. QED
  BY <1>1, <1>2, <1>3

\* The query of a slice keeps them, and serves its slice.
LEMMA QuerySliceKeeps == ASSUME PoolInv, QuerySlice PROVE PoolInv'
<1> DEFINE k == reader.step
           S == SliceSeq[k].of
           n == SliceLimit(SliceSeq[k].weight)
<1>1. PoolTypes /\ FoundSound(reader) /\ WithinShares(reader)
      /\ AllServed(reader, steady) /\ AllFound(reader, steady)
  BY DEF PoolInv
<1>2. SlicesStand
  BY <1>1, CandidatePoolAssumption, SlicesAre DEF PoolTypes
<1>3. /\ SliceCount \in 1 .. 5 /\ AtMajor \in 1 .. 2 /\ AtMajor <= SliceCount
      /\ Len(SliceSeq) = SliceCount /\ SliceSeq \in Seq(SliceRecord)
  BY <1>2 DEF SlicesStand
<1>4. /\ k \in 1 .. SliceCount /\ Remaining > 0 /\ TakeRows(S, n)
      /\ UNCHANGED <<member, public, met, linked, changes, steady, ever>>
  BY <1>1, <1>3 DEF QuerySlice, WithinShares
<1>5. reader \in Reading /\ k \in 1 .. 5 /\ k \in Nat
  BY <1>1, <1>3, <1>4 DEF PoolTypes
<1>6. SliceSeq[k] \in SliceRecord
  BY <1>3, <1>4, ElementOfSeq
<1>7. S \in SUBSET Found /\ SliceSeq[k].weight \in {15, 20, 30}
  BY <1>6 DEF SliceRecord
<1>8. /\ n \in Nat /\ n > 0 /\ n <= Remaining /\ n <= Share(SliceSeq[k].weight)
      /\ Len(reader.ids) \in Nat /\ Len(reader.ids) + Remaining = PoolLimit
      /\ Remaining \in Nat /\ PoolLimit \in Nat
  BY <1>1, <1>4, <1>7, LimitsFit
<1> HIDE DEF k, S, n
<1>9. Len(reader.ids) + n <= PoolLimit
  BY <1>8
<1>10. /\ reader' \in Reading /\ reader'.step = reader.step + 1
       /\ reader'.done = reader.done
       /\ TakenWell(reader.ids, reader'.ids, EligibleNow \cap S, n)
       /\ FoundSound(reader')
  BY <1>1, <1>4, <1>7, <1>8, <1>9, TakeRowsFinds
<1>11. /\ ToSet(reader.ids) \subseteq ToSet(reader'.ids)
       /\ EligibleNow \cap S # {} => ToSet(reader'.ids) \cap (EligibleNow \cap S) # {}
       /\ Len(reader'.ids) \in Nat /\ Len(reader'.ids) <= Len(reader.ids) + n
  BY <1>8, <1>10 DEF TakenWell
<1>12. steady \cap S # {} => ToSet(reader'.ids) \cap S # {}
  BY <1>1, <1>11 DEF PoolTypes
<1>13. k = reader.step
  BY DEF k
<1>14. WithinShares(reader')
  <2>1. reader'.step \in 1 .. SliceCount + 2
    BY <1>3, <1>4, <1>10, <1>13
  <2>2. Len(reader.ids) <= FoundBefore(k)
    BY <1>1, <1>3, <1>4, <1>13 DEF WithinShares
  <2>3. FoundBefore(k) \in Nat /\ Share(SliceSeq[k].weight) \in Nat
    BY <1>5, <1>7, SharesFit
  <2>4. /\ FoundBefore(k + 1) \in Int
        /\ Share(SliceSeq[k].weight) <= FoundBefore(k + 1) - FoundBefore(k)
    <3>1. CASE k = 1
      <4>1. Share(SliceSeq[k].weight) <= FoundBefore(2) - FoundBefore(1)
        BY <1>7, SharesFit
      <4>2. FoundBefore(1) = 0 /\ FoundBefore(2) = Share(30) /\ Share(30) \in Nat
        BY SharesFit DEF FoundBefore
      <4>3. QED
        BY <2>3, <3>1, <4>1, <4>2
    <3>2. CASE k > 1
      <4>1. k \in 2 .. 5 /\ SliceSeq[k].weight \in {15, 20}
        BY <1>2, <1>4, <1>5, <3>2 DEF SlicesStand
      <4>2. FoundBefore(k + 1) \in Int
        BY <1>5, SharesFit DEF FoundBefore
      <4>3. QED
        BY <4>1, <4>2, SharesFit
    <3>3. QED
      BY <1>5, <3>1, <3>2
  <2>5. Len(reader'.ids) <= FoundBefore(reader'.step)
    BY <1>8, <1>10, <1>11, <1>13, <2>2, <2>3, <2>4
  <2>6. ~reader.done
    <3>1. reader.step # SliceCount + 2 /\ Len(reader.ids) # PoolLimit
      BY <1>3, <1>4, <1>8, <1>13
    <3>2. QED
      BY <1>1, <3>1 DEF WithinShares
  <2>7. QED
    BY <1>10, <2>1, <2>5, <2>6 DEF WithinShares
<1>15. ASSUME NEW T, NEW at \in Nat, Served(reader, steady, T, at), k = at => S = T
       PROVE  Served(reader', steady, T, at)
  <2>1. reader.step = at => (steady \cap T # {} => ToSet(reader'.ids) \cap T # {})
    BY <1>12, <1>13, <1>15
  <2>2. QED
    BY <1>5, <1>10, <1>11, <1>15, <2>1, ServedOn
<1>16. AllServed(reader', steady)
  <2>1. ASSUME Chosen
        PROVE  Served(reader', steady, PersonalSet, 1)
               /\ Served(reader', steady, OpposedSet, SliceCount)
    <3>1. Served(reader, steady, PersonalSet, 1) /\ Served(reader, steady, OpposedSet, SliceCount)
      BY <1>1, <2>1 DEF AllServed
    <3>2. (k = 1 => S = PersonalSet) /\ (k = SliceCount => S = OpposedSet)
      BY <1>2, <2>1 DEF SlicesStand, S
    <3>3. QED
      BY <1>3, <1>15, <3>1, <3>2
  <2>2. Served(reader', steady, Important, AtMajor)
    <3>1. Served(reader, steady, Important, AtMajor) /\ (k = AtMajor => S = Important)
      BY <1>1, <1>2 DEF AllServed, SlicesStand, S
    <3>2. QED
      BY <1>3, <1>15, <3>1
  <2>3. ASSUME Explores
        PROVE  Served(reader', steady, Found \ Familiar, AtMajor + 2)
    <3>1. /\ Served(reader, steady, Found \ Familiar, AtMajor + 2)
          /\ k = AtMajor + 2 => S = Found \ Familiar
      BY <1>1, <1>2, <2>3 DEF AllServed, SlicesStand, S
    <3>2. AtMajor + 2 \in Nat
      BY <1>3
    <3>3. QED
      BY <1>15, <3>1, <3>2
  <2>4. QED
    BY <2>1, <2>2, <2>3 DEF AllServed
<1>17. AllFound(reader', steady)
  <2>1. reader'.step # SliceCount + 2
    BY <1>3, <1>4, <1>10, <1>13
  <2>2. QED
    BY <2>1 DEF AllFound
<1>18. PoolTypes'
  BY <1>1, <1>4, <1>10 DEF PoolTypes, EligibleNow
<1>19. FoundSound(reader)'
  BY <1>4, <1>10 DEF FoundSound
<1>20. WithinShares(reader)' /\ AllServed(reader, steady)' /\ AllFound(reader, steady)'
  BY <1>4, <1>14, <1>16, <1>17, SaidLater DEF SaidAlike
<1>21. QED
  BY <1>18, <1>19, <1>20 DEF PoolInv

\* The query of the rest keeps them, and leaves no candidate out below the limit.
LEMMA QueryRestKeeps == ASSUME PoolInv, QueryRest PROVE PoolInv'
<1>1. PoolTypes /\ FoundSound(reader) /\ WithinShares(reader)
      /\ AllServed(reader, steady) /\ AllFound(reader, steady)
  BY DEF PoolInv
<1>2. SlicesStand
  BY <1>1, CandidatePoolAssumption, SlicesAre DEF PoolTypes
<1>3. /\ SliceCount \in 1 .. 5 /\ AtMajor \in 1 .. 2 /\ AtMajor <= SliceCount
      /\ Len(SliceSeq) = SliceCount /\ (Explores => AtMajor + 2 <= SliceCount)
  BY <1>2 DEF SlicesStand
<1>4. /\ reader.step = SliceCount + 1 /\ Remaining > 0 /\ TakeRows(Found, Remaining)
      /\ UNCHANGED <<member, public, met, linked, changes, steady, ever>>
  BY <1>3 DEF QueryRest
<1>5. reader \in Reading
  BY <1>1 DEF PoolTypes
<1>6. /\ Len(reader.ids) \in Nat /\ Len(reader.ids) + Remaining = PoolLimit
      /\ Remaining \in Nat /\ PoolLimit \in Nat
  BY <1>1, LimitsFit
<1>7. Len(reader.ids) + Remaining <= PoolLimit
  BY <1>6
<1>8. /\ reader' \in Reading /\ reader'.step = reader.step + 1
      /\ reader'.done = reader.done
      /\ TakenWell(reader.ids, reader'.ids, EligibleNow \cap Found, Remaining)
      /\ FoundSound(reader')
  BY <1>1, <1>4, <1>6, <1>7, TakeRowsFinds
<1>9. EligibleNow \cap Found = EligibleNow /\ steady \subseteq EligibleNow
  BY <1>1 DEF PoolTypes
<1>10. /\ ToSet(reader.ids) \subseteq ToSet(reader'.ids)
       /\ Len(reader'.ids) \in Nat
       /\ Len(reader'.ids) < Len(reader.ids) + Remaining => EligibleNow \subseteq ToSet(reader'.ids)
  BY <1>8, <1>9 DEF TakenWell
<1>11. reader'.step = SliceCount + 2
  BY <1>3, <1>4, <1>8
<1>12. WithinShares(reader')
  BY <1>3, <1>11 DEF WithinShares
<1>13. AllFound(reader', steady)
  BY <1>6, <1>9, <1>10 DEF AllFound
<1>14. ASSUME NEW T, NEW at \in Nat, Served(reader, steady, T, at), at <= SliceCount
       PROVE  Served(reader', steady, T, at)
  <2>1. reader.step # at
    BY <1>3, <1>4, <1>14
  <2>2. QED
    BY <1>5, <1>8, <1>10, <1>14, <2>1, ServedOn
<1>15. AllServed(reader', steady)
  <2>1. ASSUME Chosen
        PROVE  Served(reader', steady, PersonalSet, 1)
               /\ Served(reader', steady, OpposedSet, SliceCount)
    <3>1. Served(reader, steady, PersonalSet, 1) /\ Served(reader, steady, OpposedSet, SliceCount)
      BY <1>1, <2>1 DEF AllServed
    <3>2. QED
      BY <1>3, <1>14, <3>1
  <2>2. Served(reader', steady, Important, AtMajor)
    <3>1. Served(reader, steady, Important, AtMajor)
      BY <1>1 DEF AllServed
    <3>2. QED
      BY <1>3, <1>14, <3>1
  <2>3. ASSUME Explores
        PROVE  Served(reader', steady, Found \ Familiar, AtMajor + 2)
    <3>1. Served(reader, steady, Found \ Familiar, AtMajor + 2)
      BY <1>1, <2>3 DEF AllServed
    <3>2. AtMajor + 2 \in Nat /\ AtMajor + 2 <= SliceCount
      BY <1>3, <2>3
    <3>3. QED
      BY <1>14, <3>1, <3>2
  <2>4. QED
    BY <2>1, <2>2, <2>3 DEF AllServed
<1>16. PoolTypes'
  BY <1>1, <1>4, <1>8 DEF PoolTypes, EligibleNow
<1>17. FoundSound(reader)'
  BY <1>4, <1>8 DEF FoundSound
<1>18. WithinShares(reader)' /\ AllServed(reader, steady)' /\ AllFound(reader, steady)'
  BY <1>4, <1>12, <1>13, <1>15, SaidLater DEF SaidAlike
<1>19. QED
  BY <1>16, <1>17, <1>18 DEF PoolInv

\* The rows are read: what was found is left as it is.
LEMMA LoadRowsKeeps == ASSUME PoolInv, LoadRows PROVE PoolInv'
<1> DEFINE S == {k \in DOMAIN reader.ids : reader.ids[k] \in public}
           left == FirstOnes(S, Len(reader.ids))
           rows == [k \in DOMAIN left |-> reader.ids[left[k]]]
<1>1. PoolTypes /\ FoundSound(reader) /\ WithinShares(reader)
      /\ AllServed(reader, steady) /\ AllFound(reader, steady)
  BY DEF PoolInv
<1>2. SlicesStand
  BY <1>1, CandidatePoolAssumption, SlicesAre DEF PoolTypes
<1>3. SliceCount \in 1 .. 5 /\ Len(SliceSeq) = SliceCount
  BY <1>2 DEF SlicesStand
<1>4. /\ reader.step > SliceCount + 1 \/ Remaining = 0
      /\ reader' = [reader EXCEPT !.done = TRUE, !.result = rows]
      /\ UNCHANGED <<member, public, met, linked, changes, steady, ever>>
  BY <1>3 DEF LoadRows
<1>5. reader \in Reading /\ reader.ids \in Seq(Found) /\ reader.step \in 1 .. SliceCount + 2
  BY <1>1 DEF PoolTypes, Reading, WithinShares
<1>6. /\ Len(reader.ids) \in Nat /\ Len(reader.ids) + Remaining = PoolLimit
      /\ Remaining \in Nat /\ PoolLimit \in Nat
      /\ DOMAIN reader.ids = 1 .. Len(reader.ids)
  BY <1>1, <1>5, LimitsFit, LenProperties
<1>7. rows \in Seq(Found)
  <2>1. S \in SUBSET Nat /\ IsFiniteSet(S)
    <3>1. S \in SUBSET (1 .. Len(reader.ids))
      BY <1>6
    <3>2. IsFiniteSet(1 .. Len(reader.ids))
      BY <1>6, FS_Interval
    <3>3. QED
      BY <1>6, <3>1, <3>2, FS_Subset
  <2>2. \A k \in S : reader.ids[k] \in Found
    BY <1>5, <1>6, ElementOfSeq
  <2> HIDE DEF S
  <2>3. FirstActs(left, S, Len(reader.ids))
    BY <1>6, <2>1, FirstOnesAre
  <2> HIDE DEF left
  <2>4. left \in Seq(S)
    BY <2>3 DEF FirstActs
  <2>5. Len(left) \in Nat /\ DOMAIN left = 1 .. Len(left) /\ \A k \in 1 .. Len(left) : left[k] \in S
    BY <2>4, LenProperties, ElementOfSeq
  <2>6. rows = [k \in 1 .. Len(left) |-> reader.ids[left[k]]]
    BY <2>5
  <2>7. \A k \in 1 .. Len(left) : reader.ids[left[k]] \in Found
    BY <2>2, <2>5
  <2> HIDE DEF rows
  <2>8. QED
    BY <2>5, <2>6, <2>7, IsASeq
<1> HIDE DEF rows
<1>8. /\ reader' \in Reading /\ reader'.step = reader.step /\ reader'.ids = reader.ids
      /\ reader'.done = TRUE
  BY <1>4, <1>5, <1>7 DEF Reading
<1>9. reader.step = SliceCount + 2 \/ Len(reader.ids) = PoolLimit
  BY <1>3, <1>4, <1>5, <1>6
<1>10. WithinShares(reader')
  BY <1>1, <1>8, <1>9 DEF WithinShares
<1>11. AllServed(reader', steady) /\ AllFound(reader', steady) /\ FoundSound(reader')
  BY <1>1, <1>8 DEF AllServed, Served, AllFound, FoundSound
<1>12. PoolTypes'
  BY <1>1, <1>4, <1>8 DEF PoolTypes, EligibleNow
<1>13. FoundSound(reader)'
  BY <1>4, <1>11 DEF FoundSound
<1>14. WithinShares(reader)' /\ AllServed(reader, steady)' /\ AllFound(reader, steady)'
  BY <1>4, <1>10, <1>11, SaidLater DEF SaidAlike
<1>15. QED
  BY <1>12, <1>13, <1>14 DEF PoolInv

\* What happens meanwhile takes from what lasts, and adds to what ever was.
LEMMA MeanwhileKeeps ==
    ASSUME PoolInv, Meanwhile, public' \in SUBSET Found, met' \in SUBSET Found,
           linked' \in SUBSET FollowUp
    PROVE  PoolInv'
<1>1. PoolTypes /\ FoundSound(reader) /\ WithinShares(reader)
      /\ AllServed(reader, steady) /\ AllFound(reader, steady)
  BY DEF PoolInv
<1>2. /\ changes < MaxChanges /\ changes' = changes + 1
      /\ steady' = steady \cap (public' \ met')
      /\ ever' = ever \cup ((public' \ met') \ Excluded)
      /\ member' = member /\ reader' = reader
  BY DEF Meanwhile
<1>3. PoolTypes'
  <2>1. changes' \in 0 .. MaxChanges
    BY <1>1, <1>2, CandidatePoolAssumption DEF PoolTypes
  <2>2. steady' \subseteq EligibleNow' /\ EligibleNow' \subseteq ever'
    BY <1>1, <1>2 DEF PoolTypes, EligibleNow
  <2>3. ever' \subseteq Found
    BY <1>1, <1>2 DEF PoolTypes
  <2>4. QED
    BY <1>1, <1>2, <2>1, <2>2, <2>3 DEF PoolTypes
<1>4. steady' \subseteq steady /\ ever \subseteq ever'
  BY <1>2
<1>5. FoundSound(reader)'
  BY <1>1, <1>2, <1>4 DEF FoundSound
<1>6. AllServed(reader, steady') /\ AllFound(reader, steady')
  BY <1>1, <1>4 DEF AllServed, Served, AllFound
<1>7. WithinShares(reader)' /\ AllServed(reader, steady)' /\ AllFound(reader, steady)'
  BY <1>1, <1>2, <1>6, SaidLater DEF SaidAlike
<1>8. QED
  BY <1>3, <1>5, <1>7 DEF PoolInv

\* Every step keeps them.
LEMMA PoolStep == PoolInv /\ [PoolNext]_poolVars => PoolInv'
<1> SUFFICES ASSUME PoolInv, [PoolNext]_poolVars PROVE PoolInv'
  OBVIOUS
<1>1. /\ public \in SUBSET Found /\ met \in SUBSET Found /\ linked \in SUBSET FollowUp
  BY DEF PoolInv, PoolTypes
<1>2. CASE QuerySlice
  BY <1>2, QuerySliceKeeps
<1>3. CASE QueryRest
  BY <1>3, QueryRestKeeps
<1>4. CASE LoadRows
  BY <1>4, LoadRowsKeeps
<1>5. CASE \E i \in Found : IssuePublished(i) \/ IssueWithdrawn(i) \/ MemberMeets(i)
  <2>1. /\ Meanwhile /\ public' \in SUBSET Found /\ met' \in SUBSET Found
        /\ linked' \in SUBSET FollowUp
    BY <1>1, <1>5 DEF IssuePublished, IssueWithdrawn, MemberMeets
  <2>2. QED
    BY <2>1, MeanwhileKeeps
<1>6. CASE LikeChanges
  <2>1. /\ Meanwhile /\ public' \in SUBSET Found /\ met' \in SUBSET Found
        /\ linked' \in SUBSET FollowUp
    BY <1>1, <1>6 DEF LikeChanges
  <2>2. QED
    BY <2>1, MeanwhileKeeps
<1>7. CASE UNCHANGED poolVars
  <2>1. /\ member' = member /\ public' = public /\ met' = met /\ linked' = linked
        /\ reader' = reader /\ changes' = changes /\ steady' = steady /\ ever' = ever
    BY <1>7 DEF poolVars
  <2>2. PoolTypes'
    BY <2>1 DEF PoolInv, PoolTypes, EligibleNow
  <2>3. FoundSound(reader)'
    BY <2>1 DEF PoolInv, FoundSound
  <2>4. WithinShares(reader)' /\ AllServed(reader, steady)' /\ AllFound(reader, steady)'
    BY <2>1, SaidLater DEF PoolInv, SaidAlike
  <2>5. QED
    BY <2>2, <2>3, <2>4 DEF PoolInv
<1>8. QED
  BY <1>2, <1>3, <1>4, <1>5, <1>6, <1>7 DEF PoolNext

\* However issues come and go during a read: what it finds it finds once and
\* was a candidate, a pool below the limit holds every lasting candidate, and
\* no slice is crowded out (findCandidateIssueIds).
THEOREM PoolSoundCorrect == PoolSpec => []PoolSound
<1>1. PoolInit => PoolInv
  BY PoolInvInit
<1>2. PoolInv /\ [PoolNext]_poolVars => PoolInv'
  BY PoolStep
<1>3. PoolInv => PoolSound
  BY PoolInvHolds
<1>4. QED
  BY <1>1, <1>2, <1>3, PTL DEF PoolSpec

-----------------------------------------------------------------------------
(* What a report says: similar issues.                                     *)

IssuesIn(P) == {p[2] : p \in P}
CloserIn(P) == {e \in IssuesIn(P) \X IssuesIn(P) : Closer(e[1], e[2], P)}
LikenessType == likeness \in [Sources \X Further -> Nat]

\* What pairs of a source and a further issue are made of.
LEMMA PairsAre ==
    ASSUME NEW P \in SUBSET (Sources \X Further)
    PROVE  /\ IsFiniteSet(P) /\ IsFiniteSet(IssuesIn(P))
           /\ IssuesIn(P) \in SUBSET Further /\ IssuesIn(P) \in SUBSET Nat
           /\ \A p \in P : p[1] \in Sources /\ p[2] \in IssuesIn(P) /\ p = <<p[1], p[2]>>
<1>1. IsFiniteSet(Sources \X Further)
  BY ReportContentAssumption, FS_Product
<1>2. IsFiniteSet(P)
  BY <1>1, FS_Subset
<1>3. \A p \in P : p[1] \in Sources /\ p[2] \in Further /\ p = <<p[1], p[2]>>
  OBVIOUS
<1>4. IssuesIn(P) \in SUBSET Further
  BY <1>3 DEF IssuesIn
<1>5. IsFiniteSet(IssuesIn(P)) /\ IssuesIn(P) \in SUBSET Nat
  BY <1>4, FS_Subset, ReportContentAssumption
<1>6. QED
  BY <1>2, <1>3, <1>4, <1>5 DEF IssuesIn

\* The nearness of an issue is the greatest similarity of its pairs.
LEMMA NearnessIs ==
    ASSUME LikenessType, NEW P \in SUBSET (Sources \X Further), NEW c \in IssuesIn(P)
    PROVE  /\ Nearness(c, P) \in Nat
           /\ \E p \in P : p[2] = c /\ likeness[p] = Nearness(c, P)
           /\ \A p \in P : p[2] = c => likeness[p] <= Nearness(c, P)
<1> DEFINE Q == {q \in P : q[2] = c}
           N == {likeness[p] : p \in Q}
<1>1. IsFiniteSet(Q)
  BY PairsAre, FS_Subset
<1>2. N \in SUBSET Nat
  BY DEF LikenessType
<1>3. N # {}
  BY DEF IssuesIn
<1>4. IsFiniteSet(N)
  BY <1>1, ImageOf
<1>5. Max(N) \in N /\ \A y \in N : y <= Max(N)
  BY <1>2, <1>3, <1>4, GreatestOfFinite
<1>6. Nearness(c, P) = Max(N)
  BY DEF Nearness
<1> HIDE DEF Q
<1>7. PICK p \in Q : likeness[p] = Nearness(c, P)
  BY <1>5, <1>6
<1>8. \A q \in Q : likeness[q] <= Nearness(c, P)
  BY <1>5, <1>6
<1>9. QED
  BY <1>2, <1>5, <1>6, <1>7, <1>8 DEF Q

\* The source that an issue is shown for is one it was compared with.
LEMMA NearestSourceIs ==
    ASSUME LikenessType, NEW P \in SUBSET (Sources \X Further), NEW c \in IssuesIn(P)
    PROVE  \E p \in P : NearestSource(c, P) = p[1]
<1> DEFINE Q == {q \in P : q[2] = c /\ likeness[q] = Nearness(c, P)}
           N == {p[1] : p \in Q}
<1>1. Q # {}
  BY NearnessIs
<1>2. N # {}
  BY <1>1
<1>3. N \in SUBSET Sources
  BY PairsAre
<1>4. N \in SUBSET Nat /\ IsFiniteSet(N)
  BY <1>3, FS_Subset, ReportContentAssumption
<1>5. Max(N) \in N
  BY <1>2, <1>4, GreatestOfFinite
<1>6. NearestSource(c, P) = Max(N)
  BY DEF NearestSource
<1>7. QED
  BY <1>5, <1>6

\* Nearness orders the issues of the pairs.
LEMMA CloserOrders ==
    ASSUME LikenessType, NEW P \in SUBSET (Sources \X Further)
    PROVE  /\ Orders(CloserIn(P), IssuesIn(P))
           /\ \A c \in IssuesIn(P) :
                Below(CloserIn(P), IssuesIn(P), c) = {d \in IssuesIn(P) : Closer(d, c, P)}
<1> DEFINE S == IssuesIn(P)
           R == CloserIn(P)
<1>1. \A c, d \in S : <<c, d>> \in R <=> Closer(c, d, P)
  BY DEF CloserIn
<1>2. \A c \in S : Nearness(c, P) \in Nat /\ c \in Nat
  BY NearnessIs, PairsAre
<1> HIDE DEF S, R
<1>3. \A c \in S : <<c, c>> \notin R
  BY <1>1, <1>2 DEF Closer
<1>4. \A c, d, e \in S : <<c, d>> \in R /\ <<d, e>> \in R => <<c, e>> \in R
  <2> SUFFICES ASSUME NEW c \in S, NEW d \in S, NEW e \in S, Closer(c, d, P), Closer(d, e, P)
               PROVE  Closer(c, e, P)
    BY <1>1
  <2>1. /\ Nearness(c, P) \in Nat /\ Nearness(d, P) \in Nat /\ Nearness(e, P) \in Nat
        /\ c \in Nat /\ d \in Nat /\ e \in Nat
    BY <1>2
  <2>2. QED
    BY <2>1 DEF Closer
<1>5. \A c, d \in S : c # d => <<c, d>> \in R \/ <<d, c>> \in R
  <2> SUFFICES ASSUME NEW c \in S, NEW d \in S, c # d
               PROVE  Closer(c, d, P) \/ Closer(d, c, P)
    BY <1>1
  <2>1. Nearness(c, P) \in Nat /\ Nearness(d, P) \in Nat /\ c \in Nat /\ d \in Nat
    BY <1>2
  <2>2. QED
    BY <2>1 DEF Closer
<1>6. Orders(R, S)
  BY <1>3, <1>4, <1>5 DEF Orders
<1>7. \A c \in S : Below(R, S, c) = {d \in S : Closer(d, c, P)}
  BY <1>1 DEF Below
<1>8. QED
  BY <1>6, <1>7 DEF S, R

\* Nearest gives the first issues in this order.
LEMMA NearestIs ==
    ASSUME LikenessType, NEW P \in SUBSET (Sources \X Further), NEW n \in Nat
    PROVE  IsFirst(Nearest(P, n), IssuesIn(P), n, CloserIn(P))
<1> DEFINE S == IssuesIn(P)
           R == CloserIn(P)
           m == Min({n, Cardinality(S)})
           f == Nearest(P, n)
           choice(k) == CHOOSE c \in S : Cardinality({d \in S : Closer(d, c, P)}) = k - 1
<1>1. /\ IsFiniteSet(S) /\ Orders(R, S)
      /\ \A c \in S : Below(R, S, c) = {d \in S : Closer(d, c, P)}
  BY PairsAre, CloserOrders
<1>2. f = [k \in 1 .. m |-> choice(k)]
  BY DEF Nearest, First, IssuesIn
<1> HIDE DEF S, R, f
<1>3. ASSUME NEW k \in 1 .. m
      PROVE  f[k] \in S /\ Cardinality(Below(R, S, f[k])) = k - 1
  <2>1. \E c \in S : Cardinality(Below(R, S, c)) = k - 1
    BY <1>1, PlaceIsTaken
  <2>2. \E c \in S : Cardinality({d \in S : Closer(d, c, P)}) = k - 1
    BY <1>1, <2>1
  <2>3. choice(k) \in S /\ Cardinality({d \in S : Closer(d, choice(k), P)}) = k - 1
    BY <2>2
  <2> HIDE DEF choice
  <2>4. f[k] = choice(k)
    BY <1>2
  <2>5. QED
    BY <1>1, <2>3, <2>4
<1>4. f = [k \in 1 .. m |-> f[k]]
  <2> HIDE DEF m, choice
  <2>1. QED
    BY <1>2
<1>5. QED
  BY <1>3, <1>4 DEF IsFirst, S, R, f

\* Fewer pairs give the same first issues, if for each of these the pair that
\* makes it near is among them.
LEMMA BestOf ==
    ASSUME LikenessType, NEW P \in SUBSET (Sources \X Further), NEW Q \in SUBSET P,
           NEW n \in Nat,
           \A c \in IssuesIn(P) : Cardinality(Below(CloserIn(P), IssuesIn(P), c)) < n =>
               \E p \in Q : p[2] = c /\ likeness[p] = Nearness(c, P)
    PROVE  Nearest(Q, n) = Nearest(P, n)
<1> DEFINE S == IssuesIn(P)
           T == IssuesIn(Q)
           R == CloserIn(P)
           U == CloserIn(Q)
           rank(c) == Cardinality(Below(R, S, c))
<1>0. Q \in SUBSET (Sources \X Further)
  OBVIOUS
<1>1. /\ IsFiniteSet(S) /\ Orders(R, S) /\ Orders(U, T)
      /\ \A c \in S : Below(R, S, c) = {d \in S : Closer(d, c, P)}
      /\ \A c \in T : Below(U, T, c) = {d \in T : Closer(d, c, Q)}
  BY <1>0, PairsAre, CloserOrders
<1>2. T \in SUBSET S
  BY DEF IssuesIn
<1>3. \A c \in S : Nearness(c, P) \in Nat /\ c \in Nat
  BY NearnessIs, PairsAre
<1>4. \A c \in T : Nearness(c, Q) \in Nat /\ Nearness(c, Q) <= Nearness(c, P)
  <2> SUFFICES ASSUME NEW c \in T
               PROVE  Nearness(c, Q) \in Nat /\ Nearness(c, Q) <= Nearness(c, P)
    OBVIOUS
  <2>1. PICK p \in Q : p[2] = c /\ likeness[p] = Nearness(c, Q)
    BY <1>0, NearnessIs
  <2>2. p \in P /\ c \in IssuesIn(P)
    BY <1>2
  <2>3. likeness[p] <= Nearness(c, P)
    BY <2>1, <2>2, NearnessIs
  <2>4. Nearness(c, Q) \in Nat
    BY <1>0, NearnessIs
  <2>5. QED
    BY <2>1, <2>3, <2>4
<1>5. ASSUME NEW c \in S, rank(c) < n
      PROVE  c \in T /\ Nearness(c, Q) = Nearness(c, P)
  <2>1. PICK p \in Q : p[2] = c /\ likeness[p] = Nearness(c, P)
    BY <1>5
  <2>2. c \in T
    BY <2>1 DEF IssuesIn
  <2>3. likeness[p] <= Nearness(c, Q)
    BY <1>0, <2>1, <2>2, NearnessIs
  <2>4. QED
    BY <1>3, <1>4, <2>1, <2>2, <2>3
<1>6. /\ \A c \in S : rank(c) \in Nat
      /\ \A c, d \in S : <<d, c>> \in R => rank(d) < rank(c)
  BY <1>1, RankIsOrder
<1>7. \A c, d \in S : <<d, c>> \in R <=> Closer(d, c, P)
  BY DEF CloserIn
<1> HIDE DEF S, T, R, U, rank
<1>8. ASSUME NEW c \in S, rank(c) < n
      PROVE  c \in T /\ Below(U, T, c) = Below(R, S, c)
  <2>1. c \in T /\ Nearness(c, Q) = Nearness(c, P)
    BY <1>5, <1>8
  <2>2. ASSUME NEW d \in T, Closer(d, c, Q) PROVE d \in S /\ Closer(d, c, P)
    <3>1. /\ d \in S /\ Nearness(d, Q) \in Nat /\ Nearness(d, P) \in Nat
          /\ Nearness(d, Q) <= Nearness(d, P) /\ Nearness(c, P) \in Nat
          /\ c \in Nat /\ d \in Nat
      BY <1>2, <1>3, <1>4
    <3>2. QED
      BY <2>1, <2>2, <3>1 DEF Closer
  <2>3. ASSUME NEW d \in S, Closer(d, c, P) PROVE d \in T /\ Closer(d, c, Q)
    <3>1. rank(d) < n
      <4>1. <<d, c>> \in R
        BY <1>7, <2>3
      <4>2. rank(d) \in Nat /\ rank(c) \in Nat /\ rank(d) < rank(c)
        BY <1>6, <2>3, <4>1
      <4>3. QED
        BY <1>8, <4>2
    <3>2. d \in T /\ Nearness(d, Q) = Nearness(d, P)
      BY <1>5, <3>1
    <3>3. QED
      BY <2>1, <2>3, <3>2 DEF Closer
  <2>4. QED
    BY <1>1, <2>1, <2>2, <2>3
<1>9. /\ IsFirst(Nearest(P, n), S, n, R) /\ IsFirst(Nearest(Q, n), T, n, U)
  BY <1>0, NearestIs DEF S, T, R, U
<1>10. \A c \in S : Cardinality(Below(R, S, c)) < n =>
           c \in T /\ Below(U, T, c) = Below(R, S, c)
  BY <1>8 DEF rank
<1>11. QED
  BY <1>1, <1>2, <1>9, <1>10, SameFirst

\* The rows of one source: all that fewer others are more similar to it than.
CloserToIn(s, S) == {e \in S \X S : CloserTo(s, e[1], e[2])}
LEMMA NearestToIs ==
    ASSUME LikenessType, NEW s \in Sources, NEW S \in SUBSET Further, NEW n \in Nat
    PROVE  /\ NearestTo(s, S, n) \in SUBSET S
           /\ \A c \in S : Cardinality({d \in S : CloserTo(s, d, c)}) < n =>
                  c \in NearestTo(s, S, n)
<1> DEFINE R == CloserToIn(s, S)
           m == Min({n, Cardinality(S)})
           choice(k) == CHOOSE c \in S : Cardinality({d \in S : CloserTo(s, d, c)}) = k - 1
           f == First(S, n, LAMBDA c, d : CloserTo(s, c, d))
<1>1. IsFiniteSet(S) /\ \A c \in S : c \in Nat /\ likeness[<<s, c>>] \in Nat
  BY FS_Subset, ReportContentAssumption DEF LikenessType
<1>2. \A c, d \in S : <<c, d>> \in R <=> CloserTo(s, c, d)
  BY DEF CloserToIn
<1>3. \A c \in S : Below(R, S, c) = {d \in S : CloserTo(s, d, c)}
  BY <1>2 DEF Below
<1>4. f = [k \in 1 .. m |-> choice(k)]
  BY DEF First
<1>5. NearestTo(s, S, n) = {f[k] : k \in DOMAIN f}
  BY DEF NearestTo, ToSet
<1> HIDE DEF R, f
<1>6. Orders(R, S)
  <2>1. ASSUME NEW c \in S PROVE ~CloserTo(s, c, c)
    <3>1. likeness[<<s, c>>] \in Nat /\ c \in Nat
      BY <1>1
    <3>2. QED
      BY <3>1 DEF CloserTo
  <2>2. ASSUME NEW c \in S, NEW d \in S, NEW e \in S, CloserTo(s, c, d), CloserTo(s, d, e)
        PROVE  CloserTo(s, c, e)
    <3>1. /\ likeness[<<s, c>>] \in Nat /\ likeness[<<s, d>>] \in Nat
          /\ likeness[<<s, e>>] \in Nat /\ c \in Nat /\ d \in Nat /\ e \in Nat
      BY <1>1
    <3>2. QED
      BY <2>2, <3>1 DEF CloserTo
  <2>3. ASSUME NEW c \in S, NEW d \in S, c # d
        PROVE  CloserTo(s, c, d) \/ CloserTo(s, d, c)
    <3>1. /\ likeness[<<s, c>>] \in Nat /\ likeness[<<s, d>>] \in Nat
          /\ c \in Nat /\ d \in Nat
      BY <1>1
    <3>2. QED
      BY <2>3, <3>1 DEF CloserTo
  <2>4. QED
    BY <1>2, <2>1, <2>2, <2>3 DEF Orders
<1>7. ASSUME NEW k \in 1 .. m
      PROVE  f[k] \in S /\ Cardinality(Below(R, S, f[k])) = k - 1
  <2>1. \E c \in S : Cardinality(Below(R, S, c)) = k - 1
    BY <1>1, <1>6, PlaceIsTaken
  <2>2. \E c \in S : Cardinality({d \in S : CloserTo(s, d, c)}) = k - 1
    BY <1>3, <2>1
  <2>3. choice(k) \in S /\ Cardinality({d \in S : CloserTo(s, d, choice(k))}) = k - 1
    BY <2>2
  <2> HIDE DEF choice
  <2>4. f[k] = choice(k)
    BY <1>4
  <2>5. QED
    BY <1>3, <2>3, <2>4
<1>8. IsFirst(f, S, n, R)
  <2>1. f = [k \in 1 .. m |-> f[k]]
    <3> HIDE DEF m, choice
    <3>1. QED
      BY <1>4
  <2>2. QED
    BY <1>7, <2>1 DEF IsFirst
<1>9. /\ DOMAIN f = 1 .. Len(f) /\ \A k \in 1 .. Len(f) : f[k] \in S
      /\ \A c \in S : Cardinality(Below(R, S, c)) < n => \E k \in 1 .. Len(f) : f[k] = c
  BY <1>1, <1>6, <1>8, FirstFacts
<1>10. QED
  BY <1>3, <1>5, <1>9

\* What is assumed of the limits, as numbers.
LEMMA ReportLimits ==
    /\ Minimum \in Nat /\ MaxRelated \in Nat /\ MaxMajor \in Nat /\ MaxConnections \in Nat
    /\ MaxShifts \in Nat /\ MaxTries \in Nat /\ 1 \in 1 .. MaxTries
    /\ PerSource \in Nat /\ TopRelated \in Nat /\ PerCategory \in Nat
    /\ MaxRelated <= PerSource /\ MaxRelated <= TopRelated
    /\ MaxMajor + MaxRelated <= PerCategory
<1>1. /\ Minimum \in Nat /\ MaxRelated \in Nat /\ MaxMajor \in Nat /\ MaxConnections \in Nat
      /\ MaxShifts \in Nat /\ PerSource \in Nat /\ TopRelated \in Nat /\ PerCategory \in Nat
  BY ReportContentAssumption
<1>2. MaxTries \in Nat /\ MaxTries # 0
  BY ReportContentAssumption
<1>3. /\ PerSource >= MaxRelated /\ TopRelated >= MaxRelated
      /\ PerCategory >= MaxMajor + MaxRelated
  BY ReportContentAssumption
<1> HIDE ReportContentAssumption
<1>4. QED
  BY <1>1, <1>2, <1>3

\* The pairs that are read are pairs of a source and a row, the near ones among them.
LEMMA NearPairsAre ==
    ASSUME LikenessType, NEW sources \in SUBSET Sources, NEW rows \in SUBSET Further
    PROVE  /\ NearPairs(rows, sources) \in SUBSET (sources \X (rows \cap Embedded))
           /\ \A s \in sources, c \in rows \cap Embedded :
                Cardinality({d \in rows \cap Embedded : CloserTo(s, d, c)}) < PerSource
                  => <<s, c>> \in NearPairs(rows, sources)
<1> DEFINE E == rows \cap Embedded
<1>1. E \in SUBSET Further /\ PerSource \in Nat
  BY ReportLimits
<1>2. \A s \in sources :
        /\ NearestTo(s, E, PerSource) \in SUBSET E
        /\ \A c \in E : Cardinality({d \in E : CloserTo(s, d, c)}) < PerSource =>
              c \in NearestTo(s, E, PerSource)
  BY <1>1, NearestToIs
<1>3. NearPairs(rows, sources) = UNION {{s} \X NearestTo(s, E, PerSource) : s \in sources}
  BY DEF NearPairs
<1> HIDE DEF E
<1>4. NearPairs(rows, sources) \in SUBSET (sources \X E)
  BY <1>2, <1>3
<1>5. \A s \in sources, c \in E : Cardinality({d \in E : CloserTo(s, d, c)}) < PerSource =>
          <<s, c>> \in NearPairs(rows, sources)
  BY <1>2, <1>3
<1>6. QED
  BY <1>4, <1>5 DEF E

\* The limits on the rows lose none of the nearest issues: the near pairs of any
\* rows that have these issues give them in the same order.
LEMMA NearPairsSuffice ==
    ASSUME LikenessType, NEW sources \in SUBSET Sources, NEW S \in SUBSET Further,
           NEW rows \in SUBSET S,
           ToSet(Nearest(sources \X (S \cap Embedded), MaxRelated)) \subseteq rows
    PROVE  Nearest(NearPairs(rows, sources), MaxRelated)
             = Nearest(sources \X (S \cap Embedded), MaxRelated)
<1> DEFINE P == sources \X (S \cap Embedded)
           Q == NearPairs(rows, sources)
           I == IssuesIn(P)
           R == CloserIn(P)
<1>1. P \in SUBSET (Sources \X Further) /\ rows \in SUBSET Further
  OBVIOUS
<1>2. Q \in SUBSET P
  BY NearPairsAre
<1>3. /\ IsFiniteSet(I) /\ Orders(R, I)
      /\ \A c \in I : Below(R, I, c) = {d \in I : Closer(d, c, P)}
      /\ IsFirst(Nearest(P, MaxRelated), I, MaxRelated, R)
  <2> HIDE DEF P
  <2>1. QED
    BY <1>1, PairsAre, CloserOrders, NearestIs, ReportLimits
<1>4. ASSUME NEW c \in I, Cardinality(Below(R, I, c)) < MaxRelated
      PROVE  \E p \in Q : p[2] = c /\ likeness[p] = Nearness(c, P)
  <2>1. c \in ToSet(Nearest(P, MaxRelated))
    <3> DEFINE f == Nearest(P, MaxRelated)
    <3> HIDE DEF f, I, R
    <3>1. /\ DOMAIN f = 1 .. Len(f)
          /\ \A x \in I : Cardinality(Below(R, I, x)) < MaxRelated =>
                \E k \in 1 .. Len(f) : f[k] = x
      <4>1. IsFirst(f, I, MaxRelated, R) /\ MaxRelated \in Nat
        BY <1>3, ReportLimits DEF f
      <4>2. IsFiniteSet(I) /\ Orders(R, I)
        BY <1>3
      <4>3. QED
        BY <4>1, <4>2, FirstFacts
    <3>2. PICK k \in DOMAIN f : f[k] = c
      BY <1>4, <3>1
    <3>3. QED
      BY <3>2 DEF ToSet, f
  <2>2. c \in rows /\ c \in Embedded
    BY <2>1 DEF IssuesIn
  <2>3. PICK p \in P : p[2] = c /\ likeness[p] = Nearness(c, P)
    BY <1>1, NearnessIs
  <2>4. PICK s \in sources : p = <<s, c>>
    BY <2>3
  <2> DEFINE D == {d \in rows \cap Embedded : CloserTo(s, d, c)}
  <2>5. ASSUME NEW d \in D PROVE d \in I /\ Closer(d, c, P)
    <3>1. <<s, d>> \in P /\ <<s, d>>[2] = d
      OBVIOUS
    <3>2. d \in I
      BY <3>1 DEF IssuesIn
    <3>3. likeness[<<s, d>>] <= Nearness(d, P) /\ Nearness(d, P) \in Nat
      BY <1>1, <3>1, <3>2, NearnessIs
    <3>4. likeness[<<s, d>>] \in Nat /\ Nearness(c, P) \in Nat /\ c \in Nat /\ d \in Nat
      <4>1. s \in Sources /\ c \in Further /\ d \in Further
        BY <2>2
      <4>2. Nearness(c, P) \in Nat
        BY <1>1, NearnessIs
      <4>3. QED
        BY <4>1, <4>2, ReportContentAssumption DEF LikenessType
    <3>5. likeness[<<s, c>>] = Nearness(c, P) /\ CloserTo(s, d, c)
      BY <2>3, <2>4
    <3> HIDE DEF P, I, D
    <3>6. QED
      BY <3>2, <3>3, <3>4, <3>5 DEF CloserTo, Closer
  <2>6. D \in SUBSET Below(R, I, c) /\ IsFiniteSet(Below(R, I, c))
    <3>1. D \in SUBSET Below(R, I, c)
      BY <1>3, <2>5
    <3>2. Below(R, I, c) \in SUBSET I
      BY DEF Below
    <3>3. QED
      BY <1>3, <3>1, <3>2, FS_Subset
  <2>7. Cardinality(D) < PerSource
    <3>1. Cardinality(D) <= Cardinality(Below(R, I, c))
      BY <2>6, FS_Subset
    <3>2. Cardinality(D) \in Nat /\ Cardinality(Below(R, I, c)) \in Nat
      BY <2>6, FS_Subset, FS_CardinalityType
    <3> HIDE DEF D, I, R
    <3>3. QED
      BY <1>4, <3>1, <3>2, ReportLimits
  <2>8. <<s, c>> \in Q
    <3>1. c \in rows \cap Embedded
      BY <2>2
    <3>2. QED
      BY <1>1, <2>7, <3>1, NearPairsAre
  <2>9. QED
    BY <2>3, <2>4, <2>8
<1>5. QED
  <2> HIDE DEF P, Q
  <2>1. Nearest(Q, MaxRelated) = Nearest(P, MaxRelated)
    BY <1>1, <1>2, <1>4, BestOf, ReportLimits
  <2>2. QED
    BY <2>1 DEF P, Q

-----------------------------------------------------------------------------
(* What a report says: major issues.                                       *)

MoreImportantIn(T) == {e \in T \X T : MoreImportant(e[1], e[2])}

\* Importance, and the id among equals, orders the further issues.
LEMMA ImportanceOrders ==
    ASSUME NEW T \in SUBSET Further
    PROVE  /\ IsFiniteSet(T) /\ Orders(MoreImportantIn(T), T)
           /\ \A x, y \in T : <<x, y>> \in MoreImportantIn(T) <=> MoreImportant(x, y)
           /\ \A x \in T : Below(MoreImportantIn(T), T, x) = {y \in T : MoreImportant(y, x)}
<1> DEFINE R == MoreImportantIn(T)
<1>1. \A x, y \in T : <<x, y>> \in R <=> MoreImportant(x, y)
  BY DEF MoreImportantIn
<1>2. IsFiniteSet(T) /\ \A x \in T : x \in Nat /\ Importance[x] \in Nat
  BY FS_Subset, ReportContentAssumption
<1> HIDE DEF R
<1>3. ASSUME NEW x \in T PROVE ~MoreImportant(x, x)
  <2>1. x \in Nat /\ Importance[x] \in Nat
    BY <1>2
  <2>2. QED
    BY <2>1 DEF MoreImportant
<1>4. ASSUME NEW x \in T, NEW y \in T, NEW z \in T, MoreImportant(x, y), MoreImportant(y, z)
      PROVE  MoreImportant(x, z)
  <2>1. /\ x \in Nat /\ Importance[x] \in Nat /\ y \in Nat /\ Importance[y] \in Nat
        /\ z \in Nat /\ Importance[z] \in Nat
    BY <1>2
  <2>2. QED
    BY <1>4, <2>1 DEF MoreImportant
<1>5. ASSUME NEW x \in T, NEW y \in T, x # y
      PROVE  MoreImportant(x, y) \/ MoreImportant(y, x)
  <2>1. x \in Nat /\ Importance[x] \in Nat /\ y \in Nat /\ Importance[y] \in Nat
    BY <1>2
  <2>2. QED
    BY <1>5, <2>1 DEF MoreImportant
<1>6. Orders(R, T)
  BY <1>1, <1>3, <1>4, <1>5 DEF Orders
<1>7. \A x \in T : Below(R, T, x) = {y \in T : MoreImportant(y, x)}
  BY <1>1 DEF Below
<1>8. QED
  BY <1>1, <1>2, <1>6, <1>7 DEF R

\* The most important of some further issues.
LEMMA MostImportantIs ==
    ASSUME NEW T \in SUBSET Further, NEW n \in Nat
    PROVE  IsFirst(First(T, n, MoreImportant), T, n, MoreImportantIn(T))
<1> DEFINE R == MoreImportantIn(T)
           m == Min({n, Cardinality(T)})
           choice(k) == CHOOSE x \in T : Cardinality({y \in T : MoreImportant(y, x)}) = k - 1
           f == First(T, n, MoreImportant)
<1>1. /\ IsFiniteSet(T) /\ Orders(R, T)
      /\ \A x \in T : Below(R, T, x) = {y \in T : MoreImportant(y, x)}
  BY ImportanceOrders
<1>2. f = [k \in 1 .. m |-> choice(k)]
  BY DEF First
<1> HIDE DEF R, f
<1>3. ASSUME NEW k \in 1 .. m
      PROVE  f[k] \in T /\ Cardinality(Below(R, T, f[k])) = k - 1
  <2>1. \E x \in T : Cardinality(Below(R, T, x)) = k - 1
    BY <1>1, PlaceIsTaken
  <2>2. \E x \in T : Cardinality({y \in T : MoreImportant(y, x)}) = k - 1
    BY <1>1, <2>1
  <2>3. choice(k) \in T /\ Cardinality({y \in T : MoreImportant(y, choice(k))}) = k - 1
    BY <2>2
  <2> HIDE DEF choice
  <2>4. f[k] = choice(k)
    BY <1>2
  <2>5. QED
    BY <1>1, <2>3, <2>4
<1>4. f = [k \in 1 .. m |-> f[k]]
  <2> HIDE DEF m, choice
  <2>1. QED
    BY <1>2
<1>5. QED
  BY <1>3, <1>4 DEF IsFirst, R, f

\* A category in order: every notable issue of it, at the place of its rank.
LEMMA InOrderIs ==
    ASSUME NEW c, NEW S \in SUBSET Further, NEW T, T = NotableOf(c, S)
    PROVE  /\ T \in SUBSET S /\ IsFiniteSet(T) /\ Cardinality(T) \in Nat
           /\ \A x \in T : CategoryNumber[x] = c
           /\ Len(InOrder(c, S)) = Cardinality(T)
           /\ DOMAIN InOrder(c, S) = 1 .. Cardinality(T)
           /\ \A k \in 1 .. Cardinality(T) :
                /\ InOrder(c, S)[k] \in T
                /\ Cardinality(Below(MoreImportantIn(T), T, InOrder(c, S)[k])) = k - 1
<1> DEFINE R == MoreImportantIn(T)
           f == InOrder(c, S)
           n == Cardinality(T)
<1>1. T \in SUBSET S /\ T \in SUBSET Further /\ \A x \in T : CategoryNumber[x] = c
  BY DEF NotableOf
<1>2. IsFiniteSet(T) /\ Orders(R, T) /\ n \in Nat
  BY <1>1, ImportanceOrders, FS_CardinalityType
<1>3. f = First(T, n, MoreImportant)
  BY DEF InOrder
<1> HIDE DEF R, f
<1>4. IsFirst(f, T, n, R)
  <2> HIDE DEF n
  <2>1. IsFirst(First(T, n, MoreImportant), T, n, MoreImportantIn(T))
    BY <1>1, <1>2, MostImportantIs
  <2>2. QED
    BY <1>3, <2>1 DEF R
<1>5. /\ Len(f) = n /\ DOMAIN f = 1 .. Len(f)
      /\ \A k \in 1 .. Len(f) : f[k] \in T /\ Cardinality(Below(R, T, f[k])) = k - 1
  BY <1>2, <1>4, FirstFacts
<1>6. QED
  BY <1>1, <1>2, <1>5 DEF R, f

\* The rows of a category: those with fewer than the limit before them.
LEMMA RowsOfCategoryIs ==
    ASSUME NEW c, NEW S \in SUBSET Further, NEW T, T = NotableOf(c, S)
    PROVE  /\ RowsOfCategory(c, S) \in SUBSET T
           /\ \A x \in T : Cardinality(Below(MoreImportantIn(T), T, x)) < PerCategory =>
                x \in RowsOfCategory(c, S)
<1> DEFINE R == MoreImportantIn(T)
           f == First(T, PerCategory, MoreImportant)
<1>1. T \in SUBSET Further /\ PerCategory \in Nat
  BY ReportLimits DEF NotableOf
<1>2. IsFiniteSet(T) /\ Orders(R, T) /\ IsFirst(f, T, PerCategory, R)
  BY <1>1, ImportanceOrders, MostImportantIs
<1>3. RowsOfCategory(c, S) = {f[k] : k \in DOMAIN f}
  BY DEF RowsOfCategory, ToSet
<1> HIDE DEF R, f
<1>4. /\ DOMAIN f = 1 .. Len(f) /\ \A k \in 1 .. Len(f) : f[k] \in T
      /\ \A x \in T : Cardinality(Below(R, T, x)) < PerCategory =>
            \E k \in 1 .. Len(f) : f[k] = x
  BY <1>1, <1>2, FirstFacts
<1>5. QED
  BY <1>3, <1>4 DEF R

AheadOf(T, x) == Below(MoreImportantIn(T), T, x)
BucketKept(T, U) ==
    /\ U \in SUBSET T
    /\ \A x \in T : Cardinality(AheadOf(T, x)) < MaxMajor =>
          x \in U /\ AheadOf(U, x) = AheadOf(T, x)

\* The limit on the rows of a category loses none of the first ones of it, after
\* some are taken out: as many more rows are read as can be taken out.
LEMMA BucketSuffices ==
    ASSUME NEW c, NEW S \in SUBSET Further, NEW rows \in SUBSET S,
           RowsOfCategory(c, S) \subseteq rows,
           NEW chosen, IsFiniteSet(chosen), Cardinality(chosen) <= MaxRelated
    PROVE  BucketKept(NotableOf(c, S \ chosen), NotableOf(c, rows \ chosen))
<1> DEFINE All == NotableOf(c, S)
           T == NotableOf(c, S \ chosen)
           U == NotableOf(c, rows \ chosen)
           rank(x) == Cardinality(Below(MoreImportantIn(T), T, x))
<1>1. /\ T \in SUBSET Further /\ U \in SUBSET T /\ All \in SUBSET Further
      /\ \A x \in T : x \in All /\ x \notin chosen
      /\ \A x \in All : x \notin chosen => x \in T
      /\ \A x \in T : x \in rows => x \in U
  BY DEF NotableOf
<1>2. /\ IsFiniteSet(T) /\ Orders(MoreImportantIn(T), T)
      /\ \A x, y \in T : <<x, y>> \in MoreImportantIn(T) <=> MoreImportant(x, y)
      /\ \A x \in T : Below(MoreImportantIn(T), T, x) = {y \in T : MoreImportant(y, x)}
  BY <1>1, ImportanceOrders
<1>3. \A x \in All : Below(MoreImportantIn(All), All, x) = {y \in All : MoreImportant(y, x)}
  BY <1>1, ImportanceOrders
<1>4. \A x \in U : Below(MoreImportantIn(U), U, x) = {y \in U : MoreImportant(y, x)}
  <2>1. U \in SUBSET Further
    BY <1>1
  <2>2. QED
    BY <2>1, ImportanceOrders
<1>5. \A x, y \in T : MoreImportant(x, y) => rank(x) \in Nat /\ rank(y) \in Nat /\ rank(x) < rank(y)
  BY <1>2, RankIsOrder
<1>6. ASSUME NEW x \in T, rank(x) < MaxMajor PROVE x \in U
  <2> DEFINE B == Below(MoreImportantIn(T), T, x)
             A == Below(MoreImportantIn(All), All, x)
  <2>1. A \in SUBSET (B \cup chosen)
    <3>1. B = {y \in T : MoreImportant(y, x)} /\ A = {y \in All : MoreImportant(y, x)}
      BY <1>1, <1>2, <1>3
    <3>2. \A y \in All : y \in T \/ y \in chosen
      BY <1>1
    <3> HIDE DEF A, B, All
    <3>3. QED
      BY <3>1, <3>2
  <2>2. IsFiniteSet(B)
    <3>1. B \in SUBSET T
      BY DEF Below
    <3>2. IsFiniteSet(T)
      BY <1>2
    <3> HIDE DEF B, T
    <3>3. QED
      BY <3>1, <3>2, FS_Subset
  <2> HIDE DEF A, B
  <2>3. /\ IsFiniteSet(B \cup chosen)
        /\ Cardinality(B \cup chosen)
             = Cardinality(B) + Cardinality(chosen) - Cardinality(B \cap chosen)
    BY <2>2, FS_Union
  <2>4. IsFiniteSet(A) /\ Cardinality(A) <= Cardinality(B \cup chosen)
    BY <2>1, <2>3, FS_Subset
  <2>5. /\ Cardinality(A) \in Nat /\ Cardinality(B) \in Nat /\ Cardinality(chosen) \in Nat
        /\ Cardinality(B \cap chosen) \in Nat
    <3>1. IsFiniteSet(B \cap chosen)
      BY <2>2, FS_Subset
    <3>2. QED
      BY <2>2, <2>4, <3>1, FS_CardinalityType
  <2>6. Cardinality(A) < PerCategory
    <3>1. Cardinality(B) < MaxMajor
      BY <1>6 DEF B
    <3> HIDE DEF rank, All
    <3>2. QED
      BY <2>3, <2>4, <2>5, <3>1, ReportLimits
  <2>7. x \in RowsOfCategory(c, S)
    BY <1>1, <2>6, RowsOfCategoryIs DEF A
  <2>8. QED
    BY <1>1, <2>7
<1>7. ASSUME NEW x \in T, rank(x) < MaxMajor
      PROVE  Below(MoreImportantIn(U), U, x) = Below(MoreImportantIn(T), T, x)
  <2>1. x \in U
    BY <1>6, <1>7
  <2>2. ASSUME NEW y \in T, MoreImportant(y, x) PROVE y \in U
    <3>1. rank(y) \in Nat /\ rank(x) \in Nat /\ rank(y) < rank(x)
      BY <1>5, <2>2
    <3>2. rank(y) < MaxMajor
      <4> HIDE DEF rank
      <4>1. QED
        BY <1>7, <3>1, ReportLimits
    <3>3. QED
      BY <1>6, <3>2
  <2>3. QED
    BY <1>1, <1>2, <1>4, <2>1, <2>2
<1>8. QED
  BY <1>1, <1>6, <1>7 DEF BucketKept, AheadOf

\* The first of a set of numbers.
LEMMA FirstNumbersAre ==
    ASSUME NEW S \in SUBSET Nat, IsFiniteSet(S), NEW n \in Nat
    PROVE  IsFirst(First(S, n, <), S, n, Smaller(S))
<1> DEFINE R == Smaller(S)
           m == Min({n, Cardinality(S)})
           choice(k) == CHOOSE x \in S : Cardinality({y \in S : y < x}) = k - 1
           f == First(S, n, <)
<1>1. Orders(R, S) /\ \A x \in S : Below(R, S, x) = {y \in S : y < x}
  BY NumbersOrdered
<1>2. f = [k \in 1 .. m |-> choice(k)]
  BY DEF First
<1> HIDE DEF R, f
<1>3. ASSUME NEW k \in 1 .. m
      PROVE  f[k] \in S /\ Cardinality(Below(R, S, f[k])) = k - 1
  <2>1. \E x \in S : Cardinality(Below(R, S, x)) = k - 1
    <3>1. IsFiniteSet(S) /\ n \in Nat /\ Orders(R, S) /\ k \in 1 .. Min({n, Cardinality(S)})
      BY <1>1
    <3> HIDE DEF m, choice
    <3>2. QED
      BY <3>1, PlaceIsTaken
  <2>2. \E x \in S : Cardinality({y \in S : y < x}) = k - 1
    BY <1>1, <2>1
  <2>3. choice(k) \in S /\ Cardinality({y \in S : y < choice(k)}) = k - 1
    BY <2>2
  <2> HIDE DEF choice
  <2>4. f[k] = choice(k)
    BY <1>2
  <2>5. QED
    BY <1>1, <2>3, <2>4
<1>4. f = [k \in 1 .. m |-> f[k]]
  <2> HIDE DEF m, choice
  <2>1. QED
    BY <1>2
<1>5. QED
  BY <1>3, <1>4 DEF IsFirst, R, f

\* The top categories: each once.
LEMMA CodesAre ==
    ASSUME input \in SUBSET Sources
    PROVE  /\ Len(majorCategoryCodes) \in Nat
           /\ DOMAIN majorCategoryCodes = 1 .. Len(majorCategoryCodes)
           /\ \A j, k \in DOMAIN majorCategoryCodes :
                majorCategoryCodes[j] = majorCategoryCodes[k] => j = k
<1> DEFINE cs == {CategoryNumber[i] : i \in input}
           most == {c \in cs : \A d \in cs : CountIn(d) <= CountIn(c)}
           f == majorCategoryCodes
           n == Cardinality(most)
<1>1. IsFiniteSet(input) /\ \A i \in input : CategoryNumber[i] \in Nat
  BY FS_Subset, ReportContentAssumption
<1>2. IsFiniteSet(cs) /\ cs \in SUBSET Nat
  BY <1>1, ImageOf
<1>3. IsFiniteSet(most) /\ most \in SUBSET Nat /\ n \in Nat
  BY <1>2, FS_Subset, FS_CardinalityType
<1>4. f = First(most, n, <)
  BY DEF majorCategoryCodes
<1> HIDE DEF most, f
<1>5. IsFirst(f, most, n, Smaller(most))
  <2> HIDE DEF n
  <2>1. IsFirst(First(most, n, <), most, n, Smaller(most))
    BY <1>3, FirstNumbersAre
  <2>2. QED
    BY <1>4, <2>1
<1>6. Orders(Smaller(most), most)
  BY <1>3, NumbersOrdered
<1>7. /\ Len(f) \in Nat /\ DOMAIN f = 1 .. Len(f)
      /\ \A j, k \in 1 .. Len(f) : f[j] = f[k] => j = k
  BY <1>3, <1>5, <1>6, FirstFacts
<1>8. QED
  BY <1>7 DEF f

\* The rounds of selectMajorIssues: round, and category in the order of display.
PlacesOf(left) ==
    {p \in (1..Cardinality(left)) \X (DOMAIN majorCategoryCodes) :
        p[1] <= Len(InOrder(majorCategoryCodes[p[2]], left))}
Turn(p, q) == p[1] < q[1] \/ (p[1] = q[1] /\ p[2] < q[2])
TurnIn(P) == {e \in P \X P : Turn(e[1], e[2])}
TurnsOf(left) == First(PlacesOf(left), MaxMajor, Turn)
RowsFor(k, left) == NotableOf(majorCategoryCodes[k], left)

\* A place is a round that the bucket of its category reaches.
LEMMA PlacesAre ==
    ASSUME input \in SUBSET Sources, NEW left \in SUBSET Further
    PROVE  /\ IsFiniteSet(PlacesOf(left)) /\ Orders(TurnIn(PlacesOf(left)), PlacesOf(left))
           /\ \A p \in PlacesOf(left) :
                /\ p = <<p[1], p[2]>> /\ p[2] \in DOMAIN majorCategoryCodes
                /\ p[1] \in 1 .. Cardinality(RowsFor(p[2], left))
           /\ \A k \in DOMAIN majorCategoryCodes : \A n \in 1 .. Cardinality(RowsFor(k, left)) :
                <<n, k>> \in PlacesOf(left)
           /\ \A p, q \in PlacesOf(left) : <<p, q>> \in TurnIn(PlacesOf(left)) <=> Turn(p, q)
           /\ \A q \in PlacesOf(left) :
                Below(TurnIn(PlacesOf(left)), PlacesOf(left), q)
                  = {p \in PlacesOf(left) : Turn(p, q)}
<1> DEFINE codes == majorCategoryCodes
           P == PlacesOf(left)
           R == TurnIn(P)
<1>1. Len(codes) \in Nat /\ DOMAIN codes = 1 .. Len(codes)
  BY CodesAre
<1>2. IsFiniteSet(left) /\ Cardinality(left) \in Nat
  BY FS_Subset, FS_CardinalityType, ReportContentAssumption
<1>3. \A k \in DOMAIN codes :
        /\ Len(InOrder(codes[k], left)) = Cardinality(RowsFor(k, left))
        /\ Cardinality(RowsFor(k, left)) \in Nat
        /\ Cardinality(RowsFor(k, left)) <= Cardinality(left)
  <2> SUFFICES ASSUME NEW k \in DOMAIN codes
               PROVE  /\ Len(InOrder(codes[k], left)) = Cardinality(RowsFor(k, left))
                      /\ Cardinality(RowsFor(k, left)) \in Nat
                      /\ Cardinality(RowsFor(k, left)) <= Cardinality(left)
    OBVIOUS
  <2> DEFINE T == NotableOf(codes[k], left)
  <2>1. T \in SUBSET left /\ Cardinality(T) \in Nat /\ Len(InOrder(codes[k], left)) = Cardinality(T)
    BY InOrderIs
  <2>2. Cardinality(T) <= Cardinality(left)
    BY <1>2, <2>1, FS_Subset
  <2>3. QED
    BY <2>1, <2>2 DEF RowsFor
<1>4. P = {p \in (1 .. Cardinality(left)) \X (1 .. Len(codes)) :
             p[1] <= Cardinality(RowsFor(p[2], left))}
  BY <1>1, <1>3 DEF PlacesOf
<1> HIDE DEF P, codes
<1>5. IsFiniteSet(P)
  <2>1. IsFiniteSet(1 .. Cardinality(left)) /\ IsFiniteSet(1 .. Len(codes))
    BY <1>1, <1>2, FS_Interval
  <2>2. IsFiniteSet((1 .. Cardinality(left)) \X (1 .. Len(codes)))
    BY <2>1, FS_Product
  <2>3. QED
    BY <1>4, <2>2, FS_Subset
<1>6. \A p \in P : /\ p = <<p[1], p[2]>> /\ p[1] \in Nat /\ p[2] \in 1 .. Len(codes)
                   /\ p[1] \in 1 .. Cardinality(RowsFor(p[2], left))
  <2> SUFFICES ASSUME NEW p \in P
               PROVE  /\ p = <<p[1], p[2]>> /\ p[1] \in Nat /\ p[2] \in 1 .. Len(codes)
                      /\ p[1] \in 1 .. Cardinality(RowsFor(p[2], left))
    OBVIOUS
  <2>1. /\ p = <<p[1], p[2]>> /\ p[1] \in 1 .. Cardinality(left) /\ p[2] \in 1 .. Len(codes)
        /\ p[1] <= Cardinality(RowsFor(p[2], left))
    BY <1>4
  <2>2. Cardinality(RowsFor(p[2], left)) \in Nat
    BY <1>1, <1>3, <2>1
  <2>3. QED
    BY <1>2, <2>1, <2>2
<1>7. \A k \in 1 .. Len(codes) : \A n \in 1 .. Cardinality(RowsFor(k, left)) : <<n, k>> \in P
  <2> SUFFICES ASSUME NEW k \in 1 .. Len(codes), NEW n \in 1 .. Cardinality(RowsFor(k, left))
               PROVE  <<n, k>> \in P
    OBVIOUS
  <2>1. /\ Cardinality(RowsFor(k, left)) \in Nat
        /\ Cardinality(RowsFor(k, left)) <= Cardinality(left)
    BY <1>1, <1>3
  <2>2. n \in 1 .. Cardinality(left) /\ n <= Cardinality(RowsFor(k, left))
    BY <1>2, <2>1
  <2>3. QED
    BY <1>4, <2>2
<1>8. \A p, q \in P : <<p, q>> \in R <=> Turn(p, q)
  BY DEF TurnIn
<1>9. \A q \in P : Below(R, P, q) = {p \in P : Turn(p, q)}
  BY <1>8 DEF Below
<1> HIDE DEF R
<1>10. Orders(R, P)
  <2>1. ASSUME NEW p \in P PROVE ~Turn(p, p)
    BY <1>6 DEF Turn
  <2>2. ASSUME NEW p \in P, NEW q \in P, NEW r \in P, Turn(p, q), Turn(q, r) PROVE Turn(p, r)
    <3>1. /\ p[1] \in Nat /\ p[2] \in Nat /\ q[1] \in Nat /\ q[2] \in Nat
          /\ r[1] \in Nat /\ r[2] \in Nat
      BY <1>1, <1>6
    <3>2. QED
      BY <2>2, <3>1 DEF Turn
  <2>3. ASSUME NEW p \in P, NEW q \in P, p # q PROVE Turn(p, q) \/ Turn(q, p)
    <3>1. p[1] \in Nat /\ p[2] \in Nat /\ q[1] \in Nat /\ q[2] \in Nat
      BY <1>1, <1>6
    <3>2. p = <<p[1], p[2]>> /\ q = <<q[1], q[2]>>
      BY <1>6
    <3>3. p[1] # q[1] \/ p[2] # q[2]
      BY <2>3, <3>2
    <3>4. QED
      BY <3>1, <3>3 DEF Turn
  <2>4. QED
    BY <1>8, <2>1, <2>2, <2>3 DEF Orders
<1>11. QED
  BY <1>1, <1>5, <1>6, <1>7, <1>8, <1>9, <1>10 DEF P, R, codes

\* The turns are the first places.
LEMMA TurnsAre ==
    ASSUME input \in SUBSET Sources, NEW left \in SUBSET Further
    PROVE  IsFirst(TurnsOf(left), PlacesOf(left), MaxMajor, TurnIn(PlacesOf(left)))
<1> DEFINE S == PlacesOf(left)
           R == TurnIn(S)
           m == Min({MaxMajor, Cardinality(S)})
           choice(k) == CHOOSE q \in S : Cardinality({p \in S : Turn(p, q)}) = k - 1
           f == TurnsOf(left)
<1>1. /\ IsFiniteSet(S) /\ Orders(R, S)
      /\ \A q \in S : Below(R, S, q) = {p \in S : Turn(p, q)}
  BY PlacesAre
<1>2. f = [k \in 1 .. m |-> choice(k)]
  BY DEF TurnsOf, First
<1>3. MaxMajor \in Nat
  BY ReportLimits
<1> HIDE DEF S, R, f
<1>4. ASSUME NEW k \in 1 .. m
      PROVE  f[k] \in S /\ Cardinality(Below(R, S, f[k])) = k - 1
  <2>1. \E q \in S : Cardinality(Below(R, S, q)) = k - 1
    BY <1>1, <1>3, PlaceIsTaken
  <2>2. \E q \in S : Cardinality({p \in S : Turn(p, q)}) = k - 1
    BY <1>1, <2>1
  <2>3. choice(k) \in S /\ Cardinality({p \in S : Turn(p, choice(k))}) = k - 1
    BY <2>2
  <2> HIDE DEF choice
  <2>4. f[k] = choice(k)
    BY <1>2
  <2>5. QED
    BY <1>1, <2>3, <2>4
<1>5. f = [k \in 1 .. m |-> f[k]]
  <2> HIDE DEF m, choice
  <2>1. QED
    BY <1>2
<1>6. QED
  BY <1>4, <1>5 DEF IsFirst, S, R, f

\* What is selected is what the turns come to.
LEMMA SelectedIs ==
    ASSUME NEW rows, NEW chosen
    PROVE  selectMajorIssues(rows, chosen) =
             [t \in DOMAIN TurnsOf(rows \ chosen) |->
                InOrder(majorCategoryCodes[TurnsOf(rows \ chosen)[t][2]], rows \ chosen)
                   [TurnsOf(rows \ chosen)[t][1]]]
BY DEF selectMajorIssues, TurnsOf, PlacesOf, Turn

\* The major issues are rows that are not chosen already, none twice, and no more
\* than the limit.
LEMMA SelectedAre ==
    ASSUME input \in SUBSET Sources, NEW rows \in SUBSET Further, NEW chosen,
           NEW m, m = selectMajorIssues(rows, chosen)
    PROVE  /\ m \in Seq(rows \ chosen) /\ Len(m) \in Nat /\ Len(m) <= MaxMajor
           /\ \A s, t \in 1 .. Len(m) : m[s] = m[t] => s = t
<1> DEFINE left == rows \ chosen
           P == PlacesOf(left)
           turns == TurnsOf(left)
           codes == majorCategoryCodes
           issue(p) == InOrder(codes[p[2]], left)[p[1]]
<1>1. left \in SUBSET Further
  OBVIOUS
<1>2. /\ Len(turns) \in Nat /\ Len(turns) <= MaxMajor /\ DOMAIN turns = 1 .. Len(turns)
      /\ \A t \in 1 .. Len(turns) : turns[t] \in P
      /\ \A s, t \in 1 .. Len(turns) : turns[s] = turns[t] => s = t
  <2>1. IsFiniteSet(P) /\ Orders(TurnIn(P), P) /\ IsFirst(turns, P, MaxMajor, TurnIn(P))
    BY <1>1, PlacesAre, TurnsAre
  <2>2. Cardinality(P) \in Nat /\ MaxMajor \in Nat
    BY <2>1, FS_CardinalityType, ReportLimits
  <2> HIDE DEF P, turns
  <2>3. /\ Len(turns) \in Nat /\ DOMAIN turns = 1 .. Len(turns)
        /\ Len(turns) = IF MaxMajor <= Cardinality(P) THEN MaxMajor ELSE Cardinality(P)
        /\ \A t \in 1 .. Len(turns) : turns[t] \in P
        /\ \A s, t \in 1 .. Len(turns) : turns[s] = turns[t] => s = t
    BY <2>1, <2>2, FirstFacts
  <2>4. QED
    BY <2>2, <2>3
<1>3. \A p \in P :
        /\ issue(p) \in RowsFor(p[2], left)
        /\ Cardinality(Below(MoreImportantIn(RowsFor(p[2], left)), RowsFor(p[2], left), issue(p)))
             = p[1] - 1
        /\ CategoryNumber[issue(p)] = codes[p[2]]
        /\ issue(p) \in left
  <2> SUFFICES ASSUME NEW p \in P
               PROVE  /\ issue(p) \in RowsFor(p[2], left)
                      /\ Cardinality(Below(MoreImportantIn(RowsFor(p[2], left)),
                                           RowsFor(p[2], left), issue(p))) = p[1] - 1
                      /\ CategoryNumber[issue(p)] = codes[p[2]]
                      /\ issue(p) \in left
    OBVIOUS
  <2>1. p[1] \in 1 .. Cardinality(RowsFor(p[2], left))
    BY <1>1, PlacesAre
  <2>2. RowsFor(p[2], left) = NotableOf(codes[p[2]], left)
    BY DEF RowsFor
  <2> HIDE DEF P, codes, left
  <2>3. QED
    BY <1>1, <2>1, <2>2, InOrderIs
<1>4. \A p, q \in P : issue(p) = issue(q) => p = q
  <2> SUFFICES ASSUME NEW p \in P, NEW q \in P, issue(p) = issue(q) PROVE p = q
    OBVIOUS
  <2>1. /\ p = <<p[1], p[2]>> /\ p[2] \in DOMAIN codes
        /\ p[1] \in 1 .. Cardinality(RowsFor(p[2], left))
        /\ q = <<q[1], q[2]>> /\ q[2] \in DOMAIN codes
        /\ q[1] \in 1 .. Cardinality(RowsFor(q[2], left))
    BY <1>1, PlacesAre
  <2>2. p[2] = q[2]
    <3>1. codes[p[2]] = codes[q[2]]
      BY <1>3
    <3>2. QED
      BY <2>1, <3>1, CodesAre
  <2>3. p[1] - 1 = q[1] - 1
    <3> HIDE DEF issue, P, left
    <3>1. QED
      BY <1>3, <2>2
  <2>4. p[1] = q[1]
    <3>1. p[1] \in Int /\ q[1] \in Int
      BY <2>1
    <3>2. QED
      BY <2>3, <3>1
  <2>5. QED
    BY <2>1, <2>2, <2>4
<1>5. m = [t \in 1 .. Len(turns) |-> issue(turns[t])]
  BY <1>2, SelectedIs
<1> HIDE DEF issue, turns, P
<1>6. m \in Seq(left)
  <2>1. \A t \in 1 .. Len(turns) : issue(turns[t]) \in left
    BY <1>2, <1>3
  <2> HIDE DEF left
  <2>2. [t \in 1 .. Len(turns) |-> issue(turns[t])] \in Seq(left)
    BY <1>2, <2>1, IsASeq
  <2>3. QED
    BY <1>5, <2>2
<1>7. Len(m) = Len(turns)
  <2>1. DOMAIN m = 1 .. Len(turns)
    BY <1>5
  <2>2. QED
    BY <1>2, <1>6, <2>1, LenProperties
<1>8. \A s, t \in 1 .. Len(m) : m[s] = m[t] => s = t
  BY <1>2, <1>4, <1>5, <1>7
<1>9. QED
  BY <1>2, <1>6, <1>7, <1>8 DEF left

\* A place among the first is of a round up to the limit.
LEMMA EarlyPlace ==
    ASSUME input \in SUBSET Sources, NEW left \in SUBSET Further,
           NEW p \in PlacesOf(left), NEW n \in Nat,
           Cardinality(Below(TurnIn(PlacesOf(left)), PlacesOf(left), p)) < n
    PROVE  p[1] <= n
<1> DEFINE P == PlacesOf(left)
           B == Below(TurnIn(P), P, p)
           g == [j \in 1 .. (p[1] - 1) |-> <<j, p[2]>>]
           G == {g[j] : j \in 1 .. (p[1] - 1)}
<1>1. /\ IsFiniteSet(P) /\ B = {q \in P : Turn(q, p)}
      /\ p = <<p[1], p[2]>> /\ p[2] \in DOMAIN majorCategoryCodes
      /\ p[1] \in 1 .. Cardinality(RowsFor(p[2], left))
      /\ \A j \in 1 .. Cardinality(RowsFor(p[2], left)) : <<j, p[2]>> \in P
  BY PlacesAre
<1>2. p[1] \in Nat /\ p[1] - 1 \in Nat
  BY <1>1
<1>3. IsFiniteSet(1 .. (p[1] - 1)) /\ Cardinality(1 .. (p[1] - 1)) = p[1] - 1
  <2> DEFINE l == p[1] - 1
  <2> HIDE DEF l
  <2>1. l \in Nat => IsFiniteSet(1 .. l) /\ Cardinality(1 .. l) = IF 1 > l THEN 0 ELSE l - 1 + 1
    BY FS_Interval
  <2>2. l \in Nat => IsFiniteSet(1 .. l) /\ Cardinality(1 .. l) = l
    BY <2>1
  <2>3. QED
    BY <1>2, <2>2 DEF l
<1>4. Cardinality(G) = p[1] - 1
  <2>1. \A i, j \in 1 .. (p[1] - 1) : g[i] = g[j] => i = j
    OBVIOUS
  <2> DEFINE D == 1 .. (p[1] - 1)
  <2>2. IsFiniteSet(D) /\ \A i, j \in D : g[i] = g[j] => i = j
    BY <1>3, <2>1
  <2> HIDE DEF g, D
  <2>3. Cardinality({g[j] : j \in D}) = Cardinality(D)
    BY <2>2, ImageOf
  <2>4. Cardinality(G) = Cardinality(1 .. (p[1] - 1))
    BY <2>3 DEF D
  <2>5. QED
    BY <1>3, <2>4
<1>5. G \in SUBSET B
  <2> SUFFICES ASSUME NEW j \in 1 .. (p[1] - 1) PROVE <<j, p[2]>> \in B
    OBVIOUS
  <2>1. j \in 1 .. Cardinality(RowsFor(p[2], left))
    <3>1. p[1] <= Cardinality(RowsFor(p[2], left))
      BY <1>1
    <3>2. Cardinality(RowsFor(p[2], left)) \in Nat
      BY InOrderIs DEF RowsFor
    <3>3. QED
      BY <1>2, <3>1, <3>2
  <2>2. <<j, p[2]>> \in P
    BY <1>1, <2>1
  <2>3. Turn(<<j, p[2]>>, p)
    <3>1. j < p[1]
      BY <1>2
    <3>2. QED
      BY <3>1 DEF Turn
  <2>4. QED
    BY <1>1, <2>2, <2>3
<1>6. IsFiniteSet(B)
  BY <1>1, FS_Subset
<1>7. Cardinality(G) <= Cardinality(B) /\ Cardinality(B) \in Nat
  BY <1>5, <1>6, FS_Subset, FS_CardinalityType
<1> HIDE DEF G, B
<1>8. Cardinality(B) < n
  BY DEF B, P
<1>9. QED
  BY <1>2, <1>4, <1>7, <1>8

RoundsKept(c, left, less) ==
    \A n \in 1 .. MaxMajor : n \in 1 .. Cardinality(NotableOf(c, left)) =>
        /\ n \in 1 .. Cardinality(NotableOf(c, less))
        /\ InOrder(c, less)[n] = InOrder(c, left)[n]

\* The rows are enough for the turns: a round up to the limit that a category
\* reaches with all further issues, it reaches with the rows, by the same issue.
LEMMA RoundSuffices ==
    ASSUME NEW c, NEW S \in SUBSET Further, NEW rows \in SUBSET S,
           RowsOfCategory(c, S) \subseteq rows,
           NEW chosen, IsFiniteSet(chosen), Cardinality(chosen) <= MaxRelated
    PROVE  RoundsKept(c, S \ chosen, rows \ chosen)
<1> SUFFICES ASSUME NEW n \in 1 .. MaxMajor, n \in 1 .. Cardinality(NotableOf(c, S \ chosen))
             PROVE  /\ n \in 1 .. Cardinality(NotableOf(c, rows \ chosen))
                    /\ InOrder(c, rows \ chosen)[n] = InOrder(c, S \ chosen)[n]
  BY DEF RoundsKept
<1> DEFINE T == NotableOf(c, S \ chosen)
           U == NotableOf(c, rows \ chosen)
           RT == MoreImportantIn(T)
           RU == MoreImportantIn(U)
           x == InOrder(c, S \ chosen)[n]
           y == InOrder(c, rows \ chosen)[n]
<1>1. /\ U \in SUBSET T
      /\ \A i \in T : Cardinality(Below(RT, T, i)) < MaxMajor =>
            i \in U /\ Below(RU, U, i) = Below(RT, T, i)
  <2>1. BucketKept(NotableOf(c, S \ chosen), NotableOf(c, rows \ chosen))
    BY BucketSuffices
  <2>2. QED
    BY <2>1 DEF BucketKept, AheadOf
<1>2. /\ x \in T /\ Cardinality(Below(RT, T, x)) = n - 1
      /\ Cardinality(U) \in Nat
      /\ n \in 1 .. Cardinality(U) => y \in U /\ Cardinality(Below(RU, U, y)) = n - 1
  <2>1. x \in T /\ Cardinality(Below(RT, T, x)) = n - 1
    <3>1. S \ chosen \in SUBSET Further
      OBVIOUS
    <3>2. QED
      BY <3>1, InOrderIs
  <2>2. /\ Cardinality(U) \in Nat
        /\ n \in 1 .. Cardinality(U) => y \in U /\ Cardinality(Below(RU, U, y)) = n - 1
    <3>1. rows \ chosen \in SUBSET Further
      OBVIOUS
    <3>2. QED
      BY <3>1, InOrderIs
  <2>3. QED
    BY <2>1, <2>2
<1>3. /\ IsFiniteSet(U) /\ Orders(RU, U)
      /\ \A i \in U : Cardinality(Below(RU, U, i)) \in 0 .. (Cardinality(U) - 1)
      /\ \A i, j \in U : Cardinality(Below(RU, U, i)) = Cardinality(Below(RU, U, j)) => i = j
  <2>1. U \in SUBSET Further
    BY DEF NotableOf
  <2>2. IsFiniteSet(U) /\ Orders(RU, U)
    BY <2>1, ImportanceOrders
  <2> HIDE DEF U, RU
  <2>3. QED
    BY <2>2, Ranks, RankIsOrder
<1>4. n \in Nat /\ n <= MaxMajor /\ n - 1 < MaxMajor /\ n >= 1
  BY ReportLimits
<1> HIDE DEF T, U, RT, RU, x, y
<1>5. x \in U /\ Cardinality(Below(RU, U, x)) = n - 1
  BY <1>1, <1>2, <1>4
<1>6. n \in 1 .. Cardinality(U)
  <2>1. n - 1 \in 0 .. (Cardinality(U) - 1)
    BY <1>3, <1>5
  <2>2. QED
    BY <1>2, <1>4, <2>1
<1>7. x = y
  BY <1>2, <1>3, <1>5, <1>6
<1>8. QED
  BY <1>6, <1>7 DEF U, x, y

\* What is selected from the rows is what would be selected from all of them.
LEMMA RowsSuffice ==
    ASSUME input \in SUBSET Sources, NEW S \in SUBSET Further, NEW rows \in SUBSET S,
           \A k \in DOMAIN majorCategoryCodes : RowsOfCategory(majorCategoryCodes[k], S) \subseteq rows,
           NEW chosen, IsFiniteSet(chosen), Cardinality(chosen) <= MaxRelated
    PROVE  selectMajorIssues(rows, chosen) = selectMajorIssues(S, chosen)
<1> DEFINE left == S \ chosen
           less == rows \ chosen
           codes == majorCategoryCodes
           P == PlacesOf(left)
           Q == PlacesOf(less)
           rank(p) == Cardinality(Below(TurnIn(P), P, p))
<1>1. left \in SUBSET Further /\ less \in SUBSET Further /\ MaxMajor \in Nat
  BY ReportLimits
<1>2. \A k \in DOMAIN codes : Cardinality(RowsFor(k, less)) \in Nat
                              /\ Cardinality(RowsFor(k, left)) \in Nat
                              /\ Cardinality(RowsFor(k, less)) <= Cardinality(RowsFor(k, left))
  <2> SUFFICES ASSUME NEW k \in DOMAIN codes
               PROVE  Cardinality(RowsFor(k, less)) \in Nat
                      /\ Cardinality(RowsFor(k, left)) \in Nat
                      /\ Cardinality(RowsFor(k, less)) <= Cardinality(RowsFor(k, left))
    OBVIOUS
  <2>1. /\ IsFiniteSet(RowsFor(k, left)) /\ Cardinality(RowsFor(k, left)) \in Nat
        /\ Cardinality(RowsFor(k, less)) \in Nat
    BY <1>1, InOrderIs DEF RowsFor
  <2>2. RowsFor(k, less) \in SUBSET RowsFor(k, left)
    BY DEF RowsFor, NotableOf
  <2>3. QED
    BY <2>1, <2>2, FS_Subset
<1>3. /\ IsFiniteSet(P) /\ Orders(TurnIn(P), P) /\ Orders(TurnIn(Q), Q)
      /\ \A p \in P : /\ p = <<p[1], p[2]>> /\ p[2] \in DOMAIN codes
                      /\ p[1] \in 1 .. Cardinality(RowsFor(p[2], left))
      /\ \A p \in Q : /\ p = <<p[1], p[2]>> /\ p[2] \in DOMAIN codes
                      /\ p[1] \in 1 .. Cardinality(RowsFor(p[2], less))
      /\ \A k \in DOMAIN codes : \A n \in 1 .. Cardinality(RowsFor(k, left)) : <<n, k>> \in P
      /\ \A k \in DOMAIN codes : \A n \in 1 .. Cardinality(RowsFor(k, less)) : <<n, k>> \in Q
      /\ \A p, q \in P : <<p, q>> \in TurnIn(P) <=> Turn(p, q)
      /\ \A q \in P : Below(TurnIn(P), P, q) = {p \in P : Turn(p, q)}
      /\ \A q \in Q : Below(TurnIn(Q), Q, q) = {p \in Q : Turn(p, q)}
  BY <1>1, PlacesAre
<1>4. Q \in SUBSET P
  <2> SUFFICES ASSUME NEW q \in Q PROVE q \in P
    OBVIOUS
  <2>1. /\ q = <<q[1], q[2]>> /\ q[2] \in DOMAIN codes
        /\ q[1] \in 1 .. Cardinality(RowsFor(q[2], less))
    BY <1>3
  <2>2. q[1] \in 1 .. Cardinality(RowsFor(q[2], left))
    <3>1. /\ Cardinality(RowsFor(q[2], less)) \in Nat
          /\ Cardinality(RowsFor(q[2], left)) \in Nat
          /\ Cardinality(RowsFor(q[2], less)) <= Cardinality(RowsFor(q[2], left))
      BY <1>2, <2>1
    <3> HIDE DEF Q, left, less
    <3>2. QED
      BY <2>1, <3>1
  <2> HIDE DEF P, Q
  <2>3. <<q[1], q[2]>> \in P
    BY <1>3, <2>1, <2>2
  <2>4. QED
    BY <2>1, <2>3
<1>5. \A k \in DOMAIN codes : \A n \in 1 .. MaxMajor :
        n \in 1 .. Cardinality(RowsFor(k, left)) =>
          /\ n \in 1 .. Cardinality(RowsFor(k, less))
          /\ InOrder(codes[k], less)[n] = InOrder(codes[k], left)[n]
  <2> SUFFICES ASSUME NEW k \in DOMAIN codes, NEW n \in 1 .. MaxMajor,
                      n \in 1 .. Cardinality(RowsFor(k, left))
               PROVE  /\ n \in 1 .. Cardinality(RowsFor(k, less))
                      /\ InOrder(codes[k], less)[n] = InOrder(codes[k], left)[n]
    OBVIOUS
  <2>1. n \in 1 .. Cardinality(NotableOf(codes[k], S \ chosen))
    BY DEF RowsFor
  <2>2. RowsOfCategory(codes[k], S) \subseteq rows
    OBVIOUS
  <2> DEFINE c == codes[k]
  <2>3. RoundsKept(c, S \ chosen, rows \ chosen)
    <3> HIDE DEF c
    <3>1. RowsOfCategory(c, S) \subseteq rows
      BY <2>2 DEF c
    <3>2. QED
      BY <3>1, RoundSuffices
  <2>4. QED
    BY <2>1, <2>3 DEF RoundsKept, RowsFor
<1>6. \A p \in P : rank(p) < MaxMajor => p[1] \in 1 .. MaxMajor
  <2> SUFFICES ASSUME NEW p \in P, rank(p) < MaxMajor PROVE p[1] \in 1 .. MaxMajor
    OBVIOUS
  <2>1. p[1] <= MaxMajor
    BY <1>1, EarlyPlace
  <2>2. p[1] \in 1 .. Cardinality(RowsFor(p[2], left)) /\ Cardinality(RowsFor(p[2], left)) \in Nat
    BY <1>2, <1>3
  <2>3. QED
    BY <1>1, <2>1, <2>2
<1>7. /\ \A p \in P : rank(p) \in Nat
      /\ \A p, q \in P : Turn(p, q) => rank(p) < rank(q)
  BY <1>3, RankIsOrder
<1>8. \A p \in P : rank(p) < MaxMajor => p \in Q
  <2> SUFFICES ASSUME NEW p \in P, rank(p) < MaxMajor PROVE p \in Q
    OBVIOUS
  <2>1. p[1] \in 1 .. Cardinality(RowsFor(p[2], less))
    BY <1>3, <1>5, <1>6
  <2>2. <<p[1], p[2]>> \in Q
    BY <1>3, <2>1
  <2>3. QED
    BY <1>3, <2>2
<1>9. \A p \in P : rank(p) < MaxMajor =>
        p \in Q /\ Below(TurnIn(Q), Q, p) = Below(TurnIn(P), P, p)
  <2> SUFFICES ASSUME NEW p \in P, rank(p) < MaxMajor
               PROVE  p \in Q /\ Below(TurnIn(Q), Q, p) = Below(TurnIn(P), P, p)
    OBVIOUS
  <2>1. p \in Q
    BY <1>8
  <2>2. ASSUME NEW q \in P, Turn(q, p) PROVE q \in Q
    <3>1. rank(q) < rank(p) /\ rank(q) \in Nat /\ rank(p) \in Nat
      BY <1>7, <2>2
    <3>2. rank(q) < MaxMajor
      <4> HIDE DEF rank
      <4>1. QED
        BY <1>1, <3>1
    <3>3. QED
      BY <1>8, <3>2
  <2> HIDE DEF P, Q
  <2>3. QED
    BY <1>3, <1>4, <2>1, <2>2
<1>10. TurnsOf(left) = TurnsOf(less)
  <2>1. /\ IsFirst(TurnsOf(left), P, MaxMajor, TurnIn(P))
        /\ IsFirst(TurnsOf(less), Q, MaxMajor, TurnIn(Q))
    BY <1>1, TurnsAre
  <2> HIDE DEF P, Q
  <2>2. QED
    BY <1>1, <1>3, <1>4, <1>9, <2>1, SameFirst
<1>11. \A t \in DOMAIN TurnsOf(left) :
         InOrder(codes[TurnsOf(left)[t][2]], less)[TurnsOf(left)[t][1]]
           = InOrder(codes[TurnsOf(left)[t][2]], left)[TurnsOf(left)[t][1]]
  <2> SUFFICES ASSUME NEW t \in DOMAIN TurnsOf(left), NEW p, p = TurnsOf(left)[t]
               PROVE  InOrder(codes[p[2]], less)[p[1]] = InOrder(codes[p[2]], left)[p[1]]
    OBVIOUS
  <2>1. IsFirst(TurnsOf(left), P, MaxMajor, TurnIn(P))
    BY <1>1, TurnsAre
  <2>2. p \in P /\ rank(p) = t - 1 /\ t - 1 < MaxMajor
    <3> DEFINE f == TurnsOf(left)
    <3>1. Cardinality(P) \in Nat
      BY <1>3, FS_CardinalityType
    <3> HIDE DEF f, P
    <3>2. IsFirst(f, P, MaxMajor, TurnIn(P))
      BY <2>1 DEF f
    <3>3. /\ Len(f) \in Nat /\ DOMAIN f = 1 .. Len(f)
          /\ Len(f) = IF MaxMajor <= Cardinality(P) THEN MaxMajor ELSE Cardinality(P)
          /\ \A k \in 1 .. Len(f) :
               f[k] \in P /\ Cardinality(Below(TurnIn(P), P, f[k])) = k - 1
      BY <1>1, <1>3, <3>2, FirstFacts
    <3>4. t \in 1 .. Len(f) /\ p = f[t]
      BY <3>3 DEF f
    <3>5. QED
      BY <1>1, <3>1, <3>3, <3>4
  <2>3. p[1] \in 1 .. MaxMajor /\ p[2] \in DOMAIN codes
        /\ p[1] \in 1 .. Cardinality(RowsFor(p[2], left))
    BY <1>3, <1>6, <2>2
  <2>4. QED
    BY <1>5, <2>3
<1>12. QED
  <2>1. selectMajorIssues(rows, chosen) =
          [t \in DOMAIN TurnsOf(less) |->
             InOrder(codes[TurnsOf(less)[t][2]], less)[TurnsOf(less)[t][1]]]
    BY SelectedIs
  <2>2. selectMajorIssues(S, chosen) =
          [t \in DOMAIN TurnsOf(left) |->
             InOrder(codes[TurnsOf(left)[t][2]], left)[TurnsOf(left)[t][1]]]
    BY SelectedIs
  <2> HIDE DEF left, less, codes
  <2>3. QED
    BY <1>10, <1>11, <2>1, <2>2

\* More of the first contain the first.
LEMMA FirstGrows ==
    ASSUME NEW S, IsFiniteSet(S), NEW R, Orders(R, S), NEW n \in Nat, NEW m \in Nat, n <= m,
           NEW f, IsFirst(f, S, n, R), NEW g, IsFirst(g, S, m, R)
    PROVE  ToSet(f) \subseteq ToSet(g) /\ ToSet(f) \subseteq S
<1>1. /\ Len(f) \in Nat /\ DOMAIN f = 1 .. Len(f)
      /\ Len(f) = IF n <= Cardinality(S) THEN n ELSE Cardinality(S)
      /\ \A k \in 1 .. Len(f) : f[k] \in S /\ Cardinality(Below(R, S, f[k])) = k - 1
  BY FirstFacts
<1>2. /\ DOMAIN g = 1 .. Len(g)
      /\ \A x \in S : Cardinality(Below(R, S, x)) < m => \E k \in 1 .. Len(g) : g[k] = x
  BY FirstFacts
<1>3. Cardinality(S) \in Nat
  BY FS_CardinalityType
<1>4. ASSUME NEW k \in 1 .. Len(f) PROVE f[k] \in S /\ \E j \in 1 .. Len(g) : g[j] = f[k]
  <2>1. f[k] \in S /\ Cardinality(Below(R, S, f[k])) = k - 1
    BY <1>1
  <2>2. k - 1 < m
    BY <1>1, <1>3
  <2>3. QED
    BY <1>2, <2>1, <2>2
<1>5. QED
  BY <1>1, <1>2, <1>4 DEF ToSet

\* The rows that are read for a report hold the nearest of all.
LEMMA RowsHoldNearest ==
    ASSUME LikenessType, NEW sources \in SUBSET Sources, NEW S \in SUBSET Further
    PROVE  ToSet(Nearest(sources \X (S \cap Embedded), MaxRelated))
             \subseteq ToSet(Nearest(NearPairs(S, sources), TopRelated))
<1> DEFINE P == sources \X (S \cap Embedded)
           N == NearPairs(S, sources)
<1>1. P \in SUBSET (Sources \X Further)
  OBVIOUS
<1>2. N \in SUBSET P
  BY NearPairsAre
<1>3. IssuesIn(P) \subseteq S
  BY DEF IssuesIn
<1>4. MaxRelated \in Nat /\ TopRelated \in Nat /\ MaxRelated <= TopRelated
  BY ReportLimits
<1>5. ToSet(Nearest(P, MaxRelated)) \subseteq S
  <2> HIDE DEF P
  <2>1. IsFiniteSet(IssuesIn(P)) /\ Orders(CloserIn(P), IssuesIn(P))
    BY <1>1, PairsAre, CloserOrders
  <2>2. IsFirst(Nearest(P, MaxRelated), IssuesIn(P), MaxRelated, CloserIn(P))
    BY <1>1, <1>4, NearestIs
  <2>3. ToSet(Nearest(P, MaxRelated)) \subseteq IssuesIn(P)
    BY <1>4, <2>1, <2>2, FirstGrows
  <2>4. QED
    BY <1>3, <2>3
<1>6. Nearest(N, MaxRelated) = Nearest(P, MaxRelated)
  BY <1>5, NearPairsSuffice
<1> HIDE DEF P, N
<1>7. N \in SUBSET (Sources \X Further)
  BY <1>1, <1>2
<1>8. IsFiniteSet(IssuesIn(N)) /\ Orders(CloserIn(N), IssuesIn(N))
  BY <1>7, PairsAre, CloserOrders
<1>9. /\ IsFirst(Nearest(N, MaxRelated), IssuesIn(N), MaxRelated, CloserIn(N))
      /\ IsFirst(Nearest(N, TopRelated), IssuesIn(N), TopRelated, CloserIn(N))
  BY <1>4, <1>7, NearestIs
<1>10. ToSet(Nearest(N, MaxRelated)) \subseteq ToSet(Nearest(N, TopRelated))
  BY <1>4, <1>8, <1>9, FirstGrows
<1>11. QED
  BY <1>6, <1>10 DEF P, N

\* What a sequence holds: as many as its length when none is there twice.
LEMMA HeldBy ==
    ASSUME NEW n \in Nat, NEW f
    PROVE  /\ IsFiniteSet({f[k] : k \in 1 .. n}) /\ Cardinality({f[k] : k \in 1 .. n}) \in Nat
           /\ Cardinality({f[k] : k \in 1 .. n}) = n
                <=> \A j, k \in 1 .. n : f[j] = f[k] => j = k
<1>1. IsFiniteSet(1 .. n) /\ Cardinality(1 .. n) = n
  <2>1. Cardinality(1 .. n) = IF 1 > n THEN 0 ELSE n - 1 + 1
    BY FS_Interval
  <2>2. QED
    BY <2>1, FS_Interval
<1>2. IsFiniteSet({f[k] : k \in 1 .. n})
  BY <1>1, ImageOf
<1>3. Cardinality({f[k] : k \in 1 .. n}) = Cardinality(1 .. n)
        <=> \A j, k \in 1 .. n : f[j] = f[k] => j = k
  BY <1>1, ImageOf
<1>4. QED
  BY <1>1, <1>2, <1>3, FS_CardinalityType

\* The issues of what is chosen, in the order of choice.
IssuesOfEach(related) == [k \in DOMAIN related |-> related[k].issue]

RelatedGood(related, rows, sources) ==
    /\ related \in Seq([issue : rows, source : sources])
    /\ Len(related) \in Nat /\ Len(related) <= MaxRelated
    /\ \A j, k \in 1 .. Len(related) : related[j].issue = related[k].issue => j = k

\* What is chosen: each issue is one of the rows, with a source it was compared
\* with, and none is chosen twice.
LEMMA SelectRelatedIs ==
    ASSUME LikenessType, NEW sources \in SUBSET Sources, NEW rows \in SUBSET Further
    PROVE  /\ RelatedGood(SelectRelated(rows, sources), rows, sources)
           /\ IssuesOfEach(SelectRelated(rows, sources)) = Nearest(NearPairs(rows, sources), MaxRelated)
           /\ IssuesOf(SelectRelated(rows, sources))
                = ToSet(Nearest(NearPairs(rows, sources), MaxRelated))
           /\ IsFiniteSet(IssuesOf(SelectRelated(rows, sources)))
           /\ Cardinality(IssuesOf(SelectRelated(rows, sources))) <= MaxRelated
<1> DEFINE N == NearPairs(rows, sources)
           f == Nearest(N, MaxRelated)
           r == SelectRelated(rows, sources)
<1>1. N \in SUBSET (sources \X rows) /\ N \in SUBSET (Sources \X Further)
  BY NearPairsAre
<1>2. r = [k \in DOMAIN f |-> [issue |-> f[k], source |-> NearestSource(f[k], N)]]
  BY DEF SelectRelated
<1>3. IssuesIn(N) \subseteq rows
  BY <1>1 DEF IssuesIn
<1> HIDE DEF r, N
<1>4. /\ f \in Seq(IssuesIn(N)) /\ Len(f) \in Nat /\ DOMAIN f = 1 .. Len(f)
      /\ Len(f) <= MaxRelated
      /\ \A k \in 1 .. Len(f) : f[k] \in IssuesIn(N)
      /\ \A j, k \in 1 .. Len(f) : f[j] = f[k] => j = k
  <2>1. IsFiniteSet(IssuesIn(N)) /\ Orders(CloserIn(N), IssuesIn(N))
    BY <1>1, PairsAre, CloserOrders
  <2>2. IsFirst(f, IssuesIn(N), MaxRelated, CloserIn(N)) /\ MaxRelated \in Nat
    BY <1>1, NearestIs, ReportLimits
  <2> HIDE DEF f
  <2>3. /\ f \in Seq(IssuesIn(N)) /\ Len(f) \in Nat /\ DOMAIN f = 1 .. Len(f)
        /\ Len(f) = IF MaxRelated <= Cardinality(IssuesIn(N)) THEN MaxRelated ELSE Cardinality(IssuesIn(N))
        /\ \A k \in 1 .. Len(f) : f[k] \in IssuesIn(N)
        /\ \A j, k \in 1 .. Len(f) : f[j] = f[k] => j = k
    BY <2>1, <2>2, FirstFacts
  <2>4. Cardinality(IssuesIn(N)) \in Nat
    BY <2>1, FS_CardinalityType
  <2>5. QED
    BY <2>2, <2>3, <2>4
<1> HIDE DEF f
<1>5. ASSUME NEW k \in 1 .. Len(f)
      PROVE  /\ r[k] = [issue |-> f[k], source |-> NearestSource(f[k], N)]
             /\ f[k] \in rows /\ NearestSource(f[k], N) \in sources
  <2>1. f[k] \in IssuesIn(N)
    BY <1>4
  <2>2. \E p \in N : NearestSource(f[k], N) = p[1]
    BY <1>1, <2>1, NearestSourceIs
  <2>3. NearestSource(f[k], N) \in sources
    BY <1>1, <2>2
  <2>4. QED
    BY <1>2, <1>3, <1>4, <2>1, <2>3
<1>6. ASSUME NEW k \in 1 .. Len(f)
      PROVE  r[k] \in [issue : rows, source : sources] /\ r[k].issue = f[k]
  <2> DEFINE s == NearestSource(f[k], N)
  <2>1. r[k] = [issue |-> f[k], source |-> s] /\ f[k] \in rows /\ s \in sources
    BY <1>5
  <2> HIDE DEF s
  <2>2. QED
    BY <2>1
<1>7. r \in Seq([issue : rows, source : sources]) /\ Len(r) = Len(f) /\ DOMAIN r = 1 .. Len(f)
  <2>1. r = [k \in 1 .. Len(f) |-> r[k]]
    BY <1>2, <1>4
  <2>2. QED
    BY <1>4, <1>6, <2>1, IsASeq
<1>8. RelatedGood(r, rows, sources)
  BY <1>4, <1>6, <1>7 DEF RelatedGood
<1>9. IssuesOfEach(r) = f
  <2>1. f = [k \in 1 .. Len(f) |-> f[k]]
    BY <1>4
  <2>2. QED
    BY <1>6, <1>7, <2>1 DEF IssuesOfEach
<1>10. IssuesOf(r) = {f[k] : k \in 1 .. Len(f)} /\ ToSet(f) = {f[k] : k \in 1 .. Len(f)}
  BY <1>4, <1>6, <1>7 DEF IssuesOf, ToSet
<1>11. IsFiniteSet({f[k] : k \in 1 .. Len(f)}) /\ Cardinality({f[k] : k \in 1 .. Len(f)}) <= MaxRelated
  <2>1. Len(f) \in Nat /\ \A j, k \in 1 .. Len(f) : f[j] = f[k] => j = k
    BY <1>4
  <2>2. IsFiniteSet({f[k] : k \in 1 .. Len(f)}) /\ Cardinality({f[k] : k \in 1 .. Len(f)}) = Len(f)
    BY <2>1, HeldBy
  <2>3. QED
    BY <1>4, <2>2
<1>12. QED
  BY <1>8, <1>9, <1>10, <1>11 DEF r, f, N

-----------------------------------------------------------------------------
(* What a report says: the candidates and what is left of them.            *)

RelatedFor(i) == [issue : Further, source : i]

\* No issue is recommended twice, and no more are than the limits allow.
CandidatesGood(c, i) ==
    /\ c.related \in Seq(RelatedFor(i)) /\ Len(c.related) \in Nat /\ Len(c.related) <= MaxRelated
    /\ \A j, k \in 1 .. Len(c.related) : c.related[j].issue = c.related[k].issue => j = k
    /\ c.major \in Seq(Further) /\ Len(c.major) \in Nat /\ Len(c.major) <= MaxMajor
    /\ \A j, k \in 1 .. Len(c.major) : c.major[j] = c.major[k] => j = k
    /\ ToSet(c.major) \cap IssuesOf(c.related) = {}

RowsEnough(rows, S, sources) ==
    /\ rows \in SUBSET S
    /\ ToSet(Nearest(sources \X (S \cap Embedded), MaxRelated)) \subseteq rows
    /\ \A k \in DOMAIN majorCategoryCodes :
          RowsOfCategory(majorCategoryCodes[k], S) \subseteq rows

\* A sequence over a set is one over any greater set.
LEMMA SeqOfMore ==
    ASSUME NEW E, NEW F, E \subseteq F, NEW s \in Seq(E)
    PROVE  s \in Seq(F)
BY SMT

\* The rows that are read for a report hold the first of each category.
LEMMA RowsHold ==
    ASSUME LikenessType, input \in SUBSET Sources, NEW S \in SUBSET Further,
           NEW sources \in SUBSET input
    PROVE  RowsEnough(CandidateRows(S, sources), S, sources)
<1> DEFINE rows == CandidateRows(S, sources)
           N == NearPairs(S, sources)
           near == ToSet(Nearest(N, TopRelated))
           codes == ToSet(majorCategoryCodes)
<1>1. rows = near \cup UNION {RowsOfCategory(c, S) : c \in codes}
  BY DEF CandidateRows
<1>2. near \subseteq S
  <2>1. N \in SUBSET (sources \X (S \cap Embedded))
    BY NearPairsAre
  <2>2. N \in SUBSET (Sources \X Further) /\ IssuesIn(N) \subseteq S
    BY <2>1 DEF IssuesIn
  <2> HIDE DEF N
  <2>3. IsFiniteSet(IssuesIn(N)) /\ Orders(CloserIn(N), IssuesIn(N)) /\ TopRelated \in Nat
    BY <2>2, PairsAre, CloserOrders, ReportLimits
  <2>4. IsFirst(Nearest(N, TopRelated), IssuesIn(N), TopRelated, CloserIn(N))
    BY <2>2, <2>3, NearestIs
  <2>5. near \subseteq IssuesIn(N) /\ TopRelated <= TopRelated
    BY <2>3, <2>4, FirstGrows
  <2>6. QED
    BY <2>2, <2>5
<1>3. \A c : RowsOfCategory(c, S) \subseteq S
  <2>1. ASSUME NEW c PROVE RowsOfCategory(c, S) \subseteq S
    <3> DEFINE T == NotableOf(c, S)
    <3>1. RowsOfCategory(c, S) \in SUBSET T
      BY RowsOfCategoryIs
    <3>2. T \subseteq S
      BY DEF NotableOf
    <3>3. QED
      BY <3>1, <3>2
  <2>2. QED
    BY <2>1
<1>4. ToSet(Nearest(sources \X (S \cap Embedded), MaxRelated)) \subseteq near
  BY RowsHoldNearest
<1>5. \A k \in DOMAIN majorCategoryCodes : majorCategoryCodes[k] \in codes
  BY DEF ToSet
<1> HIDE DEF near, codes, rows
<1>6. RowsEnough(rows, S, sources)
  BY <1>1, <1>2, <1>3, <1>4, <1>5 DEF RowsEnough
<1>7. QED
  BY <1>6 DEF rows

MajorsGood(m, left) ==
    /\ m \in Seq(left) /\ Len(m) \in Nat /\ Len(m) <= MaxMajor
    /\ \A s, t \in 1 .. Len(m) : m[s] = m[t] => s = t

\* The same of what is selected, in a word.
LEMMA SelectedGood ==
    ASSUME input \in SUBSET Sources, NEW rows \in SUBSET Further, NEW chosen
    PROVE  MajorsGood(selectMajorIssues(rows, chosen), rows \ chosen)
BY SelectedAre DEF MajorsGood

\* The candidates are those chosen from everything, and fit to be recommended.
LEMMA CapturedAreBest ==
    ASSUME LikenessType, input \in SUBSET Sources, NEW S \in SUBSET Further,
           NEW sources \in SUBSET input, NEW found,
           found = CandidatesFrom(CandidateRows(S, sources), sources),
           NEW all, all = Nearest(sources \X (S \cap Embedded), MaxRelated)
    PROVE  /\ IssuesOfEach(found.related) = all
           /\ found.major = selectMajorIssues(S, ToSet(all))
           /\ CandidatesGood(found, input)
<1> DEFINE rows == CandidateRows(S, sources)
           r == SelectRelated(rows, sources)
<1>1. /\ rows \in SUBSET S /\ ToSet(all) \subseteq rows
      /\ \A k \in DOMAIN majorCategoryCodes :
            RowsOfCategory(majorCategoryCodes[k], S) \subseteq rows
  BY RowsHold DEF RowsEnough
<1>2. found.related = r /\ found.major = selectMajorIssues(rows, IssuesOf(r))
  BY DEF CandidatesFrom
<1> HIDE DEF rows
<1>3. sources \in SUBSET Sources /\ rows \in SUBSET Further
  BY <1>1
<1>4. Nearest(NearPairs(rows, sources), MaxRelated) = all
  BY <1>1, <1>3, NearPairsSuffice
<1>5. /\ RelatedGood(r, rows, sources) /\ IssuesOfEach(r) = all /\ IssuesOf(r) = ToSet(all)
      /\ IsFiniteSet(ToSet(all)) /\ Cardinality(ToSet(all)) <= MaxRelated
  <2>1. /\ RelatedGood(r, rows, sources)
        /\ IssuesOfEach(r) = Nearest(NearPairs(rows, sources), MaxRelated)
        /\ IssuesOf(r) = ToSet(Nearest(NearPairs(rows, sources), MaxRelated))
        /\ IsFiniteSet(IssuesOf(r)) /\ Cardinality(IssuesOf(r)) <= MaxRelated
    BY <1>3, SelectRelatedIs
  <2>2. QED
    BY <1>4, <2>1
<1> HIDE DEF r
<1>6. selectMajorIssues(rows, ToSet(all)) = selectMajorIssues(S, ToSet(all))
  BY <1>1, <1>5, RowsSuffice
<1>7. /\ found.major \in Seq(rows \ IssuesOf(r)) /\ Len(found.major) \in Nat
      /\ Len(found.major) <= MaxMajor
      /\ \A s, t \in 1 .. Len(found.major) : found.major[s] = found.major[t] => s = t
  <2> DEFINE chosen == IssuesOf(r)
  <2>1. found.major = selectMajorIssues(rows, chosen)
    BY <1>2
  <2> HIDE DEF chosen
  <2>2. MajorsGood(selectMajorIssues(rows, chosen), rows \ chosen)
    BY <1>3, SelectedGood
  <2>3. MajorsGood(found.major, rows \ chosen)
    BY <2>1, <2>2
  <2>4. QED
    BY <2>3 DEF MajorsGood, chosen
<1>8. /\ found.related \in Seq(RelatedFor(input)) /\ Len(found.related) \in Nat
      /\ Len(found.related) <= MaxRelated
      /\ \A j, k \in 1 .. Len(found.related) :
            found.related[j].issue = found.related[k].issue => j = k
  <2>1. [issue : rows, source : sources] \subseteq RelatedFor(input)
    BY <1>3 DEF RelatedFor
  <2>2. r \in Seq([issue : rows, source : sources])
    BY <1>5 DEF RelatedGood
  <2>3. r \in Seq(RelatedFor(input))
    BY <2>1, <2>2, SeqOfMore
  <2>4. QED
    BY <1>2, <1>5, <2>3 DEF RelatedGood
<1>9. found.major \in Seq(Further) /\ ToSet(found.major) \cap IssuesOf(found.related) = {}
  <2>1. \A s \in DOMAIN found.major : found.major[s] \in rows \ IssuesOf(r)
    BY <1>7
  <2>2. rows \ IssuesOf(r) \subseteq Further
    BY <1>3
  <2>3. found.major \in Seq(Further)
    BY <1>7, <2>2
  <2>4. QED
    BY <1>2, <2>1, <2>3 DEF ToSet
<1>10. CandidatesGood(found, input)
  BY <1>7, <1>8, <1>9 DEF CandidatesGood
<1>11. QED
  BY <1>2, <1>5, <1>6, <1>10

\* Entries of a sequence, each place once; as many as it has only if they are it.
KeptIn(e, s, places) ==
    /\ Len(e) \in Nat /\ Len(e) <= Len(s) /\ DOMAIN e = 1 .. Len(e)
    /\ \E from \in [1 .. Len(e) -> places] :
          /\ \A k \in 1 .. Len(e) : e[k] = s[from[k]]
          /\ \A j, k \in 1 .. Len(e) : from[j] = from[k] => j = k
    /\ Len(e) = Len(s) => e = s

\* What a filter keeps.
LEMMA EntriesKept ==
    ASSUME NEW E, NEW s \in Seq(E), NEW places \in SUBSET (1 .. Len(s))
    PROVE  Entries(s, places) \in Seq(E) /\ KeptIn(Entries(s, places), s, places)
<1> DEFINE e == Entries(s, places)
           n == Cardinality(places)
<1>1. /\ n \in Nat /\ n <= Len(s) /\ e \in Seq(E) /\ Len(e) = n /\ InTheirOrder(s, places)
      /\ (\E p \in 1 .. Len(s) : p \notin places) => n < Len(s)
  BY EntriesAre
<1>2. \E from \in [1 .. n -> places] :
          /\ \A k \in 1 .. n : e[k] = s[from[k]]
          /\ \A j, k \in 1 .. n : from[j] = from[k] => j = k
  <2>1. PICK from \in [1 .. n -> places] :
            /\ \A k \in 1 .. n : e[k] = s[from[k]]
            /\ \A j, k \in 1 .. n : j < k => from[j] < from[k]
    BY <1>1 DEF InTheirOrder
  <2> HIDE DEF n
  <2>2. ASSUME NEW j \in 1 .. n, NEW k \in 1 .. n, from[j] = from[k] PROVE j = k
    <3>0. from[j] \in places /\ from[k] \in places /\ n \in Nat
      BY <1>1
    <3>1. \A p \in places : p \in Nat
      OBVIOUS
    <3>2. from[j] \in Nat /\ from[k] \in Nat /\ j \in Nat /\ k \in Nat
      <4>1. from[j] \in Nat /\ from[k] \in Nat
        BY <3>0, <3>1
      <4>2. j \in Nat /\ k \in Nat
        BY <3>0
      <4>3. QED
        BY <4>1, <4>2
    <3>3. ~(j < k) /\ ~(k < j)
      BY <2>1, <2>2, <3>2
    <3>4. QED
      BY <3>2, <3>3
  <2>3. QED
    BY <2>1, <2>2
<1>3. ASSUME n = Len(s) PROVE e = s
  <2>1. places = 1 .. n /\ n \in Nat
    <3>1. n \in Nat /\ n = Len(s) /\ ((\E p \in 1 .. Len(s) : p \notin places) => n < Len(s))
      BY <1>1, <1>3
    <3> HIDE DEF n
    <3>2. ~ \E p \in 1 .. Len(s) : p \notin places
      BY <3>1
    <3>3. QED
      BY <3>1, <3>2
  <2>2. e = [k \in 1 .. n |-> s[CHOOSE p \in places : Cardinality({q \in places : q < p}) = k - 1]]
    BY DEF Entries
  <2>3. s = [k \in 1 .. n |-> s[k]]
    BY <1>3
  <2> HIDE DEF n
  <2>4. ASSUME NEW p \in 1 .. n PROVE Cardinality({q \in places : q < p}) = p - 1
    <3>1. {q \in places : q < p} = 1 .. (p - 1)
      BY <2>1
    <3>2. Cardinality(1 .. (p - 1)) = p - 1
      <4>1. p - 1 \in Int /\ ~(1 > p - 1 /\ p - 1 # 0)
        BY <2>1
      <4>2. Cardinality(1 .. (p - 1)) = IF 1 > p - 1 THEN 0 ELSE p - 1 - 1 + 1
        BY <4>1, FS_Interval
      <4>3. QED
        BY <4>1, <4>2
    <3>3. QED
      BY <3>1, <3>2
  <2>5. ASSUME NEW k \in 1 .. n
        PROVE  (CHOOSE p \in places : Cardinality({q \in places : q < p}) = k - 1) = k
    <3>1. k \in places /\ \A p \in places : Cardinality({q \in places : q < p}) = k - 1 <=> p = k
      BY <2>1, <2>4
    <3>2. QED
      BY <3>1
  <2>6. QED
    BY <2>2, <2>3, <2>5
<1> HIDE DEF e
<1>4. DOMAIN e = 1 .. Len(e)
  BY <1>1
<1>5. KeptIn(e, s, places)
  <2> HIDE DEF n
  <2>1. Len(e) = n /\ n \in Nat /\ n <= Len(s)
    BY <1>1
  <2>2. \E from \in [1 .. Len(e) -> places] :
            /\ \A k \in 1 .. Len(e) : e[k] = s[from[k]]
            /\ \A j, k \in 1 .. Len(e) : from[j] = from[k] => j = k
    BY <1>2, <2>1, Zenon
  <2>3. Len(e) = Len(s) => e = s
    BY <1>3, <2>1
  <2>4. QED
    BY <1>4, <2>1, <2>2, <2>3, Zenon DEF KeptIn
<1>6. QED
  BY <1>1, <1>5 DEF e

\* What is kept was there, and nothing is there twice that was not.
LEMMA KeptIsThere ==
    ASSUME NEW e, NEW s, NEW places \in SUBSET (1 .. Len(s)), KeptIn(e, s, places),
           DOMAIN s = 1 .. Len(s)
    PROVE  /\ \A k \in 1 .. Len(e) : \E p \in places : e[k] = s[p]
           /\ ToSet(e) \subseteq ToSet(s)
           /\ ToSet(e) \subseteq {s[p] : p \in places}
           /\ (\A j, k \in 1 .. Len(s) : s[j] = s[k] => j = k)
                => \A j, k \in 1 .. Len(e) : e[j] = e[k] => j = k
           /\ (\A j, k \in 1 .. Len(s) : s[j].issue = s[k].issue => j = k)
                => \A j, k \in 1 .. Len(e) : e[j].issue = e[k].issue => j = k
<1>1. PICK from \in [1 .. Len(e) -> places] :
          /\ \A k \in 1 .. Len(e) : e[k] = s[from[k]]
          /\ \A j, k \in 1 .. Len(e) : from[j] = from[k] => j = k
  BY ZenonT(30) DEF KeptIn
<1>2. DOMAIN e = 1 .. Len(e)
  BY DEF KeptIn
<1>3. \A k \in 1 .. Len(e) : \E p \in places : e[k] = s[p]
  BY <1>1
<1>4. \A x \in ToSet(e) : \E p \in places : x = s[p]
  BY <1>2, <1>3 DEF ToSet
<1>5. ToSet(e) \subseteq ToSet(s) /\ ToSet(e) \subseteq {s[p] : p \in places}
  BY <1>4 DEF ToSet
<1>6. ASSUME \A j, k \in 1 .. Len(s) : s[j] = s[k] => j = k,
             NEW j \in 1 .. Len(e), NEW k \in 1 .. Len(e), e[j] = e[k]
      PROVE  j = k
  <2>1. from[j] \in 1 .. Len(s) /\ from[k] \in 1 .. Len(s) /\ s[from[j]] = s[from[k]]
    BY <1>1, <1>6
  <2>2. from[j] = from[k]
    BY <1>6, <2>1
  <2>3. QED
    BY <1>1, <2>2
<1>7. ASSUME \A j, k \in 1 .. Len(s) : s[j].issue = s[k].issue => j = k,
             NEW j \in 1 .. Len(e), NEW k \in 1 .. Len(e), e[j].issue = e[k].issue
      PROVE  j = k
  <2>1. /\ from[j] \in 1 .. Len(s) /\ from[k] \in 1 .. Len(s)
        /\ s[from[j]].issue = s[from[k]].issue
    BY <1>1, <1>7
  <2>2. from[j] = from[k]
    BY <1>7, <2>1
  <2>3. QED
    BY <1>1, <2>2
<1>8. QED
  BY <1>3, <1>5, <1>6, <1>7

Within(c, d, i) ==
    /\ CandidatesGood(c, i)
    /\ ToSet(c.related) \subseteq ToSet(d.related)
    /\ ToSet(c.major) \subseteq ToSet(d.major)

\* Candidates are within themselves.
LEMMA WithinItself == ASSUME NEW c, NEW i, CandidatesGood(c, i) PROVE Within(c, c, i)
BY DEF Within

\* The candidates that are still seen are some of them, and each is available.
LEMMA VisibleIs ==
    ASSUME NEW c, NEW d, NEW i, Within(c, d, i), NEW look
    PROVE  /\ Within(Visible(c, look), d, i)
           /\ \A x \in IssuesOf(Visible(c, look).related) \cup ToSet(Visible(c, look).major) :
                  Available(x, look)
<1> DEFINE rs == c.related
           ms == c.major
           rp == {k \in DOMAIN rs : Available(rs[k].issue, look)}
           mp == {k \in DOMAIN ms : Available(ms[k], look)}
           re == Entries(rs, rp)
           me == Entries(ms, mp)
           v == Visible(c, look)
<1>1. v.related = re /\ v.major = me
  BY DEF Visible
<1>2. /\ rs \in Seq(RelatedFor(i)) /\ Len(rs) \in Nat /\ Len(rs) <= MaxRelated
      /\ \A j, k \in 1 .. Len(rs) : rs[j].issue = rs[k].issue => j = k
      /\ ms \in Seq(Further) /\ Len(ms) \in Nat /\ Len(ms) <= MaxMajor
      /\ \A j, k \in 1 .. Len(ms) : ms[j] = ms[k] => j = k
      /\ ToSet(ms) \cap IssuesOf(rs) = {}
  BY DEF Within, CandidatesGood
<1>3. DOMAIN rs = 1 .. Len(rs) /\ DOMAIN ms = 1 .. Len(ms)
  BY <1>2
<1>4. /\ rp \in SUBSET (1 .. Len(rs)) /\ \A k \in rp : Available(rs[k].issue, look)
      /\ mp \in SUBSET (1 .. Len(ms)) /\ \A k \in mp : Available(ms[k], look)
  BY <1>3
<1> HIDE DEF rp, mp, v
<1>5. re \in Seq(RelatedFor(i)) /\ KeptIn(re, rs, rp) /\ me \in Seq(Further) /\ KeptIn(me, ms, mp)
  BY <1>2, <1>4, EntriesKept
<1> HIDE DEF re, me, rs, ms
<1>6. /\ Len(re) \in Nat /\ Len(re) <= Len(rs) /\ Len(me) \in Nat /\ Len(me) <= Len(ms)
      /\ DOMAIN re = 1 .. Len(re) /\ DOMAIN me = 1 .. Len(me)
  BY <1>5 DEF KeptIn
<1>7. /\ \A k \in 1 .. Len(re) : \E p \in rp : re[k] = rs[p]
      /\ ToSet(re) \subseteq ToSet(rs)
      /\ \A j, k \in 1 .. Len(re) : re[j].issue = re[k].issue => j = k
  BY <1>2, <1>3, <1>4, <1>5, KeptIsThere, ZenonT(60)
<1>8. /\ \A k \in 1 .. Len(me) : \E p \in mp : me[k] = ms[p]
      /\ ToSet(me) \subseteq ToSet(ms)
      /\ \A j, k \in 1 .. Len(me) : me[j] = me[k] => j = k
  BY <1>2, <1>3, <1>4, <1>5, KeptIsThere, ZenonT(60)
<1>9. IssuesOf(re) \subseteq IssuesOf(rs)
  <2>1. \A k \in 1 .. Len(re) : \E p \in DOMAIN rs : re[k].issue = rs[p].issue
    BY <1>3, <1>4, <1>7
  <2>2. QED
    BY <1>6, <2>1 DEF IssuesOf
<1>10. Len(re) <= MaxRelated /\ Len(me) <= MaxMajor
  BY <1>2, <1>6, ReportLimits
<1>11. CandidatesGood(v, i)
  <2>1. ToSet(me) \cap IssuesOf(re) = {}
    BY <1>2, <1>8, <1>9
  <2>2. QED
    BY <1>1, <1>5, <1>6, <1>7, <1>8, <1>10, <2>1 DEF CandidatesGood
<1>12. ToSet(rs) \subseteq ToSet(d.related) /\ ToSet(ms) \subseteq ToSet(d.major)
  BY DEF Within, rs, ms
<1>13. Within(v, d, i)
  BY <1>1, <1>7, <1>8, <1>11, <1>12 DEF Within
<1>14. \A x \in IssuesOf(re) \cup ToSet(me) : Available(x, look)
  <2>1. \A k \in 1 .. Len(re) : Available(re[k].issue, look)
    BY <1>4, <1>7
  <2>2. \A k \in 1 .. Len(me) : Available(me[k], look)
    BY <1>4, <1>8
  <2>3. QED
    BY <1>6, <2>1, <2>2 DEF IssuesOf, ToSet
<1>15. QED
  BY <1>1, <1>13, <1>14 DEF v

-----------------------------------------------------------------------------
(* What a report says: the content.                                        *)

DraftShape(d) ==
    d.connections \in Seq(Seq(Nat)) /\ d.related \in Seq([issue : Nat, source : Nat])

ContentGood(content, i) ==
    /\ content.connections \in Seq(Seq(Nat))
    /\ content.evidence
         = (UNION {ToSet(content.connections[k]) : k \in DOMAIN content.connections}) \cap i
    /\ content.related \in Seq(RelatedFor(i))
    /\ content.major \in Seq(Further)

\* As many issues as entries: none is recommended twice.
LEMMA IssuesHeld ==
    ASSUME NEW r, Len(r) \in Nat, DOMAIN r = 1 .. Len(r)
    PROVE  Cardinality(IssuesOf(r)) = Len(r)
             <=> \A j, k \in 1 .. Len(r) : r[j].issue = r[k].issue => j = k
<1> DEFINE n == Len(r)
           f == [k \in 1 .. n |-> r[k].issue]
<1>1. n \in Nat /\ IssuesOf(r) = {f[k] : k \in 1 .. n}
  BY DEF IssuesOf
<1>2. \A k \in 1 .. n : f[k] = r[k].issue
  OBVIOUS
<1> HIDE DEF f, n
<1>3. Cardinality({f[k] : k \in 1 .. n}) = n <=> \A j, k \in 1 .. n : f[j] = f[k] => j = k
  BY <1>1, HeldBy
<1>4. QED
  BY <1>1, <1>2, <1>3 DEF n

\* What a checked draft recommends are candidates, none of them twice.
LEMMA DraftRelated ==
    ASSUME NEW c, NEW i, CandidatesGood(c, i), NEW r \in Seq([issue : Nat, source : Nat]),
           \A k \in DOMAIN r : ValidRelated(r[k], c),
           Cardinality(IssuesOf(r)) = Len(r)
    PROVE  /\ r \in Seq(RelatedFor(i)) /\ Len(r) \in Nat /\ DOMAIN r = 1 .. Len(r)
           /\ \A j, k \in 1 .. Len(r) : r[j].issue = r[k].issue => j = k
<1>1. Len(r) \in Nat /\ DOMAIN r = 1 .. Len(r) /\ r = [k \in 1 .. Len(r) |-> r[k]]
  OBVIOUS
<1>2. \A x \in ToSet(c.related) : x \in RelatedFor(i)
  BY DEF CandidatesGood, ToSet
<1>3. \A k \in 1 .. Len(r) : r[k] \in RelatedFor(i)
  BY <1>1, <1>2 DEF ValidRelated
<1>4. r \in Seq(RelatedFor(i))
  <2> DEFINE n == Len(r)
  <2>1. n \in Nat /\ \A k \in 1 .. n : r[k] \in RelatedFor(i)
    BY <1>1, <1>3
  <2>2. r = [k \in 1 .. n |-> r[k]]
    BY <1>1
  <2> DEFINE S == RelatedFor(i)
  <2>3. n \in Nat /\ \A k \in 1 .. n : r[k] \in S
    BY <2>1
  <2> HIDE DEF n, S
  <2>4. [k \in 1 .. n |-> r[k]] \in Seq(S)
    BY <2>3, IsASeq
  <2>5. r \in Seq(S)
    BY <2>2, <2>4
  <2>6. QED
    BY <2>5 DEF S
<1>5. \A j, k \in 1 .. Len(r) : r[j].issue = r[k].issue => j = k
  BY <1>1, IssuesHeld
<1>6. QED
  BY <1>1, <1>4, <1>5

\* The places of those that are candidates still.
StillRecommended(r, v) == {k \in DOMAIN r : r[k].issue \in IssuesOf(v.related)}

\* Of the recommended issues those stay that are candidates still.
LEMMA RelatedBuilt ==
    ASSUME NEW i, NEW v, NEW d, Within(v, d, i),
           NEW r \in Seq(RelatedFor(i)), Len(r) \in Nat, DOMAIN r = 1 .. Len(r),
           \A j, k \in 1 .. Len(r) : r[j].issue = r[k].issue => j = k,
           NEW e, e = Entries(r, StillRecommended(r, v))
    PROVE  /\ e \in Seq(RelatedFor(i)) /\ Len(e) \in Nat /\ Len(e) <= Len(r)
           /\ DOMAIN e = 1 .. Len(e)
           /\ \A k \in 1 .. Len(e) : e[k].issue \in IssuesOf(v.related)
           /\ \A k \in 1 .. Len(e) : e[k].issue \in Further /\ e[k].source \in i
           /\ IssuesOf(e) \subseteq IssuesOf(v.related)
           /\ IssuesOf(v.related) \subseteq IssuesOf(d.related)
           /\ Cardinality(IssuesOf(e)) = Len(e)
<1> DEFINE q == StillRecommended(r, v)
<1>1. q \in SUBSET (1 .. Len(r)) /\ \A k \in q : r[k].issue \in IssuesOf(v.related)
  BY DEF StillRecommended
<1> HIDE DEF q
<1>2. e \in Seq(RelatedFor(i)) /\ KeptIn(e, r, q)
  <2>1. Entries(r, q) \in Seq(RelatedFor(i)) /\ KeptIn(Entries(r, q), r, q)
    BY <1>1, EntriesKept
  <2>2. e = Entries(r, q)
    BY ZenonT(30) DEF q
  <2>3. QED
    BY <2>1, <2>2
<1>3. Len(e) \in Nat /\ Len(e) <= Len(r) /\ DOMAIN e = 1 .. Len(e)
  BY <1>2 DEF KeptIn
<1>4. /\ \A k \in 1 .. Len(e) : \E p \in q : e[k] = r[p]
      /\ \A j, k \in 1 .. Len(e) : e[j].issue = e[k].issue => j = k
  BY <1>1, <1>2, KeptIsThere
<1>5. \A k \in 1 .. Len(e) : e[k].issue \in IssuesOf(v.related)
  BY <1>1, <1>4
<1>6. \A k \in 1 .. Len(e) : e[k].issue \in Further /\ e[k].source \in i
  <2>1. \A k \in 1 .. Len(e) : e[k] \in RelatedFor(i)
    BY <1>2, <1>3
  <2>2. \A x \in RelatedFor(i) : x.issue \in Further /\ x.source \in i
    BY DEF RelatedFor
  <2>3. QED
    BY <2>1, <2>2
<1>7. IssuesOf(e) \subseteq IssuesOf(v.related)
  BY <1>3, <1>5 DEF IssuesOf
<1>8. IssuesOf(v.related) \subseteq IssuesOf(d.related)
  <2>1. \A x \in ToSet(v.related) : x \in ToSet(d.related)
    BY DEF Within
  <2>2. \A k \in DOMAIN v.related : \E j \in DOMAIN d.related : v.related[k] = d.related[j]
    BY <2>1 DEF ToSet
  <2>3. QED
    BY <2>2 DEF IssuesOf
<1>9. Cardinality(IssuesOf(e)) = Len(e)
  BY <1>3, <1>4, IssuesHeld
<1>10. QED
  BY <1>2, <1>3, <1>5, <1>6, <1>7, <1>8, <1>9

\* What the worker builds of a checked draft recommends what is available, and is
\* what complete accepts.
LEMMA ContentBuilt ==
    ASSUME input \in SUBSET Sources, NEW c, NEW d, Within(c, d, input), CandidatesGood(d, input),
           NEW draft, DraftShape(draft), validateReportDraft(draft, c), NEW look,
           NEW content, content = buildReportContent(Visible(c, look), draft)
    PROVE  /\ ContentGood(content, input)
           /\ validateReportContent(content, d)
           /\ \A x \in IssuesOf(content.related) \cup ToSet(content.major) : Available(x, look)
<1> DEFINE v == Visible(c, look)
           r == draft.related
           e == Entries(r, StillRecommended(r, v))
           cs == draft.connections
<1>1. /\ content.connections = cs /\ content.related = e /\ content.major = v.major
      /\ content.status = IF ~AllowConnections THEN "INSUFFICIENT_DATA"
                          ELSE IF cs = <<>> THEN "NO_CONNECTION" ELSE "READY"
  BY DEF buildReportContent, StillRecommended
<1>0. content.evidence
        = (UNION {ToSet(content.connections[k]) : k \in DOMAIN content.connections}) \cap input
  BY DEF buildReportContent
<1>20. content.evidence \subseteq input
  <2> DEFINE U == UNION {ToSet(content.connections[k]) : k \in DOMAIN content.connections}
  <2>1. content.evidence = U \cap input
    BY <1>0
  <2> HIDE DEF U
  <2>2. QED
    BY <2>1
<1>2. /\ Within(v, d, input)
      /\ \A x \in IssuesOf(v.related) \cup ToSet(v.major) : Available(x, look)
  BY VisibleIs
<1>3. /\ cs \in Seq(Seq(Nat)) /\ r \in Seq([issue : Nat, source : Nat])
      /\ Len(cs) <= MaxConnections /\ Len(r) <= MaxRelated
      /\ cs # <<>> => AllowConnections
      /\ \A k \in DOMAIN cs : ValidConnection(cs[k])
      /\ \A k \in DOMAIN r : ValidRelated(r[k], c)
      /\ Cardinality(IssuesOf(r)) = Len(r)
  BY DEF DraftShape, validateReportDraft
<1>4. CandidatesGood(c, input)
  BY DEF Within
<1> HIDE DEF v, r, cs
<1>5. /\ r \in Seq(RelatedFor(input)) /\ Len(r) \in Nat /\ DOMAIN r = 1 .. Len(r)
      /\ \A j, k \in 1 .. Len(r) : r[j].issue = r[k].issue => j = k
  BY <1>3, <1>4, DraftRelated
<1> HIDE DEF e
<1>6. /\ e \in Seq(RelatedFor(input)) /\ Len(e) \in Nat /\ Len(e) <= Len(r)
      /\ DOMAIN e = 1 .. Len(e)
      /\ \A k \in 1 .. Len(e) : e[k].issue \in IssuesOf(v.related)
      /\ \A k \in 1 .. Len(e) : e[k].issue \in Further /\ e[k].source \in input
      /\ IssuesOf(e) \subseteq IssuesOf(v.related)
      /\ IssuesOf(v.related) \subseteq IssuesOf(d.related)
      /\ Cardinality(IssuesOf(e)) = Len(e)
  <2>1. e = Entries(r, StillRecommended(r, v))
    BY DEF e
  <2>2. QED
    BY <1>2, <1>5, <2>1, RelatedBuilt
<1>7. /\ v.major \in Seq(Further) /\ Len(v.major) <= MaxMajor
      /\ \A j, k \in 1 .. Len(v.major) : v.major[j] = v.major[k] => j = k
      /\ ToSet(v.major) \subseteq ToSet(d.major) /\ ToSet(v.major) \subseteq Further
  <2>1. CandidatesGood(v, input) /\ ToSet(v.major) \subseteq ToSet(d.major)
    BY <1>2 DEF Within
  <2>2. /\ v.major \in Seq(Further) /\ Len(v.major) <= MaxMajor
        /\ \A j, k \in 1 .. Len(v.major) : v.major[j] = v.major[k] => j = k
    BY <2>1 DEF CandidatesGood
  <2>3. ToSet(v.major) \subseteq Further
    BY <2>2 DEF ToSet
  <2>4. QED
    BY <2>1, <2>2, <2>3
<1>8. ContentGood(content, input)
  BY <1>0, <1>1, <1>3, <1>6, <1>7 DEF ContentGood
<1>9. \A x \in IssuesOf(content.related) \cup ToSet(content.major) : Available(x, look)
  BY <1>1, <1>2, <1>6
<1>10. Further \cap input = {}
  BY ReportContentAssumption
<1>11. IF content.status = "READY" THEN Len(content.connections) \in 1 .. MaxConnections
       ELSE content.connections = <<>>
  <2>1. Len(cs) \in Nat /\ MaxConnections \in Nat /\ (cs # <<>> => Len(cs) # 0)
    BY <1>3, ReportLimits
  <2>2. cs # <<>> => Len(cs) \in 1 .. MaxConnections
    BY <1>3, <2>1
  <2>3. content.status = "READY" <=> cs # <<>>
    BY <1>1, <1>3
  <2>4. QED
    BY <1>1, <2>2, <2>3
<1>12. /\ content.evidence \subseteq input
       /\ \A k \in DOMAIN content.connections : ValidConnection(content.connections[k])
  <2>1. content.evidence \subseteq input /\ content.connections = cs
    BY <1>1, <1>20
  <2>2. \A k \in DOMAIN cs : ValidConnection(cs[k])
    BY <1>3
  <2>3. QED
    BY <2>1, <2>2
<1>13. \A k \in DOMAIN content.related :
         /\ content.related[k].issue \in IssuesOf(d.related) \ input
         /\ content.related[k].source \in input
  BY <1>1, <1>6, <1>10
<1>14. /\ Cardinality(IssuesOf(content.related)) = Len(content.related)
       /\ Len(content.related) <= MaxRelated
  BY <1>1, <1>3, <1>5, <1>6, ReportLimits
<1>15. ToSet(content.major)
         \subseteq ToSet(d.major) \ (input \cup IssuesOf(content.related))
  <2>1. ToSet(d.major) \cap IssuesOf(d.related) = {}
    BY DEF CandidatesGood
  <2>2. QED
    BY <1>1, <1>6, <1>7, <1>10, <2>1
<1>16. IsInjective(content.major) /\ Len(content.major) <= MaxMajor
  <2>1. DOMAIN v.major = 1 .. Len(v.major)
    BY <1>7
  <2>2. QED
    BY <1>1, <1>7, <2>1 DEF IsInjective
<1>17. validateReportContent(content, d)
  BY <1>11, <1>12, <1>13, <1>14, <1>15, <1>16 DEF validateReportContent
<1>18. QED
  BY <1>8, <1>9, <1>17

-----------------------------------------------------------------------------
(* What a report says: from the capture to the answer.                     *)

Given ==
    /\ input \in Inputs /\ likeness \in Likenesses
    /\ readable \subseteq Sources \cup Further /\ actedOn \subseteq Further
    /\ shifts \in 0 .. MaxShifts

StoredPart ==
    /\ stored = [candidates |-> stored.candidates, content |-> stored.content]
    /\ stored.candidates = Nil \/ CandidatesGood(stored.candidates, input)
    /\ stored.content = Nil \/ ContentGood(stored.content, input)
    /\ CandidatesAreBest

\* Candidates are held from the first look on.
Holding == run.pc \in {"FirstLook", "Draft", "SecondLook", "Complete"}

RunPart ==
    /\ run = [pc |-> run.pc, tries |-> run.tries, sources |-> run.sources, look |-> run.look,
              candidates |-> run.candidates, draft |-> run.draft, content |-> run.content]
    /\ run.tries \in 1 .. MaxTries
    /\ run.pc = "Rows" => run.sources \subseteq input
    /\ Holding => /\ CandidatesGood(stored.candidates, input)
                  /\ Within(run.candidates, stored.candidates, input)
    /\ run.pc = "SecondLook" => /\ DraftShape(run.draft)
                                /\ validateReportDraft(run.draft, run.candidates)
    /\ run.pc = "Complete" => ContentGood(run.content, input)
    /\ AcceptedIsStorable
    /\ RecommendsAvailable

GetPart ==
    /\ get = [pc |-> get.pc, look |-> get.look, content |-> get.content, before |-> get.before,
              answer |-> get.answer]
    /\ get.pc \in {"idle", "look", "done"}
    /\ get.pc = "look" =>
          /\ get.look = [public |-> get.look.public, acted |-> get.look.acted]
          /\ ContentGood(get.content, input)
          /\ readable \subseteq get.before
          /\ get.look.public = Nil \/ get.look.public \subseteq get.before
    /\ AnswerIsPublic

ContentInv == Given /\ StoredPart /\ RunPart /\ GetPart

\* The invariant is what the report's properties say, and more.
LEMMA ContentInvImplies == ContentInv => ReportContentSound
BY DEF ContentInv, Given, StoredPart, RunPart, GetPart, ReportContentSound, ContentTypeOK

\* What is given of the input and the similarities.
LEMMA GivenIs ==
    ASSUME Given
    PROVE  LikenessType /\ input \in SUBSET Sources
<1>1. input \in SUBSET Sources
  BY DEF Given, Sources
<1>2. LikenessType
  BY ReportContentAssumption DEF Given, LikenessType
<1>3. QED
  BY <1>1, <1>2

\* The nearest stay the nearest while the similarities stay.
LEMMA NearestStays ==
    ASSUME likeness' = likeness, NEW CONSTANT P, NEW CONSTANT n
    PROVE  Nearest(P, n)' = Nearest(P, n)
BY DEF Nearest, First, Closer, Nearness

\* The turns of the categories stay theirs while the input stays.
LEMMA MajorsStay ==
    ASSUME input' = input, NEW CONSTANT rows, NEW CONSTANT chosen
    PROVE  selectMajorIssues(rows, chosen)' = selectMajorIssues(rows, chosen)
<1>1. majorCategoryCodes' = majorCategoryCodes
  BY DEF majorCategoryCodes, First, CountIn
<1>2. QED
  BY <1>1 DEF selectMajorIssues, First

\* What was best for the capture stays so.
LEMMA BestStays ==
    ASSUME CandidatesAreBest, UNCHANGED <<input, likeness, capture>>,
           stored'.candidates = stored.candidates
    PROVE  CandidatesAreBest'
<1> SUFFICES ASSUME stored.candidates # Nil PROVE CandidatesAreBest'
  BY DEF CandidatesAreBest
<1> DEFINE S == capture.eligible
           sources == capture.sources
           pairs == sources \X (S \cap Embedded)
           all == Nearest(pairs, MaxRelated)
<1>1. /\ IssuesOfEach(stored.candidates.related) = all
      /\ stored.candidates.major = selectMajorIssues(S, ToSet(all))
  BY DEF CandidatesAreBest, IssuesOfEach
<1>2. Nearest(pairs, MaxRelated)' = Nearest(pairs, MaxRelated)
  BY NearestStays
<1>3. QED
  BY <1>1, <1>2, MajorsStay DEF CandidatesAreBest, IssuesOfEach

\* What is given holds on while it stays.
LEMMA GivenStays ==
    ASSUME Given, UNCHANGED <<input, likeness, readable, actedOn, shifts>>
    PROVE  Given'
BY DEF Given

\* What holds of the row holds on while the row stays.
LEMMA StoredStays ==
    ASSUME StoredPart, UNCHANGED <<input, likeness, stored, capture>>
    PROVE  StoredPart'
<1>1. CandidatesAreBest'
  BY BestStays DEF StoredPart
<1>2. QED
  BY <1>1 DEF StoredPart

\* What holds of the execution holds on while it and the candidates stay.
LEMMA RunStays ==
    ASSUME RunPart, UNCHANGED <<run, input>>, stored'.candidates = stored.candidates
    PROVE  RunPart'
<1>1. /\ validateReportDraft(run.draft, run.candidates)' = validateReportDraft(run.draft, run.candidates)
      /\ validateReportContent(run.content, stored.candidates)'
           = validateReportContent(run.content, stored.candidates)
  BY DEF validateReportDraft, validateReportContent, AllowConnections, ValidConnection
<1>2. AcceptedIsStorable'
  BY <1>1 DEF RunPart, AcceptedIsStorable
<1>3. RecommendsAvailable'
  BY DEF RunPart, RecommendsAvailable
<1>4. QED
  BY <1>1, <1>2, <1>3 DEF RunPart, Holding

\* What holds of a GET holds on while it stays, whatever is withdrawn.
LEMMA GetStays ==
    ASSUME GetPart, UNCHANGED <<get, input>>, readable' \subseteq readable
    PROVE  GetPart'
<1>1. AnswerIsPublic'
  BY DEF GetPart, AnswerIsPublic
<1>2. QED
  BY <1>1 DEF GetPart

RunShape == run = [pc |-> run.pc, tries |-> run.tries, sources |-> run.sources, look |-> run.look,
                   candidates |-> run.candidates, draft |-> run.draft, content |-> run.content]

\* An execution that holds no candidates.
LEMMA EmptyRun ==
    ASSUME RunShape', run'.tries \in 1 .. MaxTries, ~Holding',
           run'.pc = "Rows" => run'.sources \subseteq input'
    PROVE  RunPart'
BY DEF RunShape, RunPart, Holding, AcceptedIsStorable, RecommendsAvailable

\* An execution that holds candidates, and no draft yet.
LEMMA RunWithout ==
    ASSUME RunShape', run'.tries \in 1 .. MaxTries, run'.pc \in {"FirstLook", "Draft"},
           CandidatesGood(stored'.candidates, input'),
           Within(run'.candidates, stored'.candidates, input')
    PROVE  RunPart'
BY DEF RunShape, RunPart, Holding, AcceptedIsStorable, RecommendsAvailable

\* An execution that ends, or that another one follows.
LEMMA GivenUp ==
    ASSUME RunPart, NEW CONSTANT b, GiveUpRun(b)
    PROVE  RunPart'
<1>1. run.tries \in 1 .. MaxTries /\ MaxTries \in Nat
  BY ReportLimits DEF RunPart
<1>2. run.tries < MaxTries => run.tries + 1 \in 1 .. MaxTries
  BY <1>1
<1>3. /\ RunShape' /\ run'.tries \in 1 .. MaxTries /\ run'.pc \in {"Sources", "Failed"}
  <2>1. CASE b /\ run.tries < MaxTries
    <3>1. run' = NewRun(run.tries + 1)
      BY <2>1 DEF GiveUpRun
    <3>2. QED
      BY <1>2, <2>1, <3>1 DEF NewRun, RunShape
  <2>2. CASE ~(b /\ run.tries < MaxTries)
    <3>1. run' = [NewRun(run.tries) EXCEPT !.pc = "Failed"]
      BY <2>2 DEF GiveUpRun
    <3>2. QED
      BY <1>1, <3>1 DEF NewRun, RunShape
  <2>3. QED
    BY <2>1, <2>2
<1>4. ~Holding' /\ run'.pc # "Rows"
  BY <1>3 DEF Holding
<1>5. QED
  BY <1>3, <1>4, EmptyRun

\* At first nothing is captured, written or read.
LEMMA ContentStarts == ContentInit => ContentInv
<1> SUFFICES ASSUME ContentInit PROVE ContentInv
  OBVIOUS
<1> USE DEF ContentInit
<1>1. Given
  BY ReportLimits DEF Given
<1>2. StoredPart
  BY DEF StoredPart, CandidatesAreBest
<1>3. RunPart
  <2>1. run = NewRun(1) /\ 1 \in 1 .. MaxTries
    BY ReportLimits
  <2>2. QED
    BY <2>1 DEF NewRun, RunPart, Holding, AcceptedIsStorable, RecommendsAvailable
<1>4. GetPart
  BY DEF GetPart, NoGet, AnswerIsPublic
<1>5. QED
  BY <1>1, <1>2, <1>3, <1>4 DEF ContentInv

\* The sources are read.
LEMMA ReadSourcesKeeps == ASSUME ContentInv, ReadSources PROVE ContentInv'
<1>1. Given' /\ StoredPart' /\ GetPart'
  BY GivenStays, StoredStays, GetStays DEF ContentInv, ReadSources
<1>2. RunPart'
  <2>1. /\ RunShape /\ run.tries \in 1 .. MaxTries
        /\ run' = [run EXCEPT !.pc = "Rows", !.sources = input \cap readable \cap Embedded]
        /\ input' = input
    BY DEF ContentInv, RunPart, RunShape, ReadSources
  <2>2. /\ RunShape' /\ run'.pc = "Rows" /\ run'.tries = run.tries
        /\ run'.sources = input \cap readable \cap Embedded
    BY <2>1 DEF RunShape
  <2>3. ~Holding'
    BY <2>2 DEF Holding
  <2>4. QED
    BY <2>1, <2>2, <2>3, EmptyRun
<1>3. QED
  BY <1>1, <1>2 DEF ContentInv

\* The candidates of an earlier execution are used.
LEMMA UseStoredCandidatesKeeps == ASSUME ContentInv, UseStoredCandidates PROVE ContentInv'
<1>1. Given' /\ StoredPart' /\ GetPart'
  BY GivenStays, StoredStays, GetStays DEF ContentInv, UseStoredCandidates
<1>2. RunPart'
  <2>1. /\ RunShape /\ run.tries \in 1 .. MaxTries
        /\ run' = [run EXCEPT !.pc = "FirstLook", !.candidates = stored.candidates]
        /\ input' = input /\ stored' = stored
        /\ CandidatesGood(stored.candidates, input)
    BY DEF ContentInv, RunPart, StoredPart, RunShape, UseStoredCandidates
  <2>2. RunShape' /\ run'.pc = "FirstLook" /\ run'.tries = run.tries
        /\ run'.candidates = stored.candidates
    BY <2>1 DEF RunShape
  <2>3. Within(run'.candidates, stored'.candidates, input')
    BY <2>1, <2>2, WithinItself
  <2>4. QED
    BY <2>1, <2>2, <2>3, RunWithout
<1>3. QED
  BY <1>1, <1>2 DEF ContentInv

\* The candidates that are captured are those chosen from everything.
LEMMA BestCaptured ==
    ASSUME input' = input, likeness' = likeness,
           NEW CONSTANT S, NEW CONSTANT sources, NEW CONSTANT found, NEW CONSTANT pairs,
           NEW CONSTANT all,
           pairs = sources \X (S \cap Embedded), all = Nearest(pairs, MaxRelated),
           capture' = [eligible |-> S, sources |-> sources], stored'.candidates = found,
           IssuesOfEach(found.related) = all, found.major = selectMajorIssues(S, ToSet(all))
    PROVE  CandidatesAreBest'
<1>1. Nearest(pairs, MaxRelated)' = all
  BY NearestStays
<1>2. selectMajorIssues(S, ToSet(all))' = selectMajorIssues(S, ToSet(all))
  BY MajorsStay
<1>3. capture'.eligible = S /\ capture'.sources = sources
  OBVIOUS
<1>4. QED
  BY <1>1, <1>2, <1>3 DEF CandidatesAreBest, IssuesOfEach

\* The candidates are read and stored.
LEMMA CaptureCandidatesKeeps == ASSUME ContentInv, CaptureCandidates PROVE ContentInv'
<1> DEFINE S == (readable \cap Further) \ actedOn
           sources == run.sources
           found == CandidatesFrom(CandidateRows(S, sources), sources)
           pairs == sources \X (S \cap Embedded)
           all == Nearest(pairs, MaxRelated)
<1>1. Given' /\ GetPart'
  BY GivenStays, GetStays DEF ContentInv, CaptureCandidates
<1>2. /\ stored' = [stored EXCEPT !.candidates = found]
      /\ run' = [run EXCEPT !.pc = "FirstLook", !.candidates = found]
      /\ capture' = [eligible |-> S, sources |-> sources]
      /\ input' = input /\ likeness' = likeness
  BY DEF CaptureCandidates
<1>3. LikenessType /\ input \in SUBSET Sources
  BY GivenIs DEF ContentInv
<1>4. S \in SUBSET Further /\ sources \in SUBSET input
  BY DEF ContentInv, RunPart, CaptureCandidates
<1> HIDE DEF S, sources
<1>5. /\ IssuesOfEach(found.related) = all
      /\ found.major = selectMajorIssues(S, ToSet(all))
      /\ CandidatesGood(found, input)
  BY <1>3, <1>4, CapturedAreBest
<1> HIDE DEF found
<1>6. /\ stored' = [candidates |-> found, content |-> stored.content]
      /\ stored.content = Nil \/ ContentGood(stored.content, input)
  BY <1>2 DEF ContentInv, StoredPart
<1>7. CandidatesAreBest'
  <2>1. stored'.candidates = found
    BY <1>6
  <2>2. \E T, from, f, ps, a :
          /\ T = S /\ from = sources /\ f = found /\ ps = from \X (T \cap Embedded)
          /\ a = Nearest(ps, MaxRelated)
    OBVIOUS
  <2> HIDE DEF all, pairs
  <2>3. PICK T, from, f, ps, a :
          /\ T = S /\ from = sources /\ f = found /\ ps = from \X (T \cap Embedded)
          /\ a = Nearest(ps, MaxRelated)
    BY <2>2
  <2>4. a = all
    BY <2>3 DEF all, pairs
  <2>5. QED
    BY <1>2, <1>5, <2>1, <2>3, <2>4, BestCaptured
<1>8. StoredPart'
  BY <1>2, <1>5, <1>6, <1>7 DEF StoredPart
<1>9. RunPart'
  <2>1. RunShape /\ run.tries \in 1 .. MaxTries
    BY DEF ContentInv, RunPart, RunShape
  <2>2. /\ RunShape' /\ run'.pc = "FirstLook" /\ run'.tries = run.tries
        /\ run'.candidates = found
    BY <1>2, <2>1 DEF RunShape
  <2>3. stored'.candidates = found
    BY <1>6
  <2>4. /\ CandidatesGood(stored'.candidates, input')
        /\ Within(run'.candidates, stored'.candidates, input')
    BY <1>2, <1>5, <2>2, <2>3, WithinItself
  <2>5. QED
    BY <2>1, <2>2, <2>4, RunWithout
<1>10. QED
  BY <1>1, <1>8, <1>9 DEF ContentInv

\* An execution that holds candidates and a draft that was checked against them.
LEMMA RunDrafted ==
    ASSUME RunShape', run'.tries \in 1 .. MaxTries, run'.pc = "SecondLook",
           CandidatesGood(stored'.candidates, input'),
           Within(run'.candidates, stored'.candidates, input'),
           DraftShape(run'.draft), validateReportDraft(run.draft, run.candidates)'
    PROVE  RunPart'
BY DEF RunShape, RunPart, Holding, AcceptedIsStorable, RecommendsAvailable

\* A checked draft stays checked while the input stays.
LEMMA CheckedStays ==
    ASSUME input' = input, NEW CONSTANT d, NEW CONSTANT c, validateReportDraft(d, c)
    PROVE  validateReportDraft(d, c)'
BY DEF validateReportDraft, AllowConnections, ValidConnection

\* The draft of an execution stays checked while it, its candidates and the input stay.
LEMMA DraftStays ==
    ASSUME input' = input, run'.draft = run.draft, run'.candidates = run.candidates,
           validateReportDraft(run.draft, run.candidates)
    PROVE  validateReportDraft(run.draft, run.candidates)'
<1>1. PICK d, c : d = run.draft /\ c = run.candidates
  OBVIOUS
<1>2. validateReportDraft(d, c)'
  BY <1>1, CheckedStays
<1>3. d = run'.draft /\ c = run'.candidates
  BY <1>1
<1>4. QED
  BY <1>2, <1>3

\* What holds of an execution that holds candidates.
LEMMA HoldingIs ==
    ASSUME ContentInv, Holding
    PROVE  /\ RunShape /\ run.tries \in 1 .. MaxTries
           /\ CandidatesGood(stored.candidates, input)
           /\ Within(run.candidates, stored.candidates, input)
           /\ run.pc = "SecondLook" => /\ DraftShape(run.draft)
                                       /\ validateReportDraft(run.draft, run.candidates)
BY DEF ContentInv, RunPart, RunShape

\* One of the two queries of a look is answered.
LEMMA LookKeeps == ASSUME ContentInv, Look PROVE ContentInv'
<1>1. Given' /\ StoredPart' /\ GetPart'
  BY GivenStays, StoredStays, GetStays DEF ContentInv, Look
<1>2. PICK l : run' = [run EXCEPT !.look = l]
  BY DEF Look
<1>3. run.pc \in {"FirstLook", "SecondLook"} /\ input' = input /\ stored' = stored
  BY DEF Look, Looking
<1>4. /\ RunShape /\ run.tries \in 1 .. MaxTries
      /\ CandidatesGood(stored.candidates, input)
      /\ Within(run.candidates, stored.candidates, input)
      /\ run.pc = "SecondLook" => /\ DraftShape(run.draft)
                                  /\ validateReportDraft(run.draft, run.candidates)
  BY <1>3, HoldingIs DEF Holding
<1>5. /\ RunShape' /\ run'.pc = run.pc /\ run'.tries = run.tries /\ run'.draft = run.draft
      /\ run'.candidates = run.candidates
  BY <1>2, <1>4 DEF RunShape
<1>6. RunPart'
  <2>1. CASE run.pc = "FirstLook"
    <3>1. run'.pc = "FirstLook"
      BY <1>5, <2>1
    <3>2. QED
      BY <1>3, <1>4, <1>5, <3>1, RunWithout
  <2>2. CASE run.pc = "SecondLook"
    <3>1. run'.pc = "SecondLook" /\ DraftShape(run'.draft)
      BY <1>4, <1>5, <2>2
    <3>2. validateReportDraft(run.draft, run.candidates)'
      BY <1>3, <1>4, <1>5, <2>2, DraftStays
    <3>3. QED
      BY <1>3, <1>4, <1>5, <3>1, <3>2, RunDrafted
  <2>3. QED
    BY <1>3, <2>1, <2>2
<1>7. QED
  BY <1>1, <1>6 DEF ContentInv

\* A source is missing: the execution ends.
LEMMA SourceMissingKeeps == ASSUME ContentInv, SourceMissing PROVE ContentInv'
<1>1. Given' /\ StoredPart' /\ GetPart'
  BY GivenStays, StoredStays, GetStays DEF ContentInv, SourceMissing
<1>2. RunPart'
  BY GivenUp DEF ContentInv, SourceMissing
<1>3. QED
  BY <1>1, <1>2 DEF ContentInv

\* A step fails: the execution ends, or another one follows.
LEMMA RunErrorKeeps == ASSUME ContentInv, RunError PROVE ContentInv'
<1>1. Given' /\ StoredPart' /\ GetPart'
  BY GivenStays, StoredStays, GetStays DEF ContentInv, RunError
<1>2. RunPart'
  BY GivenUp DEF ContentInv, RunError
<1>3. QED
  BY <1>1, <1>2 DEF ContentInv

\* What is seen of the candidates is held for the draft.
LEMMA FirstFilterKeeps == ASSUME ContentInv, FirstFilter PROVE ContentInv'
<1>1. Given' /\ StoredPart' /\ GetPart'
  BY GivenStays, StoredStays, GetStays DEF ContentInv, FirstFilter
<1>2. /\ run.pc = "FirstLook" /\ input' = input /\ stored' = stored
      /\ run' = [run EXCEPT !.pc = "Draft", !.look = Blind,
                            !.candidates = Visible(run.candidates, run.look)]
  BY DEF FirstFilter
<1>3. /\ RunShape /\ run.tries \in 1 .. MaxTries
      /\ CandidatesGood(stored.candidates, input)
      /\ Within(run.candidates, stored.candidates, input)
  BY <1>2, HoldingIs DEF Holding
<1>4. Within(Visible(run.candidates, run.look), stored.candidates, input)
  BY <1>3, VisibleIs
<1> DEFINE v == Visible(run.candidates, run.look)
<1> HIDE DEF v
<1>5. RunShape' /\ run'.pc = "Draft" /\ run'.tries = run.tries /\ run'.candidates = v
  <2>1. run' = [run EXCEPT !.pc = "Draft", !.look = Blind, !.candidates = v]
    BY <1>2 DEF v
  <2>2. QED
    BY <1>3, <2>1 DEF RunShape
<1>6. Within(run'.candidates, stored'.candidates, input')
  BY <1>2, <1>4, <1>5 DEF v
<1>7. RunPart'
  BY <1>2, <1>3, <1>5, <1>6, RunWithout
<1>8. QED
  BY <1>1, <1>7 DEF ContentInv

\* The draft is checked against what was seen.
LEMMA WriteDraftKeeps == ASSUME ContentInv, WriteDraft PROVE ContentInv'
<1>1. Given' /\ StoredPart' /\ GetPart'
  BY GivenStays, StoredStays, GetStays DEF ContentInv, WriteDraft
<1>2. PICK d \in Drafts \cup {EmptyDraft} :
          /\ validateReportDraft(d, run.candidates)
          /\ run' = [run EXCEPT !.pc = "SecondLook", !.draft = d]
  BY DEF WriteDraft
<1>3. run.pc = "Draft" /\ input' = input /\ stored' = stored
  BY DEF WriteDraft
<1>4. DraftShape(d)
  <2>1. CASE d \in Drafts
    BY <2>1, ReportContentAssumption DEF DraftShape
  <2>2. CASE d = EmptyDraft
    BY <2>2 DEF DraftShape, EmptyDraft
  <2>3. QED
    BY <2>1, <2>2
<1>5. /\ RunShape /\ run.tries \in 1 .. MaxTries
      /\ CandidatesGood(stored.candidates, input)
      /\ Within(run.candidates, stored.candidates, input)
  BY <1>3, HoldingIs DEF Holding
<1>6. /\ RunShape' /\ run'.pc = "SecondLook" /\ run'.tries = run.tries
      /\ run'.candidates = run.candidates /\ run'.draft = d
  BY <1>2, <1>5 DEF RunShape
<1>7. validateReportDraft(run.draft, run.candidates)'
  <2>1. PICK c : c = run.candidates
    OBVIOUS
  <2>2. validateReportDraft(d, c)'
    BY <1>2, <1>3, <2>1, CheckedStays
  <2>3. QED
    BY <1>6, <2>1, <2>2
<1>8. RunPart'
  BY <1>3, <1>4, <1>5, <1>6, <1>7, RunDrafted
<1>9. QED
  BY <1>1, <1>8 DEF ContentInv

\* An execution that holds content to be stored.
LEMMA RunComplete ==
    ASSUME RunShape', run'.tries \in 1 .. MaxTries, run'.pc = "Complete",
           CandidatesGood(stored'.candidates, input'),
           Within(run'.candidates, stored'.candidates, input'),
           ContentGood(run'.content, input'),
           validateReportContent(run.content, stored.candidates)',
           \A x \in IssuesOf(run'.content.related) \cup ToSet(run'.content.major) :
               Available(x, run'.look)
    PROVE  RunPart'
BY DEF RunShape, RunPart, Holding, AcceptedIsStorable, RecommendsAvailable

\* What complete would accept it accepts while the input stays.
LEMMA StorableStays ==
    ASSUME input' = input, NEW CONSTANT content, NEW CONSTANT c, validateReportContent(content, c)
    PROVE  validateReportContent(content, c)'
BY DEF validateReportContent, ValidConnection

\* The content is built.
LEMMA SecondFilterKeeps == ASSUME ContentInv, SecondFilter PROVE ContentInv'
<1>1. Given' /\ StoredPart' /\ GetPart'
  BY GivenStays, StoredStays, GetStays DEF ContentInv, SecondFilter
<1>2. /\ run.pc = "SecondLook" /\ input' = input /\ stored' = stored
      /\ run' = [run EXCEPT !.pc = "Complete",
                   !.content = buildReportContent(Visible(run.candidates, run.look), run.draft)]
  BY DEF SecondFilter
<1>3. /\ RunShape /\ run.tries \in 1 .. MaxTries
      /\ CandidatesGood(stored.candidates, input)
      /\ Within(run.candidates, stored.candidates, input)
      /\ DraftShape(run.draft) /\ validateReportDraft(run.draft, run.candidates)
  BY <1>2, HoldingIs DEF Holding
<1>4. PICK c, d, draft, look, content :
          /\ c = run.candidates /\ d = stored.candidates /\ draft = run.draft /\ look = run.look
          /\ content = buildReportContent(Visible(c, look), draft)
  OBVIOUS
<1>5. /\ ContentGood(content, input)
      /\ validateReportContent(content, d)
      /\ \A x \in IssuesOf(content.related) \cup ToSet(content.major) : Available(x, look)
  <2>1. /\ CandidatesGood(d, input) /\ Within(c, d, input)
        /\ DraftShape(draft) /\ validateReportDraft(draft, c)
    BY <1>3, <1>4
  <2>2. input \in SUBSET Sources
    BY GivenIs DEF ContentInv
  <2>3. content = buildReportContent(Visible(c, look), draft)
    BY <1>4
  <2>4. QED
    BY <2>1, <2>2, <2>3, ContentBuilt
<1>6. /\ RunShape' /\ run'.pc = "Complete" /\ run'.tries = run.tries /\ run'.candidates = c
      /\ run'.look = look /\ run'.content = content
  <2>1. run' = [run EXCEPT !.pc = "Complete", !.content = content]
    BY <1>2, <1>4
  <2>2. QED
    BY <1>3, <1>4, <2>1 DEF RunShape
<1>7. validateReportContent(run.content, stored.candidates)'
  <2>1. validateReportContent(content, d)'
    BY <1>2, <1>5, StorableStays
  <2>2. run'.content = content /\ stored'.candidates = d
    BY <1>2, <1>4, <1>6
  <2>3. QED
    BY <2>1, <2>2
<1>8. RunPart'
  BY <1>2, <1>3, <1>4, <1>5, <1>6, <1>7, RunComplete
<1>9. QED
  BY <1>1, <1>8 DEF ContentInv

\* The content is stored, unless it is refused or a source is missing.
LEMMA StoreContentKeeps == ASSUME ContentInv, StoreContent PROVE ContentInv'
<1>1. Given' /\ GetPart'
  BY GivenStays, GetStays DEF ContentInv, StoreContent
<1>2. run.pc = "Complete" /\ UNCHANGED <<input, likeness, capture>>
  BY DEF StoreContent
<1>3. CASE UNCHANGED stored /\ \E b \in BOOLEAN : GiveUpRun(b)
  <2>1. StoredPart'
    BY <1>2, <1>3, StoredStays DEF ContentInv
  <2>2. RunPart'
    BY <1>3, GivenUp DEF ContentInv
  <2>3. QED
    BY <1>1, <2>1, <2>2 DEF ContentInv
<1>4. CASE /\ stored' = [stored EXCEPT !.content = run.content]
           /\ run' = [NewRun(run.tries) EXCEPT !.pc = "Succeeded"]
  <2>1. /\ ContentGood(run.content, input) /\ CandidatesAreBest
        /\ stored = [candidates |-> stored.candidates, content |-> stored.content]
        /\ stored.candidates = Nil \/ CandidatesGood(stored.candidates, input)
        /\ run.tries \in 1 .. MaxTries
    BY <1>2 DEF ContentInv, StoredPart, RunPart
  <2>2. stored' = [candidates |-> stored.candidates, content |-> run.content]
    BY <1>4, <2>1
  <2>3. CandidatesAreBest'
    BY <1>2, <2>1, <2>2, BestStays
  <2>4. StoredPart'
    BY <1>2, <2>1, <2>2, <2>3 DEF StoredPart
  <2>5. RunShape' /\ run'.tries = run.tries /\ run'.pc = "Succeeded"
    BY <1>4 DEF NewRun, RunShape
  <2>6. ~Holding'
    BY <2>5 DEF Holding
  <2>7. RunPart'
    BY <2>1, <2>5, <2>6, EmptyRun
  <2>8. QED
    BY <1>1, <2>4, <2>7 DEF ContentInv
<1>5. QED
  BY <1>3, <1>4 DEF StoreContent

-----------------------------------------------------------------------------
(* What a report says: the answer to its member.                           *)

AnswerGood(a, content, before, i) ==
    LET shown == (UNION {ToSet(a.connections[k]) : k \in DOMAIN a.connections})
                   \cup a.evidence \cup IssuesOf(a.related) \cup ToSet(a.major)
                   \cup {a.related[k].source : k \in DOMAIN a.related}
    IN  /\ shown \subseteq before
        /\ shown \cap i \subseteq a.evidence \cup {a.related[k].source : k \in DOMAIN a.related}
        /\ ~a.partial => ToSet(a.major) = ToSet(content.major) /\ a.related = content.related

\* The connections of an answer, and the evidence for them.
LEMMA ConnectionsAnswered ==
    ASSUME NEW content, NEW i, ContentGood(content, i), NEW look
    PROVE  \A k \in DOMAIN Answered(content, look).connections :
             /\ ToSet(Answered(content, look).connections[k]) \subseteq look.public
             /\ ToSet(Answered(content, look).connections[k]) \cap i \subseteq content.evidence
<1> DEFINE cs == content.connections
           whole == {k \in DOMAIN cs : ToSet(cs[k]) \subseteq look.public}
           e == Answered(content, look).connections
<1>1. cs \in Seq(Seq(Nat)) /\ DOMAIN cs = 1 .. Len(cs)
  BY DEF ContentGood
<1>2. whole \in SUBSET (1 .. Len(cs)) /\ \A k \in whole : ToSet(cs[k]) \subseteq look.public
  BY <1>1
<1>3. \A k \in DOMAIN cs : ToSet(cs[k]) \cap i \subseteq content.evidence
  BY DEF ContentGood
<1>4. e = Entries(cs, whole)
  BY DEF Answered
<1> HIDE DEF cs, whole, e
<1>5. KeptIn(e, cs, whole)
  <2>1. KeptIn(Entries(cs, whole), cs, whole)
    BY <1>1, <1>2, EntriesKept
  <2>2. QED
    BY <1>4, <2>1
<1>6. DOMAIN e = 1 .. Len(e) /\ \A k \in 1 .. Len(e) : \E p \in whole : e[k] = cs[p]
  <2>0. whole \in SUBSET (1 .. Len(cs)) /\ DOMAIN cs = 1 .. Len(cs)
    BY <1>1, <1>2
  <2>1. \A k \in 1 .. Len(e) : \E p \in whole : e[k] = cs[p]
    BY <1>5, <2>0, KeptIsThere
  <2>2. QED
    BY <1>5, <2>1 DEF KeptIn
<1>7. \A k \in DOMAIN e : /\ ToSet(e[k]) \subseteq look.public
                          /\ ToSet(e[k]) \cap i \subseteq content.evidence
  BY <1>1, <1>2, <1>3, <1>6
<1>8. QED
  BY <1>7 DEF e

RelatedTold(e, rs, look) ==
    /\ \A k \in DOMAIN e : /\ e[k].issue \in look.public /\ e[k].source \in look.public
                           /\ e[k].issue \in Further
    /\ Len(e) = Len(rs) => e = rs

MajorsTold(e, ms, look) ==
    /\ ToSet(e) \subseteq look.public /\ ToSet(e) \subseteq Further
    /\ Len(e) = Len(ms) => e = ms

\* The recommended issues of an answer.
LEMMA RelatedAnswered ==
    ASSUME NEW content, NEW i, ContentGood(content, i), NEW look
    PROVE  RelatedTold(Answered(content, look).related, content.related, look)
<1> DEFINE rs == content.related
           advised == {k \in DOMAIN rs : /\ Available(rs[k].issue, look)
                                         /\ rs[k].source \in look.public}
           e == Answered(content, look).related
<1>1. rs \in Seq(RelatedFor(i)) /\ DOMAIN rs = 1 .. Len(rs)
  BY DEF ContentGood
<1>2. /\ advised \in SUBSET (1 .. Len(rs))
      /\ \A k \in advised : rs[k].issue \in look.public /\ rs[k].source \in look.public
  BY <1>1 DEF Available
<1>3. \A k \in 1 .. Len(rs) : rs[k].issue \in Further
  <2>1. \A k \in 1 .. Len(rs) : rs[k] \in RelatedFor(i)
    BY <1>1
  <2>2. \A x \in RelatedFor(i) : x.issue \in Further
    BY DEF RelatedFor
  <2>3. QED
    BY <2>1, <2>2
<1>4. e = Entries(rs, advised)
  BY DEF Answered
<1> HIDE DEF rs, advised, e
<1>5. KeptIn(e, rs, advised)
  <2>1. KeptIn(Entries(rs, advised), rs, advised)
    BY <1>1, <1>2, EntriesKept
  <2>2. QED
    BY <1>4, <2>1
<1>6. DOMAIN e = 1 .. Len(e) /\ \A k \in 1 .. Len(e) : \E p \in advised : e[k] = rs[p]
  <2>1. \A k \in 1 .. Len(e) : \E p \in advised : e[k] = rs[p]
    BY <1>1, <1>2, <1>5, KeptIsThere
  <2>2. QED
    BY <1>5, <2>1 DEF KeptIn
<1>7. Len(e) = Len(rs) => e = rs
  BY <1>5 DEF KeptIn
<1>8. \A k \in DOMAIN e : /\ e[k].issue \in look.public /\ e[k].source \in look.public
                          /\ e[k].issue \in Further
  BY <1>2, <1>3, <1>6
<1>9. RelatedTold(e, rs, look)
  BY <1>7, <1>8 DEF RelatedTold
<1>10. QED
  BY <1>9 DEF e, rs

\* The major issues of an answer.
LEMMA MajorsAnswered ==
    ASSUME NEW content, NEW i, ContentGood(content, i), NEW look
    PROVE  MajorsTold(Answered(content, look).major, content.major, look)
<1> DEFINE ms == content.major
           shown == {k \in DOMAIN ms : Available(ms[k], look)}
           e == Answered(content, look).major
<1>1. ms \in Seq(Further) /\ DOMAIN ms = 1 .. Len(ms)
  BY DEF ContentGood
<1>2. shown \in SUBSET (1 .. Len(ms)) /\ \A k \in shown : ms[k] \in look.public
  BY <1>1 DEF Available
<1>3. e = Entries(ms, shown)
  BY DEF Answered
<1> HIDE DEF ms, shown, e
<1>4. KeptIn(e, ms, shown)
  <2>1. KeptIn(Entries(ms, shown), ms, shown)
    BY <1>1, <1>2, EntriesKept
  <2>2. QED
    BY <1>3, <2>1
<1>5. DOMAIN e = 1 .. Len(e) /\ \A k \in 1 .. Len(e) : \E p \in shown : e[k] = ms[p]
  <2>1. \A k \in 1 .. Len(e) : \E p \in shown : e[k] = ms[p]
    BY <1>1, <1>2, <1>4, KeptIsThere
  <2>2. QED
    BY <1>4, <2>1 DEF KeptIn
<1>6. \A p \in shown : ms[p] \in look.public /\ ms[p] \in Further
  BY <1>1, <1>2
<1>7. Len(e) = Len(ms) => e = ms
  BY <1>4 DEF KeptIn
<1>8. \A k \in DOMAIN e : e[k] \in look.public /\ e[k] \in Further
  BY <1>5, <1>6
<1>9. ToSet(e) \subseteq look.public /\ ToSet(e) \subseteq Further
  BY <1>8 DEF ToSet
<1>10. MajorsTold(e, ms, look)
  BY <1>7, <1>9 DEF MajorsTold
<1>11. QED
  BY <1>10 DEF e, ms

\* An answer shows what its look has found public, and says if something is left out.
LEMMA AnswerIs ==
    ASSUME NEW content, NEW i \in SUBSET Sources, ContentGood(content, i), NEW look, NEW before,
           look.public \subseteq before
    PROVE  AnswerGood(Answered(content, look), content, before, i)
<1> DEFINE a == Answered(content, look)
           ev == content.evidence \cap look.public
           from == {a.related[k].source : k \in DOMAIN a.related}
           tied == UNION {ToSet(a.connections[k]) : k \in DOMAIN a.connections}
<1>1. a.evidence = ev
  BY DEF Answered
<1>2. ~a.partial => /\ Len(a.related) = Len(content.related)
                    /\ Len(a.major) = Len(content.major)
  BY DEF Answered
<1>3. \A k \in DOMAIN a.connections : /\ ToSet(a.connections[k]) \subseteq look.public
                                     /\ ToSet(a.connections[k]) \cap i \subseteq content.evidence
  BY ConnectionsAnswered
<1>4. /\ \A k \in DOMAIN a.related :
            /\ a.related[k].issue \in look.public /\ a.related[k].source \in look.public
            /\ a.related[k].issue \in Further
      /\ Len(a.related) = Len(content.related) => a.related = content.related
  BY RelatedAnswered DEF RelatedTold
<1>5. /\ ToSet(a.major) \subseteq look.public /\ ToSet(a.major) \subseteq Further
      /\ Len(a.major) = Len(content.major) => a.major = content.major
  BY MajorsAnswered DEF MajorsTold
<1>6. ev \subseteq look.public /\ \A x \in content.evidence : x \in look.public => x \in ev
  OBVIOUS
<1> HIDE DEF a, ev
<1>7. tied \subseteq look.public /\ tied \cap i \subseteq a.evidence
  <2>1. \A x \in tied : \E k \in DOMAIN a.connections : x \in ToSet(a.connections[k])
    OBVIOUS
  <2> HIDE DEF tied
  <2>2. \A x \in tied : x \in look.public /\ (x \in i => x \in ev)
    BY <1>3, <1>6, <2>1
  <2>3. QED
    BY <1>1, <2>2
<1>8. IssuesOf(a.related) \subseteq look.public /\ IssuesOf(a.related) \subseteq Further
  BY <1>4 DEF IssuesOf
<1>9. from \subseteq look.public
  BY <1>4
<1>10. ToSet(a.major) \subseteq look.public /\ ToSet(a.major) \subseteq Further
  BY <1>5
<1>11. a.evidence \subseteq look.public
  BY <1>1, <1>6
<1>12. i \cap Further = {}
  BY ReportContentAssumption
<1>13. ~a.partial => ToSet(a.major) = ToSet(content.major) /\ a.related = content.related
  BY <1>2, <1>4, <1>5
<1> DEFINE shown == tied \cup a.evidence \cup IssuesOf(a.related) \cup ToSet(a.major) \cup from
<1>14. shown \subseteq before /\ shown \cap i \subseteq a.evidence \cup from
  <2> HIDE DEF tied, from
  <2>1. QED
    BY <1>7, <1>8, <1>9, <1>10, <1>11, <1>12
<1>15. AnswerGood(a, content, before, i)
  BY <1>13, <1>14 DEF AnswerGood
<1>16. QED
  BY <1>15 DEF a

\* A member asks.
LEMMA GetReportKeeps == ASSUME ContentInv, GetReport PROVE ContentInv'
<1>1. Given' /\ StoredPart' /\ RunPart'
  BY GivenStays, StoredStays, RunStays DEF ContentInv, GetReport
<1>2. /\ get' = [NoGet EXCEPT !.pc = "look", !.content = stored.content, !.before = readable]
      /\ input' = input /\ readable' = readable /\ ContentGood(stored.content, input)
  BY DEF ContentInv, StoredPart, GetReport
<1>3. get' = [pc |-> "look", look |-> Blind, content |-> stored.content, before |-> readable,
              answer |-> Nil]
  BY <1>2 DEF NoGet
<1>4. AnswerIsPublic'
  BY <1>3 DEF AnswerIsPublic
<1>5. GetPart'
  <2>1. /\ get'.pc = "look" /\ get'.look = Blind /\ get'.content = stored.content
        /\ get'.before = readable
        /\ get' = [pc |-> get'.pc, look |-> get'.look, content |-> get'.content,
                   before |-> get'.before, answer |-> get'.answer]
    BY <1>3
  <2>2. Blind = [public |-> Blind.public, acted |-> Blind.acted] /\ Blind.public = Nil
    BY DEF Blind
  <2>3. QED
    BY <1>2, <1>4, <2>1, <2>2 DEF GetPart
<1>6. QED
  BY <1>1, <1>5 DEF ContentInv

\* One of the two queries for the answer is answered.
LEMMA GetLookKeeps == ASSUME ContentInv, GetLook PROVE ContentInv'
<1>1. Given' /\ StoredPart' /\ RunPart'
  BY GivenStays, StoredStays, RunStays DEF ContentInv, GetLook
<1>2. /\ get.pc = "look" /\ input' = input /\ readable' = readable
      /\ \E l \in Looked(get.look) : get' = [get EXCEPT !.look = l]
  BY DEF GetLook
<1>3. /\ get = [pc |-> get.pc, look |-> get.look, content |-> get.content, before |-> get.before,
                answer |-> get.answer]
      /\ get.look = [public |-> get.look.public, acted |-> get.look.acted]
      /\ ContentGood(get.content, input) /\ readable \subseteq get.before
      /\ get.look.public = Nil \/ get.look.public \subseteq get.before
  BY <1>2 DEF ContentInv, GetPart
<1>4. PICK l \in Looked(get.look) : get' = [get EXCEPT !.look = l]
  BY <1>2
<1>5. /\ l = [public |-> l.public, acted |-> l.acted]
      /\ l.public = readable \/ l.public = get.look.public
  <2>1. \/ l = [get.look EXCEPT !.public = readable]
        \/ l = [get.look EXCEPT !.acted = actedOn]
    BY <1>4 DEF Looked
  <2>2. QED
    BY <1>3, <2>1
<1>6. get' = [pc |-> "look", look |-> l, content |-> get.content, before |-> get.before,
              answer |-> get.answer]
  BY <1>2, <1>3, <1>4
<1>7. AnswerIsPublic'
  BY <1>6 DEF AnswerIsPublic
<1>8. l.public = Nil \/ l.public \subseteq get.before
  BY <1>3, <1>5
<1>9. GetPart'
  BY <1>2, <1>3, <1>5, <1>6, <1>7, <1>8 DEF GetPart
<1>10. QED
  BY <1>1, <1>9 DEF ContentInv

\* The answer is given.
LEMMA GetAnswerKeeps == ASSUME ContentInv, GetAnswer PROVE ContentInv'
<1>1. Given' /\ StoredPart' /\ RunPart'
  BY GivenStays, StoredStays, RunStays DEF ContentInv, GetAnswer
<1>2. /\ get.pc = "look" /\ Seen(get.look) /\ input' = input
      /\ get' = [get EXCEPT !.pc = "done", !.answer = Answered(get.content, get.look)]
  BY DEF GetAnswer
<1>3. /\ get = [pc |-> get.pc, look |-> get.look, content |-> get.content, before |-> get.before,
                answer |-> get.answer]
      /\ ContentGood(get.content, input)
      /\ get.look.public \subseteq get.before
  BY <1>2 DEF ContentInv, GetPart, Seen
<1>4. PICK content, look, before :
          content = get.content /\ look = get.look /\ before = get.before
  OBVIOUS
<1>5. AnswerGood(Answered(content, look), content, before, input)
  <2>1. input \in SUBSET Sources
    BY GivenIs DEF ContentInv
  <2>2. ContentGood(content, input) /\ look.public \subseteq before
    BY <1>3, <1>4
  <2>3. QED
    BY <2>1, <2>2, AnswerIs
<1> DEFINE a == Answered(content, look)
<1> HIDE DEF a
<1>6. get' = [pc |-> "done", look |-> look, content |-> content, before |-> before,
              answer |-> a]
  BY <1>2, <1>3, <1>4 DEF a
<1>7. AnswerGood(get'.answer, get'.content, get'.before, input')
  <2>1. AnswerGood(a, content, before, input)
    BY <1>5 DEF a
  <2>2. get'.answer = a /\ get'.content = content /\ get'.before = before
    BY <1>6
  <2>3. input' = input
    BY <1>2
  <2>4. QED
    BY <2>1, <2>2, <2>3
<1>8. AnswerIsPublic'
  BY <1>7 DEF AnswerIsPublic, AnswerGood
<1>9. GetPart'
  BY <1>6, <1>8 DEF GetPart
<1>10. QED
  BY <1>1, <1>9 DEF ContentInv

\* Issues are withdrawn and acted upon.
LEMMA ShiftKeeps ==
    ASSUME ContentInv, NEW i \in input \cup Further, WithdrawReadable(i) \/ ActOnIssue(i)
    PROVE  ContentInv'
<1>1. shifts' \in 0 .. MaxShifts
  BY ReportLimits DEF ContentInv, Given, WithdrawReadable, ActOnIssue, Shift
<1>2. CASE WithdrawReadable(i)
  <2>1. /\ UNCHANGED <<input, likeness, actedOn, stored, run, get, capture>>
        /\ readable' \subseteq readable
    BY <1>2 DEF WithdrawReadable
  <2>2. Given'
    BY <1>1, <2>1 DEF ContentInv, Given
  <2>3. StoredPart' /\ RunPart' /\ GetPart'
    BY <2>1, StoredStays, RunStays, GetStays DEF ContentInv
  <2>4. QED
    BY <2>2, <2>3 DEF ContentInv
<1>3. CASE ActOnIssue(i)
  <2>1. /\ UNCHANGED <<input, likeness, readable, stored, run, get, capture>>
        /\ actedOn' = actedOn \cup {i} /\ i \in Further
    BY <1>3 DEF ActOnIssue
  <2>2. Given'
    BY <1>1, <2>1 DEF ContentInv, Given
  <2>3. StoredPart' /\ RunPart' /\ GetPart'
    BY <2>1, StoredStays, RunStays, GetStays DEF ContentInv
  <2>4. QED
    BY <2>2, <2>3 DEF ContentInv
<1>4. QED
  BY <1>2, <1>3

\* Nothing happens.
LEMMA ContentStutters == ASSUME ContentInv, UNCHANGED contentVars PROVE ContentInv'
<1>1. UNCHANGED <<input, likeness, readable, actedOn, stored, run, get, shifts, capture>>
  BY DEF contentVars
<1>2. Given' /\ StoredPart' /\ RunPart' /\ GetPart'
  BY <1>1, GivenStays, StoredStays, RunStays, GetStays DEF ContentInv
<1>3. QED
  BY <1>2 DEF ContentInv

\* Every step keeps the invariant.
LEMMA ContentStep == ContentInv /\ [ContentNext]_contentVars => ContentInv'
<1> SUFFICES ASSUME ContentInv, [ContentNext]_contentVars PROVE ContentInv'
  OBVIOUS
<1>1. CASE ReadSources
  BY <1>1, ReadSourcesKeeps
<1>2. CASE CaptureCandidates
  BY <1>2, CaptureCandidatesKeeps
<1>3. CASE UseStoredCandidates
  BY <1>3, UseStoredCandidatesKeeps
<1>4. CASE Look
  BY <1>4, LookKeeps
<1>5. CASE SourceMissing
  BY <1>5, SourceMissingKeeps
<1>6. CASE FirstFilter
  BY <1>6, FirstFilterKeeps
<1>7. CASE WriteDraft
  BY <1>7, WriteDraftKeeps
<1>8. CASE SecondFilter
  BY <1>8, SecondFilterKeeps
<1>9. CASE StoreContent
  BY <1>9, StoreContentKeeps
<1>10. CASE RunError
  BY <1>10, RunErrorKeeps
<1>11. CASE GetReport
  BY <1>11, GetReportKeeps
<1>12. CASE GetLook
  BY <1>12, GetLookKeeps
<1>13. CASE GetAnswer
  BY <1>13, GetAnswerKeeps
<1>14. CASE \E i \in input \cup Further : WithdrawReadable(i) \/ ActOnIssue(i)
  BY <1>14, ShiftKeeps
<1>15. CASE UNCHANGED contentVars
  BY <1>15, ContentStutters
<1>16. QED
  BY <1>1, <1>2, <1>3, <1>4, <1>5, <1>6, <1>7, <1>8, <1>9, <1>10, <1>11, <1>12, <1>13,
     <1>14, <1>15 DEF ContentNext

\* From the capture to the answer: no limit on the rows that are read loses a better
\* candidate, what was paid for is stored, and nothing is shown or recommended that
\* was seen to be gone (processClaim, complete and ReportService.get).
THEOREM ReportContentSoundCorrect == ContentSpec => []ReportContentSound
<1>1. ContentInit => ContentInv
  BY ContentStarts
<1>2. ContentInv /\ [ContentNext]_contentVars => ContentInv'
  BY ContentStep
<1>3. ContentInv => ReportContentSound
  BY ContentInvImplies
<1>4. QED
  BY <1>1, <1>2, <1>3, PTL DEF ContentSpec
=============================================================================
