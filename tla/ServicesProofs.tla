--------------------------- MODULE ServicesProofs ---------------------------
(***************************************************************************)
(* The choice of a feed batch from a pool, for every pool, every state of  *)
(* the topics and entities before, every quota and every limit of the      *)
(* searches; and, from this and from RequestProofs, what all the services  *)
(* read by several queries.                                                *)
(***************************************************************************)
EXTENDS Services, RequestProofs

-----------------------------------------------------------------------------
(* Sizes.                                                                  *)

\* T is what f makes of S, each thing from one only.
IsImage(T, f, S) == T = {f[x] : x \in S} /\ \A x, y \in S : f[x] = f[y] => x = y

\* Such an image is as large as what it is of.
LEMMA ImageSize ==
    ASSUME NEW S, IsFiniteSet(S), NEW f, NEW T, IsImage(T, f, S)
    PROVE  IsFiniteSet(T) /\ Cardinality(T) = Cardinality(S)
<1>1. T = {f[x] : x \in S} /\ \A x, y \in S : f[x] = f[y] => x = y
  BY DEF IsImage
<1>2. IsFiniteSet({f[x] : x \in S}) /\ Cardinality({f[x] : x \in S}) = Cardinality(S)
  BY <1>1, ImageOf
<1> QED
  BY <1>1, <1>2

\* The numbers up to n are n.
LEMMA UpTo ==
    ASSUME NEW n \in Nat
    PROVE  IsFiniteSet(1 .. n) /\ Cardinality(1 .. n) = n
<1>1. /\ IsFiniteSet(1 .. n)
      /\ Cardinality(1 .. n) = IF 1 > n THEN 0 ELSE n - 1 + 1
  BY FS_Interval, 1 \in Int, n \in Int
<1> QED
  BY <1>1

-----------------------------------------------------------------------------
(* Runs.                                                                   *)

\* How long the last topic and entity have gone on.
IsState(state) == state.topicRun \in Nat /\ state.entityRun \in Nat

\* A run is counted from the one before.
LEMMA AdvanceIsState ==
    ASSUME NEW x, NEW state, IsState(state)
    PROVE  /\ IsState(AdvanceRun(x, state))
           /\ AdvanceRun(x, state).topic = x.topic /\ AdvanceRun(x, state).entity = x.entity
           /\ AdvanceRun(x, state).topicRun \in Nat /\ AdvanceRun(x, state).entityRun \in Nat
           /\ \A T, U : x.topic \in T /\ x.entity \in U =>
                 AdvanceRun(x, state) \in [topic : T, topicRun : Nat, entity : U, entityRun : Nat]
  BY DEF AdvanceRun, RunOf, IsState

\* The runs along an order are those of its items one after the other.
LEMMA RunsAre ==
    ASSUME NEW E, NEW items \in Seq(E), NEW state, IsState(state)
    PROVE  /\ Runs(items, state)[0] = state
           /\ \A k \in 1 .. Len(items) :
                 Runs(items, state)[k] = AdvanceRun(items[k], Runs(items, state)[k - 1])
           /\ \A k \in 0 .. Len(items) : IsState(Runs(items, state)[k])
<1> DEFINE n == Len(items)
           T == {items[k].topic : k \in 1 .. n}
           U == {items[k].entity : k \in 1 .. n}
           States == [topic : T, topicRun : Nat, entity : U, entityRun : Nat] \cup {state}
           V == [k \in 0 .. n |-> States]
           G == [p \in States \X (1 .. n) |-> AdvanceRun(items[p[2]], p[1])]
           counted == Runs(items, state)
<1>0. n \in Nat
  OBVIOUS
<1>1. \A v \in States : IsState(v)
  BY DEF IsState
<1>2. \A v \in States, k \in 1 .. n : AdvanceRun(items[k], v) \in States
  <2> TAKE v \in States, k \in 1 .. n
  <2>1. items[k].topic \in T /\ items[k].entity \in U /\ IsState(v)
    BY <1>1
  <2> HIDE DEF T, U
  <2>2. AdvanceRun(items[k], v) \in [topic : T, topicRun : Nat, entity : U, entityRun : Nat]
    BY <2>1, AdvanceIsState
  <2> QED
    BY <2>2
<1>3. state \in V[0]
  BY <1>0
<1> HIDE DEF States
<1>4. \A k \in 1 .. n : \A v \in V[k - 1] : G[<<v, k>>] \in V[k]
  BY <1>0, <1>2
<1>5. PICK f : IsLoop(f, state, G, n) /\ \A k \in 0 .. n : f[k] \in V[k]
  BY <1>0, <1>3, <1>4, LoopExists
<1>6. f = [k \in 0 .. n |-> IF k = 0 THEN state ELSE AdvanceRun(items[k], f[k - 1])]
  <2>1. \A k \in 1 .. n : f[k - 1] \in States /\ G[<<f[k - 1], k>>] = AdvanceRun(items[k], f[k - 1])
    BY <1>0, <1>5
  <2> HIDE DEF G
  <2>2. f = [k \in 0 .. n |-> IF k = 0 THEN state ELSE G[<<f[k - 1], k>>]]
    BY <1>5 DEF IsLoop
  <2>3. f = [k \in 0 .. n |-> f[k]]
    BY <2>2
  <2>4. \A k \in 0 .. n : f[k] = IF k = 0 THEN state ELSE G[<<f[k - 1], k>>]
    BY <2>2
  <2>5. \A k \in 0 .. n : f[k] = IF k = 0 THEN state ELSE AdvanceRun(items[k], f[k - 1])
    <3> TAKE k \in 0 .. n
    <3>1. CASE k = 0
      BY <3>1, <2>4
    <3>2. CASE k # 0
      <4>1. k \in 1 .. n
        BY <3>2, <1>0
      <4>2. G[<<f[k - 1], k>>] = AdvanceRun(items[k], f[k - 1])
        BY <2>1, <4>1
      <4>3. f[k] = G[<<f[k - 1], k>>]
        BY <2>4, <3>2
      <4> QED
        BY <3>2, <4>2, <4>3
    <3> QED
      BY <3>1, <3>2
  <2> QED
    BY <2>3, <2>5
<1>7. counted = [k \in 0 .. n |-> IF k = 0 THEN state ELSE AdvanceRun(items[k], counted[k - 1])]
  BY <1>6 DEF Runs
<1> HIDE DEF counted
<1>8. counted[0] = state /\ \A k \in 1 .. n : counted[k] = AdvanceRun(items[k], counted[k - 1])
  <2>1. 0 \in 0 .. n /\ \A k \in 1 .. n : k \in 0 .. n /\ k # 0
    BY <1>0
  <2> QED
    BY <2>1, <1>7
<1>9. \A k \in 0 .. n : counted[k] \in V[k]
  <2>1. counted[0] \in V[0]
    BY <1>3, <1>8
  <2>2. \A k \in 1 .. n : counted[k - 1] \in V[k - 1] => counted[k] \in V[k]
    BY <1>0, <1>2, <1>8
  <2> HIDE DEF V
  <2> QED
    BY <1>0, <2>1, <2>2, LoopStays
<1>10. \A k \in 0 .. n : IsState(counted[k])
  BY <1>1, <1>9
<1> QED
  BY <1>8, <1>10 DEF counted

\* From a point on, one order has the topics and entities, or the runs, of another.
GoesAlong(items, others, m, n) ==
    \A k \in 1 .. n : items[m + k].topic = others[k].topic /\ items[m + k].entity = others[k].entity
RunsAlong(items, s, others, t, m, n) == \A k \in 0 .. n : Runs(items, s)[m + k] = Runs(others, t)[k]

\* Orders of the same topics and entities, from the same state on, have the same runs.
LEMMA RunsFollow ==
    ASSUME NEW E, NEW F, NEW items \in Seq(E), NEW others \in Seq(F),
           NEW s, IsState(s), NEW t, IsState(t), NEW m \in Nat, NEW n \in Nat,
           m + n <= Len(items), n <= Len(others), Runs(items, s)[m] = t,
           GoesAlong(items, others, m, n)
    PROVE  RunsAlong(items, s, others, t, m, n)
<1> DEFINE bad == {k \in 0 .. n : Runs(items, s)[m + k] # Runs(others, t)[k]}
<1> SUFFICES ASSUME bad # {} PROVE FALSE
  BY DEF RunsAlong
<1>1. /\ \A k \in 1 .. Len(items) : Runs(items, s)[k] = AdvanceRun(items[k], Runs(items, s)[k - 1])
      /\ Runs(others, t)[0] = t
      /\ \A k \in 1 .. Len(others) :
            Runs(others, t)[k] = AdvanceRun(others[k], Runs(others, t)[k - 1])
  BY RunsAre
<1>2. PICK k \in bad : \A j \in bad : k <= j
  BY LeastNumber, bad \in SUBSET Nat
<1>3. k \in 0 .. n /\ Runs(items, s)[m + k] # Runs(others, t)[k]
  BY <1>2
<1>4. k # 0
  BY <1>1, <1>3
<1>5. k \in 1 .. n /\ k - 1 \in 0 .. n /\ k - 1 \notin bad
  BY <1>2, <1>3, <1>4
<1>6. Runs(items, s)[m + (k - 1)] = Runs(others, t)[k - 1]
  BY <1>5
<1>7. /\ m + k \in 1 .. Len(items) /\ k \in 1 .. Len(others) /\ (m + k) - 1 = m + (k - 1)
  BY <1>5
<1>8. /\ Runs(items, s)[m + k] = AdvanceRun(items[m + k], Runs(items, s)[m + (k - 1)])
      /\ Runs(others, t)[k] = AdvanceRun(others[k], Runs(others, t)[k - 1])
  BY <1>1, <1>7
<1>9. items[m + k].topic = others[k].topic /\ items[m + k].entity = others[k].entity
  BY <1>5 DEF GoesAlong
<1>10. \A v : AdvanceRun(items[m + k], v) = AdvanceRun(others[k], v)
  BY <1>9 DEF AdvanceRun
<1> QED
  BY <1>3, <1>6, <1>8, <1>10

\* What may be appended depends on the topic and the entity.
LEMMA SameAppend ==
    ASSUME NEW x, NEW y, x.topic = y.topic, x.entity = y.entity, NEW s
    PROVE  (CanAppend(x, s) <=> CanAppend(y, s)) /\ AdvanceRun(x, s) = AdvanceRun(y, s)
  BY DEF CanAppend, AdvanceRun

\* An order with one more item that may be appended is allowed.
LEMMA AllowedMore ==
    ASSUME NEW E, NEW items \in Seq(E), NEW x \in E, NEW state, IsState(state)
    PROVE  /\ \A k \in 0 .. Len(items) : Runs(Append(items, x), state)[k] = Runs(items, state)[k]
           /\ RunsAfter(Append(items, x), state) = AdvanceRun(x, RunsAfter(items, state))
           /\ IsState(RunsAfter(items, state))
           /\ IsAllowed(items, state) /\ CanAppend(x, RunsAfter(items, state)) =>
                 IsAllowed(Append(items, x), state)
<1> DEFINE more == Append(items, x)
           n == Len(items)
<1>1. /\ n \in Nat /\ more \in Seq(E) /\ Len(more) = n + 1 /\ DOMAIN more = 1 .. (n + 1)
      /\ DOMAIN items = 1 .. n
      /\ \A k \in 1 .. n : more[k] = items[k]
      /\ more[n + 1] = x
  OBVIOUS
<1> HIDE DEF more
<1>2. \A k \in 0 .. n : Runs(more, state)[0 + k] = Runs(items, state)[k]
  <2>1. Runs(more, state)[0] = state
    BY <1>1, RunsAre
  <2>2. \A k \in 1 .. n : more[0 + k].topic = items[k].topic /\ more[0 + k].entity = items[k].entity
    BY <1>1
  <2>3. 0 + n <= Len(more) /\ n <= Len(items) /\ 0 \in Nat
    BY <1>1
  <2> HIDE DEF n
  <2>4. GoesAlong(more, items, 0, n)
    BY <2>2 DEF GoesAlong
  <2>5. RunsAlong(more, state, items, state, 0, n)
    BY <1>1, <2>1, <2>3, <2>4, RunsFollow
  <2> QED
    BY <2>5 DEF RunsAlong
<1>3. \A k \in 0 .. n : Runs(more, state)[k] = Runs(items, state)[k]
  <2> TAKE k \in 0 .. n
  <2>1. 0 + k = k
    OBVIOUS
  <2> QED
    BY <1>2, <2>1
<1>4. Runs(more, state)[n + 1] = AdvanceRun(more[n + 1], Runs(more, state)[(n + 1) - 1])
  BY <1>1, RunsAre, n + 1 \in 1 .. Len(more)
<1>5. (n + 1) - 1 = n /\ n \in 0 .. n
  BY <1>1
<1>6. RunsAfter(more, state) = AdvanceRun(x, RunsAfter(items, state))
  BY <1>1, <1>3, <1>4, <1>5 DEF RunsAfter
<1>7. IsState(RunsAfter(items, state))
  BY <1>5, RunsAre DEF RunsAfter
<1>8. ASSUME IsAllowed(items, state), CanAppend(x, RunsAfter(items, state))
      PROVE  IsAllowed(more, state)
  <2> SUFFICES ASSUME NEW k \in 1 .. (n + 1)
               PROVE  CanAppend(more[k], Runs(more, state)[k - 1])
    BY <1>1 DEF IsAllowed
  <2>1. CASE k = n + 1
    BY <2>1, <1>1, <1>3, <1>5, <1>8 DEF RunsAfter
  <2>2. CASE k # n + 1
    <3>1. k \in 1 .. n /\ k - 1 \in 0 .. n
      BY <2>2, <1>1
    <3>2. CanAppend(items[k], Runs(items, state)[k - 1])
      BY <3>1, <1>1, <1>8 DEF IsAllowed
    <3> QED
      BY <3>1, <3>2, <1>1, <1>3
  <2> QED
    BY <2>1, <2>2
<1> QED
  BY <1>3, <1>6, <1>7, <1>8 DEF more

\* Orders of the same topics and entities are allowed alike.
LEMMA AllowedAlike ==
    ASSUME NEW E, NEW F, NEW items \in Seq(E), NEW others \in Seq(F), Len(items) = Len(others),
           NEW s, IsState(s), IsAllowed(items, s),
           \A k \in 1 .. Len(items) : /\ items[k].topic = others[k].topic
                                      /\ items[k].entity = others[k].entity
    PROVE  IsAllowed(others, s)
<1> DEFINE n == Len(items)
<1>1. n \in Nat /\ DOMAIN items = 1 .. n /\ DOMAIN others = 1 .. n
  OBVIOUS
<1>2. Runs(items, s)[0] = s
  BY RunsAre
<1>3. \A k \in 1 .. n : items[0 + k].topic = others[k].topic /\ items[0 + k].entity = others[k].entity
  BY <1>1
<1>4. \A k \in 0 .. n : Runs(items, s)[0 + k] = Runs(others, s)[k]
  <2>1. GoesAlong(items, others, 0, n)
    BY <1>3 DEF GoesAlong
  <2>2. RunsAlong(items, s, others, s, 0, n)
    BY <1>1, <1>2, <2>1, 0 + n <= Len(items), n <= Len(others), RunsFollow
  <2> QED
    BY <2>2 DEF RunsAlong
<1> SUFFICES ASSUME NEW k \in 1 .. n
             PROVE  CanAppend(others[k], Runs(others, s)[k - 1])
  BY <1>1 DEF IsAllowed
<1>5. k - 1 \in 0 .. n /\ 0 + (k - 1) = k - 1
  BY <1>1
<1>6. CanAppend(items[k], Runs(others, s)[k - 1])
  BY <1>1, <1>4, <1>5 DEF IsAllowed
<1>7. items[k].topic = others[k].topic /\ items[k].entity = others[k].entity
  OBVIOUS
<1> QED
  BY <1>6, <1>7, SameAppend

-----------------------------------------------------------------------------
(* Candidates and types.                                                   *)

\* The types and their order.
LEMMA TypesAre ==
    /\ SelectionType = {"PERSONALIZED", "MAJOR", "CONNECTED", "EXPLORATION", "OPPOSITE"}
    /\ \A t \in SelectionType : TypeRank(t) \in 1 .. 5 /\ TypeOrder[TypeRank(t)] = t
    /\ \A t, u \in SelectionType : TypeRank(t) = TypeRank(u) => t = u
    /\ IsFiniteSet(SelectionType)
<1>1. DOMAIN TypeOrder = 1 .. 5
  BY DEF TypeOrder
<1>2. /\ TypeOrder[1] = "PERSONALIZED" /\ TypeOrder[2] = "MAJOR" /\ TypeOrder[3] = "CONNECTED"
      /\ TypeOrder[4] = "EXPLORATION" /\ TypeOrder[5] = "OPPOSITE"
  BY DEF TypeOrder
<1>3. SelectionType = {TypeOrder[k] : k \in 1 .. 5}
  BY <1>1 DEF SelectionType, Range
<1>4. SelectionType = {"PERSONALIZED", "MAJOR", "CONNECTED", "EXPLORATION", "OPPOSITE"}
  <2>1. 1 .. 5 = {1, 2, 3, 4, 5}
    OBVIOUS
  <2> QED
    BY <1>2, <1>3, <2>1
<1>5. \A t \in SelectionType : TypeRank(t) \in 1 .. 5 /\ TypeOrder[TypeRank(t)] = t
  <2> TAKE t \in SelectionType
  <2>1. \E k \in DOMAIN TypeOrder : TypeOrder[k] = t
    BY <1>1, <1>3
  <2>2. TypeRank(t) \in DOMAIN TypeOrder /\ TypeOrder[TypeRank(t)] = t
    BY <2>1 DEF TypeRank
  <2> QED
    BY <1>1, <2>2
<1>6. \A t, u \in SelectionType : TypeRank(t) = TypeRank(u) => t = u
  BY <1>5
<1>7. IsFiniteSet(1 .. 5)
  BY UpTo
<1>8. IsFiniteSet(SelectionType)
  BY <1>3, <1>7, ImageOf
<1> QED
  BY <1>4, <1>5, <1>6, <1>8

\* The first type of some is one of them.
LEMMA LowestIsIn ==
    ASSUME NEW types \in SUBSET SelectionType, types # {}
    PROVE  LowestType(types) \in types
<1> DEFINE T == {TypeRank(t) : t \in types}
<1>1. T \in SUBSET Nat /\ T # {}
  <2>1. \A t \in types : TypeRank(t) \in Nat
    BY TypesAre
  <2> QED
    BY <2>1
<1>2. PICK n \in T : \A m \in T : n <= m
  BY <1>1, LeastNumber
<1>3. \E t \in types : \A u \in types : TypeRank(t) <= TypeRank(u)
  BY <1>2
<1> QED
  BY <1>3 DEF LowestType

\* Things with an id of their own and a score.
Named(A) ==
    /\ IsFiniteSet(A)
    /\ \A x \in A : x.id \in Nat /\ x.score \in Nat
    /\ \A x, y \in A : x.id = y.id => x = y

\* Precedence as a set of pairs.
PrecedenceIn(A) == {p \in A \X A : Precedes(p[1], p[2])}

\* Precedence is an order of them.
LEMMA PrecedenceOrders ==
    ASSUME NEW A, Named(A)
    PROVE  /\ Orders(PrecedenceIn(A), A)
           /\ \A x \in A : Below(PrecedenceIn(A), A, x) = {y \in A : Precedes(y, x)}
           /\ \A x, y \in A : <<x, y>> \in PrecedenceIn(A) <=> Precedes(x, y)
<1>1. \A x, y \in A : <<x, y>> \in PrecedenceIn(A) <=> Precedes(x, y)
  BY DEF PrecedenceIn
<1>2. \A x \in A : ~Precedes(x, x)
  BY DEF Named, Precedes
<1>3. \A x, y, z \in A : Precedes(x, y) /\ Precedes(y, z) => Precedes(x, z)
  BY DEF Named, Precedes
<1>4. \A x, y \in A : x # y => Precedes(x, y) \/ Precedes(y, x)
  <2> SUFFICES ASSUME NEW x \in A, NEW y \in A, x # y
               PROVE  Precedes(x, y) \/ Precedes(y, x)
    OBVIOUS
  <2>1. x.id # y.id /\ x.id \in Nat /\ y.id \in Nat /\ x.score \in Nat /\ y.score \in Nat
    BY DEF Named
  <2> QED
    BY <2>1 DEF Precedes
<1>5. Orders(PrecedenceIn(A), A)
  BY <1>1, <1>2, <1>3, <1>4 DEF Orders
<1>6. \A x \in A : Below(PrecedenceIn(A), A, x) = {y \in A : Precedes(y, x)}
  BY <1>1 DEF Below
<1> QED
  BY <1>1, <1>5, <1>6

\* The foremost of some is one of them.
LEMMA ForemostIsIn ==
    ASSUME NEW A, Named(A), A # {}
    PROVE  Foremost(A) \in A
<1>1. IsFiniteSet(A) /\ Orders(PrecedenceIn(A), A)
  BY PrecedenceOrders DEF Named
<1>2. Cardinality(A) \in Nat /\ Cardinality(A) # 0
  BY <1>1, FS_CardinalityType, FS_EmptySet
<1>3. PICK a \in A : Cardinality(Below(PrecedenceIn(A), A, a)) = 0
  BY <1>1, <1>2, Ranks, 0 \in 0 .. (Cardinality(A) - 1)
<1>4. Below(PrecedenceIn(A), A, a) = {}
  <2>1. Below(PrecedenceIn(A), A, a) \in SUBSET A
    BY DEF Below
  <2>2. IsFiniteSet(Below(PrecedenceIn(A), A, a))
    BY <1>1, <2>1, FS_Subset
  <2> QED
    BY <1>3, <2>2, FS_EmptySet
<1>5. \A b \in A : ~Precedes(b, a)
  BY <1>4, PrecedenceOrders
<1>6. \A b \in A : a = b \/ Precedes(a, b)
  BY <1>1, <1>5, PrecedenceOrders DEF Orders
<1>7. \E x \in A : \A b \in A : x = b \/ Precedes(x, b)
  BY <1>6
<1> QED
  BY <1>7 DEF Foremost

\* A part of named things is named.
LEMMA NamedPart ==
    ASSUME NEW A, Named(A), NEW B \in SUBSET A
    PROVE  Named(B)
  BY FS_Subset DEF Named

\* The first of them in order: without repetition, all if there is room.
LEMMA FirstByPrecedence ==
    ASSUME NEW A, Named(A), NEW n \in Nat
    PROVE  LET f == First(A, n, Precedes) IN
           /\ f \in Seq(A) /\ Len(f) \in Nat /\ DOMAIN f = 1 .. Len(f)
           /\ Len(f) = IF n <= Cardinality(A) THEN n ELSE Cardinality(A)
           /\ \A j, k \in 1 .. Len(f) : f[j] = f[k] => j = k
           /\ n >= Cardinality(A) => \A x \in A : \E k \in 1 .. Len(f) : f[k] = x
<1> DEFINE R == PrecedenceIn(A)
           f == First(A, n, Precedes)
           m == Min({n, Cardinality(A)})
<1>1. IsFiniteSet(A) /\ Orders(R, A) /\ Cardinality(A) \in Nat
  BY PrecedenceOrders, FS_CardinalityType DEF Named
<1>2. \A k \in 1 .. m : \E x \in A : Cardinality(Below(R, A, x)) = k - 1
  BY <1>1, PlaceIsTaken
<1>3. \A x \in A : Below(R, A, x) = {y \in A : Precedes(y, x)}
  BY PrecedenceOrders
<1> DEFINE choice(k) == CHOOSE x \in A : Cardinality({y \in A : Precedes(y, x)}) = k - 1
<1>4. \A k \in 1 .. m : choice(k) \in A /\ Cardinality({y \in A : Precedes(y, choice(k))}) = k - 1
  <2> TAKE k \in 1 .. m
  <2>1. \E x \in A : Cardinality({y \in A : Precedes(y, x)}) = k - 1
    BY <1>2, <1>3
  <2> QED
    BY <2>1
<1>5. f = [k \in 1 .. m |-> choice(k)]
  BY DEF First
<1> HIDE DEF choice, m, R, f
<1>6. /\ f = [k \in 1 .. m |-> f[k]]
      /\ \A k \in 1 .. m : f[k] \in A /\ Cardinality(Below(R, A, f[k])) = k - 1
  BY <1>3, <1>4, <1>5
<1>7. IsFirst(f, A, n, R)
  BY <1>6 DEF IsFirst, m
<1>8. /\ f \in Seq(A) /\ Len(f) \in Nat /\ DOMAIN f = 1 .. Len(f)
      /\ Len(f) = IF n <= Cardinality(A) THEN n ELSE Cardinality(A)
      /\ \A j, k \in 1 .. Len(f) : f[j] = f[k] => j = k
      /\ \A x \in A : Cardinality(Below(R, A, x)) < n => \E k \in 1 .. Len(f) : f[k] = x
  BY <1>1, <1>7, FirstFacts
<1>9. ASSUME n >= Cardinality(A), NEW x \in A PROVE \E k \in 1 .. Len(f) : f[k] = x
  <2>1. Cardinality(Below(R, A, x)) \in 0 .. (Cardinality(A) - 1)
    BY <1>1, Ranks
  <2> QED
    BY <1>1, <1>8, <1>9, <2>1
<1> QED
  BY <1>8, <1>9 DEF f

-----------------------------------------------------------------------------
(* Candidates and items.                                                   *)

\* Candidates: named, each of at least one type.
Candidates(S) == Named(S) /\ \A c \in S : c.types \in SUBSET SelectionType /\ c.types # {}

\* Candidates have an id of their own and a type to be shown as.
LEMMA ScoredAre ==
    ASSUME NEW p, p \in Seq(Range(p))
    PROVE  Candidates(Scored(p)) /\ (p = <<>> => Scored(p) = {})
<1> DEFINE K == {n \in DOMAIN p : n <= CandidateBudget /\ EligibleTypes(p[n]) # {}}
           made(k) == [id |-> k, topic |-> p[k].topic, entity |-> p[k].entity,
                       types |-> EligibleTypes(p[k]), score |-> ScoreOf(p[k])]
           f == [k \in K |-> made(k)]
<1>1. DOMAIN p = 1 .. Len(p) /\ Len(p) \in Nat
  OBVIOUS
<1>2. IsFiniteSet(K) /\ \A k \in K : k \in Nat /\ EligibleTypes(p[k]) # {}
  <2>1. IsFiniteSet(1 .. Len(p))
    BY <1>1, UpTo
  <2>2. K \in SUBSET (1 .. Len(p))
    BY <1>1
  <2> QED
    BY <1>1, <2>1, <2>2, FS_Subset
<1>3. Scored(p) = {f[k] : k \in K}
  <2>1. Scored(p) = {made(k) : k \in K}
    BY DEF Scored
  <2>2. \A k \in K : f[k] = made(k)
    OBVIOUS
  <2> HIDE DEF f, made, K
  <2> QED
    BY <2>1, <2>2
<1>4. IsFiniteSet(Scored(p))
  <2> HIDE DEF f, K
  <2> QED
    BY <1>2, <1>3, ImageOf
<1>5. \A k \in K : f[k].id = k /\ f[k].types = EligibleTypes(p[k]) /\ f[k].score = ScoreOf(p[k])
  OBVIOUS
<1>6. \A i : EligibleTypes(i) \in SUBSET SelectionType
  BY DEF EligibleTypes
<1>7. \A i : ScoreOf(i) \in Nat
  <2>1. \A fact : \A w \in Nat : Points(fact, w) \in Nat
    BY DEF Points
  <2>2. TAKE i
  <2> DEFINE a == Points("category" \in i.match, 25)
             b == Points("entity" \in i.match, 20)
             c == Points(i.connected, 15)
             d == Points("region" \in i.match, 10)
             e == Points("age" \in i.match, 10)
             h == Points(i.high, 10)
  <2>3. a \in Nat /\ b \in Nat /\ c \in Nat /\ d \in Nat /\ e \in Nat /\ h \in Nat
    BY <2>1
  <2>4. ScoreOf(i) = a + b + c + d + e + h
    BY DEF ScoreOf
  <2> HIDE DEF a, b, c, d, e, h
  <2> QED
    BY <2>3, <2>4
<1> HIDE DEF f
<1>8. \A c \in Scored(p) : /\ c.id \in Nat /\ c.score \in Nat /\ c.types \in SUBSET SelectionType
                           /\ c.types # {}
  BY <1>2, <1>3, <1>5, <1>6, <1>7
<1>9. \A x, y \in Scored(p) : x.id = y.id => x = y
  BY <1>3, <1>5
<1>10. p = <<>> => Scored(p) = {}
  <2> SUFFICES ASSUME p = <<>> PROVE Scored(p) = {}
    OBVIOUS
  <2>1. K = {}
    BY <1>1
  <2> QED
    BY <1>3, <2>1
<1> QED
  BY <1>4, <1>8, <1>9, <1>10 DEF Candidates, Named

\* A candidate as each of its types.
ItemsOf(S) == UNION {{As(c, t) : t \in c.types} : c \in S}

\* The candidates an item may be of: the one with its id.
LEMMA ItemsOfAre ==
    ASSUME NEW S, Candidates(S)
    PROVE  /\ IsFiniteSet(ItemsOf(S))
           /\ \A c \in S : \A t \in c.types : As(c, t) \in ItemsOf(S)
           /\ \A x \in ItemsOf(S) : /\ x.id \in Nat /\ x.score \in Nat
                                    /\ x.types \in SUBSET SelectionType /\ x.types # {}
                                    /\ x.as \in x.types
                                    /\ \E c \in S : x = As(c, x.as) /\ x.as \in c.types /\ x.id = c.id
           /\ \A c, t : /\ As(c, t).id = c.id /\ As(c, t).as = t /\ As(c, t).types = c.types
                        /\ As(c, t).topic = c.topic /\ As(c, t).entity = c.entity
                        /\ As(c, t).score = c.score
<1>1. \A c, t : /\ As(c, t).id = c.id /\ As(c, t).as = t /\ As(c, t).types = c.types
                /\ As(c, t).topic = c.topic /\ As(c, t).entity = c.entity
                /\ As(c, t).score = c.score
  BY DEF As
<1>2. \A c \in S : \A t \in c.types : As(c, t) \in ItemsOf(S)
  BY DEF ItemsOf
<1>3. \A x \in ItemsOf(S) : \E c \in S : \E t \in c.types : x = As(c, t)
  BY DEF ItemsOf
<1>4. \A x \in ItemsOf(S) : /\ x.id \in Nat /\ x.score \in Nat
                            /\ x.types \in SUBSET SelectionType /\ x.types # {}
                            /\ x.as \in x.types
                            /\ \E c \in S : x = As(c, x.as) /\ x.as \in c.types /\ x.id = c.id
  <2> TAKE x \in ItemsOf(S)
  <2>1. PICK c \in S : \E t \in c.types : x = As(c, t)
    BY <1>3
  <2>2. PICK t \in c.types : x = As(c, t)
    BY <2>1
  <2>3. x.id = c.id /\ x.as = t /\ x.types = c.types /\ x.score = c.score
    BY <1>1, <2>2
  <2>4. c.id \in Nat /\ c.score \in Nat /\ c.types \in SUBSET SelectionType /\ c.types # {}
    BY DEF Candidates, Named
  <2> QED
    BY <2>2, <2>3, <2>4
<1>5. IsFiniteSet(ItemsOf(S))
  <2> DEFINE f == [c \in S |-> {As(c, t) : t \in c.types}]
             g == [c \in S |-> [t \in c.types |-> As(c, t)]]
  <2>1. ItemsOf(S) = UNION {f[c] : c \in S}
    <3>1. \A c \in S : f[c] = {As(c, t) : t \in c.types}
      OBVIOUS
    <3> HIDE DEF f
    <3> QED
      BY <3>1 DEF ItemsOf
  <2>2. \A c \in S : IsFiniteSet(f[c])
    <3> TAKE c \in S
    <3> DEFINE e == [t \in c.types |-> As(c, t)]
    <3>1. IsFiniteSet(c.types)
      BY TypesAre, FS_Subset DEF Candidates
    <3>2. f[c] = {e[t] : t \in c.types}
      OBVIOUS
    <3> HIDE DEF e, f
    <3> QED
      BY <3>1, <3>2, ImageOf
  <2>3. IsFiniteSet(S)
    BY DEF Candidates, Named
  <2> HIDE DEF f
  <2>4. IsFiniteSet({f[c] : c \in S})
    BY <2>3, ImageOf
  <2> QED
    BY <2>1, <2>2, <2>4, FS_UNION
<1> QED
  BY <1>1, <1>2, <1>4, <1>5

-----------------------------------------------------------------------------
(* Sequences of things, each once.                                         *)

\* No id twice.
Single(o) == \A j, k \in 1 .. Len(o) : o[j].id = o[k].id => j = k

\* Of the items of some candidates, each of a candidate of its own.
Picks(S) == {o \in Seq(ItemsOf(S)) : Single(o)}
Allowed(S, state) == {o \in Picks(S) : IsAllowed(o, state)}

\* There are as many ids as items, and no more than there are to choose from.
LEMMA IdsAre ==
    ASSUME NEW E, NEW o \in Seq(E), Single(o)
    PROVE  /\ IsFiniteSet(Ids(o)) /\ Cardinality(Ids(o)) = Len(o) /\ Len(o) \in Nat
           /\ Ids(o) = {o[k].id : k \in 1 .. Len(o)}
<1> DEFINE n == Len(o)
           f == [k \in 1 .. n |-> o[k].id]
<1>1. n \in Nat /\ DOMAIN o = 1 .. n
  OBVIOUS
<1>2. Ids(o) = {f[k] : k \in 1 .. n}
  <2>1. Ids(o) = {o[k].id : k \in 1 .. n}
    BY <1>1 DEF Ids
  <2>2. \A k \in 1 .. n : f[k] = o[k].id
    OBVIOUS
  <2> HIDE DEF f, n
  <2> QED
    BY <2>1, <2>2
<1>3. \A j, k \in 1 .. n : f[j] = f[k] => j = k
  BY DEF Single
<1>4. IsFiniteSet(1 .. n) /\ Cardinality(1 .. n) = n
  BY <1>1, UpTo
<1>5. Ids(o) = {o[k].id : k \in 1 .. Len(o)}
  BY <1>1 DEF Ids
<1>6. IsFiniteSet(Ids(o)) /\ Cardinality(Ids(o)) = n
  <2> DEFINE D == 1 .. n
  <2>1. \A j, k \in D : f[j] = f[k] => j = k
    BY <1>3
  <2>2. IsFiniteSet(D) /\ Cardinality(D) = n /\ Ids(o) = {f[k] : k \in D}
    BY <1>2, <1>4
  <2> HIDE DEF f, n, D
  <2>3. IsFiniteSet({f[k] : k \in D}) /\ Cardinality({f[k] : k \in D}) = Cardinality(D)
    BY <2>1, <2>2, ImageOf
  <2> QED
    BY <2>2, <2>3
<1> QED
  BY <1>1, <1>5, <1>6

\* Items of named things: as many as there are only when they are all there.
LEMMA IdsOfSome ==
    ASSUME NEW A, Named(A), NEW o, NEW E, o \in Seq(E), Single(o),
           \A k \in 1 .. Len(o) : \E c \in A : o[k].id = c.id
    PROVE  /\ Len(o) <= Cardinality(A) /\ Cardinality(A) \in Nat
           /\ Len(o) = Cardinality(A) => Ids(o) = {c.id : c \in A}
<1> DEFINE f == [c \in A |-> c.id]
           I == {c.id : c \in A}
<1>1. I = {f[c] : c \in A} /\ \A c \in A : f[c] = c.id
  OBVIOUS
<1>2. \A x, y \in A : f[x] = f[y] => x = y
  BY DEF Named
<1>3. IsFiniteSet(A) /\ Cardinality(A) \in Nat
  BY FS_CardinalityType DEF Named
<1>4. IsFiniteSet(I) /\ Cardinality(I) = Cardinality(A)
  <2> HIDE DEF f, I
  <2> QED
    BY <1>1, <1>2, <1>3, ImageOf
<1>5. Ids(o) \in SUBSET I /\ Cardinality(Ids(o)) = Len(o)
  BY IdsAre
<1> HIDE DEF I
<1>6. Cardinality(Ids(o)) <= Cardinality(I) /\ (Cardinality(I) = Cardinality(Ids(o)) => I = Ids(o))
  BY <1>4, <1>5, FS_Subset
<1> QED
  BY <1>3, <1>4, <1>5, <1>6 DEF I

\* A choice of items: each is of one candidate, and all are only when they are as many.
LEMMA PicksAre ==
    ASSUME NEW S, Candidates(S), NEW o \in Picks(S)
    PROVE  /\ Len(o) \in Nat /\ Len(o) <= Cardinality(S) /\ Cardinality(S) \in Nat
           /\ Cardinality(Ids(o)) = Len(o)
           /\ Len(o) = Cardinality(S) => Ids(o) = {c.id : c \in S}
           /\ \A k \in 1 .. Len(o) : \E c \in S : c.id = o[k].id /\ o[k].as \in c.types
<1>1. o \in Seq(ItemsOf(S)) /\ Single(o)
  BY DEF Picks
<1>2. \A k \in 1 .. Len(o) : o[k] \in ItemsOf(S)
  BY <1>1
<1>3. \A k \in 1 .. Len(o) : \E c \in S : c.id = o[k].id /\ o[k].as \in c.types
  BY <1>2, ItemsOfAre
<1>4. Named(S)
  BY DEF Candidates
<1> QED
  BY <1>1, <1>3, <1>4, IdsAre, IdsOfSome

-----------------------------------------------------------------------------
(* What orders are compared by.                                            *)

\* A count of items is a number.
LEMMA CountIs ==
    ASSUME NEW E, NEW o \in Seq(E), NEW t
    PROVE  CountOf(o, t) \in Nat
<1>1. DOMAIN o = 1 .. Len(o) /\ Len(o) \in Nat
  OBVIOUS
<1>2. IsFiniteSet(1 .. Len(o))
  BY <1>1, UpTo
<1>3. {k \in DOMAIN o : o[k].as = t} \in SUBSET (1 .. Len(o))
  BY <1>1
<1> QED
  BY <1>2, <1>3, FS_Subset, FS_CardinalityType DEF CountOf

\* Quotas and the size of a batch are numbers.
LEMMA QuotasAre ==
    /\ \A t \in SelectionType : Quota[t] \in Nat
    /\ BatchSize \in Nat /\ BatchSize # 0
<1>1. \A t \in SelectionType : Quota[t] \in Nat
  BY RecommendationAssumption
<1>2. /\ Quota["PERSONALIZED"] \in Nat /\ Quota["MAJOR"] \in Nat /\ Quota["CONNECTED"] \in Nat
      /\ Quota["EXPLORATION"] \in Nat /\ Quota["OPPOSITE"] \in Nat
  BY <1>1, TypesAre
<1>3. SumOverTypes(Quota) \in Nat
  BY <1>2 DEF SumOverTypes
<1> QED
  BY <1>1, <1>3, RecommendationAssumption

\* The score of the quotas: what each type counts for, up to its quota.
LEMMA QuotaScoreIs ==
    ASSUME NEW E, NEW o \in Seq(E)
    PROVE  QuotaScore(o) \in Nat
<1> DEFINE f == [t \in SelectionType |-> Min({CountOf(o, t), Quota[t]})]
<1>1. \A t \in SelectionType : f[t] \in Nat
  <2> TAKE t \in SelectionType
  <2>1. CountOf(o, t) \in Nat /\ Quota[t] \in Nat
    BY CountIs, QuotasAre
  <2>2. Min({CountOf(o, t), Quota[t]}) \in Nat
    BY <2>1, LesserOf
  <2> QED
    BY <2>2
<1>2. QuotaScore(o) = SumOverTypes(f)
  BY DEF QuotaScore
<1> HIDE DEF f
<1>3. /\ f["PERSONALIZED"] \in Nat /\ f["MAJOR"] \in Nat /\ f["CONNECTED"] \in Nat
      /\ f["EXPLORATION"] \in Nat /\ f["OPPOSITE"] \in Nat
  BY <1>1, TypesAre
<1> QED
  BY <1>2, <1>3 DEF SumOverTypes

\* A sum of scores is a number.
LEMMA ScoreSumIs ==
    ASSUME NEW E, NEW o \in Seq(E), \A k \in 1 .. Len(o) : o[k].score \in Nat
    PROVE  ScoreSum(o) \in Nat
<1> DEFINE n == Len(o)
           pass(v, k) == v + o[k].score
           V == [k \in 0 .. n |-> Nat]
           G == [p \in Nat \X (1 .. n) |-> pass(p[1], p[2])]
<1>0. n \in Nat
  OBVIOUS
<1>1. \A k \in 1 .. n : \A v \in Nat : pass(v, k) \in Nat
  OBVIOUS
<1>2. \A k \in 1 .. n : \A v \in V[k - 1] : G[<<v, k>>] \in V[k]
  <2>1. \A k \in 1 .. n : V[k - 1] = Nat /\ V[k] = Nat
    BY <1>0
  <2>2. \A k \in 1 .. n : \A v \in Nat : G[<<v, k>>] = pass(v, k)
    OBVIOUS
  <2> QED
    BY <1>1, <2>1, <2>2
<1>3. 0 \in V[0]
  BY <1>0
<1>4. PICK f : IsLoop(f, 0, G, n) /\ \A k \in 0 .. n : f[k] \in V[k]
  <2> HIDE DEF G, V, n
  <2> QED
    BY <1>0, <1>2, <1>3, LoopExists
<1>5. f = [k \in 0 .. n |-> IF k = 0 THEN 0 ELSE pass(f[k - 1], k)]
  <2>1. \A k \in 1 .. n : G[<<f[k - 1], k>>] = pass(f[k - 1], k)
    BY <1>0, <1>4
  <2> HIDE DEF G, pass
  <2>2. f = [k \in 0 .. n |-> f[k]] /\ \A k \in 0 .. n : f[k] = IF k = 0 THEN 0 ELSE G[<<f[k - 1], k>>]
    BY <1>4 DEF IsLoop
  <2>3. \A k \in 0 .. n : f[k] = IF k = 0 THEN 0 ELSE pass(f[k - 1], k)
    <3> TAKE k \in 0 .. n
    <3>1. f[k] = IF k = 0 THEN 0 ELSE G[<<f[k - 1], k>>]
      BY <2>2
    <3>2. CASE k = 0
      BY <3>1, <3>2
    <3>3. CASE k # 0
      <4>1. k \in 1 .. n
        BY <3>3, <1>0
      <4>2. f[k] = G[<<f[k - 1], k>>]
        BY <3>1, <3>3
      <4>3. G[<<f[k - 1], k>>] = pass(f[k - 1], k)
        BY <2>1, <4>1
      <4> QED
        BY <3>3, <4>2, <4>3
    <3> QED
      BY <3>2, <3>3
  <2> QED
    BY <2>2, <2>3
<1> DEFINE after == CHOOSE g : g = [k \in 0 .. n |-> IF k = 0 THEN 0 ELSE pass(g[k - 1], k)]
<1>6. after = [k \in 0 .. n |-> IF k = 0 THEN 0 ELSE pass(after[k - 1], k)]
  <2> HIDE DEF pass
  <2> QED
    BY <1>5
<1>7. ScoreSum(o) = after[n]
  BY DEF ScoreSum, Loop
<1> HIDE DEF after
<1>8. after[0] = 0 /\ \A k \in 1 .. n : after[k] = pass(after[k - 1], k)
  <2> HIDE DEF pass
  <2>1. 0 \in 0 .. n /\ \A k \in 1 .. n : k \in 0 .. n /\ k # 0
    BY <1>0
  <2> QED
    BY <1>6, <2>1
<1>9. \A k \in 0 .. n : after[k] \in V[k]
  <2>1. \A k \in 1 .. n : after[k - 1] \in V[k - 1] => after[k] \in V[k]
    BY <1>0, <1>1, <1>8
  <2>2. after[0] \in V[0]
    BY <1>3, <1>8
  <2> HIDE DEF V, n
  <2> QED
    BY <1>0, <2>1, <2>2, LoopStays
<1> QED
  BY <1>0, <1>7, <1>9

\* Sequences of numbers of one length, in lexicographic order.
LEMMA LexOrders ==
    ASSUME NEW n \in Nat, NEW s \in [1 .. n -> Nat], NEW t \in [1 .. n -> Nat]
    PROVE  /\ ~LexLess(s, s)
           /\ s # t => LexLess(s, t) \/ LexLess(t, s)
           /\ \A u \in [1 .. n -> Nat] : LexLess(s, t) /\ LexLess(t, u) => LexLess(s, u)
<1>1. ~LexLess(s, s)
  BY DEF LexLess
<1>2. ASSUME s # t PROVE LexLess(s, t) \/ LexLess(t, s)
  <2> DEFINE D == {k \in 1 .. n : s[k] # t[k]}
  <2>1. D # {} /\ D \in SUBSET Nat
    BY <1>2
  <2>2. PICK k \in D : \A j \in D : k <= j
    BY <2>1, LeastNumber
  <2>3. \A j \in 1 .. (k - 1) : s[j] = t[j]
    BY <2>2
  <2>4. k \in 1 .. n /\ s[k] \in Nat /\ t[k] \in Nat /\ s[k] # t[k]
    BY <2>2
  <2>5. s[k] < t[k] \/ t[k] < s[k]
    BY <2>4
  <2>6. k \in DOMAIN s /\ k \in DOMAIN t /\ \A j \in 1 .. (k - 1) : t[j] = s[j]
    BY <2>3, <2>4
  <2> QED
    BY <2>3, <2>5, <2>6 DEF LexLess
<1>3. ASSUME NEW u \in [1 .. n -> Nat], LexLess(s, t), LexLess(t, u) PROVE LexLess(s, u)
  <2>1. PICK j \in 1 .. n : s[j] < t[j] /\ \A i \in 1 .. (j - 1) : s[i] = t[i]
    BY <1>3 DEF LexLess
  <2>2. PICK k \in 1 .. n : t[k] < u[k] /\ \A i \in 1 .. (k - 1) : t[i] = u[i]
    BY <1>3 DEF LexLess
  <2> DEFINE m == IF j <= k THEN j ELSE k
  <2>3. m \in 1 .. n /\ \A i \in 1 .. (m - 1) : i \in 1 .. n /\ s[i] = t[i] /\ t[i] = u[i]
    BY <2>1, <2>2
  <2>4. s[m] < u[m]
    <3>1. CASE j < k
      <4>1. m = j /\ j \in 1 .. (k - 1)
        BY <3>1
      <4> QED
        BY <4>1, <2>1, <2>2
    <3>2. CASE j = k
      <4>1. s[j] \in Nat /\ t[j] \in Nat /\ u[j] \in Nat
        OBVIOUS
      <4> QED
        BY <3>2, <4>1, <2>1, <2>2
    <3>3. CASE j > k
      <4>1. m = k /\ k \in 1 .. (j - 1)
        BY <3>3
      <4> QED
        BY <4>1, <2>1, <2>2
    <3> QED
      BY <3>1, <3>2, <3>3
  <2>5. DOMAIN s = 1 .. n
    OBVIOUS
  <2> HIDE DEF m
  <2> QED
    BY <2>3, <2>4, <2>5 DEF LexLess
<1> QED
  BY <1>1, <1>2, <1>3

\* The ids of an order, and what is better as a set of pairs.
IdsIn(o) == [k \in DOMAIN o |-> o[k].id]

\* The ids of an order tell it from others as long.
LEMMA IdsInAre ==
    ASSUME NEW A, Named(A), NEW o \in Seq(A), NEW p \in Seq(A), Len(o) = Len(p)
    PROVE  /\ IdsIn(o) \in [1 .. Len(o) -> Nat]
           /\ IdsIn(o) = IdsIn(p) => o = p
<1>1. DOMAIN o = 1 .. Len(o) /\ DOMAIN p = 1 .. Len(o) /\ Len(o) \in Nat
  OBVIOUS
<1>2. \A k \in 1 .. Len(o) : o[k] \in A /\ p[k] \in A
  BY <1>1
<1>3. \A k \in 1 .. Len(o) : o[k].id \in Nat
  BY <1>2 DEF Named
<1>4. IdsIn(o) \in [1 .. Len(o) -> Nat]
  BY <1>1, <1>3 DEF IdsIn
<1>5. ASSUME IdsIn(o) = IdsIn(p) PROVE o = p
  <2>1. \A k \in 1 .. Len(o) : o[k].id = p[k].id
    <3> TAKE k \in 1 .. Len(o)
    <3>1. IdsIn(o)[k] = o[k].id /\ IdsIn(p)[k] = p[k].id
      BY <1>1 DEF IdsIn
    <3> QED
      BY <3>1, <1>5
  <2>2. \A k \in 1 .. Len(o) : o[k] = p[k]
    BY <1>2, <2>1 DEF Named
  <2>3. o = [k \in 1 .. Len(o) |-> o[k]] /\ p = [k \in 1 .. Len(o) |-> p[k]]
    BY <1>1
  <2> QED
    BY <2>2, <2>3
<1> QED
  BY <1>4, <1>5

BetterIn(X) == {p \in X \X X : Better(p[1], p[2])}

\* Orders of named things are ordered by what is better.
LEMMA BetterOrders ==
    ASSUME NEW A, Named(A), NEW X \in SUBSET Seq(A)
    PROVE  /\ Orders(BetterIn(X), X)
           /\ \A a, b \in X : <<a, b>> \in BetterIn(X) <=> Better(a, b)
           /\ \A a \in X : Below(BetterIn(X), X, a) = {b \in X : Better(b, a)}
<1>1. \A a, b \in X : <<a, b>> \in BetterIn(X) <=> Better(a, b)
  BY DEF BetterIn
<1>2. \A a \in X : Len(a) \in Nat /\ QuotaScore(a) \in Nat /\ ScoreSum(a) \in Nat
  <2> TAKE a \in X
  <2>1. a \in Seq(A)
    OBVIOUS
  <2>2. \A k \in 1 .. Len(a) : a[k].score \in Nat
    BY <2>1 DEF Named
  <2> QED
    BY <2>1, <2>2, QuotaScoreIs, ScoreSumIs
<1>3. \A a, b : LexLess([k \in DOMAIN a |-> a[k].id], [k \in DOMAIN b |-> b[k].id])
                  <=> LexLess(IdsIn(a), IdsIn(b))
  BY DEF IdsIn
<1>4. \A a, b \in X : Better(a, b) <=>
        \/ Len(a) > Len(b)
        \/ /\ Len(a) = Len(b)
           /\ \/ QuotaScore(a) > QuotaScore(b)
              \/ /\ QuotaScore(a) = QuotaScore(b)
                 /\ \/ ScoreSum(a) > ScoreSum(b)
                    \/ ScoreSum(a) = ScoreSum(b) /\ LexLess(IdsIn(a), IdsIn(b))
  BY <1>3 DEF Better
<1>5. \A a \in X : ~LexLess(IdsIn(a), IdsIn(a))
  BY IdsInAre, LexOrders
<1>6. \A a, b \in X : Len(a) = Len(b) /\ a # b => LexLess(IdsIn(a), IdsIn(b)) \/ LexLess(IdsIn(b), IdsIn(a))
  <2> SUFFICES ASSUME NEW a \in X, NEW b \in X, Len(a) = Len(b), a # b
               PROVE  LexLess(IdsIn(a), IdsIn(b)) \/ LexLess(IdsIn(b), IdsIn(a))
    OBVIOUS
  <2>1. /\ IdsIn(a) \in [1 .. Len(a) -> Nat] /\ IdsIn(b) \in [1 .. Len(a) -> Nat]
        /\ IdsIn(a) # IdsIn(b) /\ Len(a) \in Nat
    BY IdsInAre, <1>2
  <2> QED
    BY <2>1, LexOrders
<1>7. \A a, b, c \in X : Len(a) = Len(b) /\ Len(b) = Len(c)
                         /\ LexLess(IdsIn(a), IdsIn(b)) /\ LexLess(IdsIn(b), IdsIn(c))
                         => LexLess(IdsIn(a), IdsIn(c))
  <2> SUFFICES ASSUME NEW a \in X, NEW b \in X, NEW c \in X, Len(a) = Len(b), Len(b) = Len(c),
                      LexLess(IdsIn(a), IdsIn(b)), LexLess(IdsIn(b), IdsIn(c))
               PROVE  LexLess(IdsIn(a), IdsIn(c))
    OBVIOUS
  <2>1. /\ IdsIn(a) \in [1 .. Len(a) -> Nat] /\ IdsIn(b) \in [1 .. Len(a) -> Nat]
        /\ IdsIn(c) \in [1 .. Len(a) -> Nat] /\ Len(a) \in Nat
    BY IdsInAre, <1>2
  <2> QED
    BY <2>1, LexOrders
<1>8. \A a \in X : ~Better(a, a)
  BY <1>2, <1>4, <1>5
<1>9. \A a, b \in X : a # b => Better(a, b) \/ Better(b, a)
  <2> SUFFICES ASSUME NEW a \in X, NEW b \in X, a # b PROVE Better(a, b) \/ Better(b, a)
    OBVIOUS
  <2>1. CASE Len(a) = Len(b)
    BY <1>2, <1>4, <1>6, <2>1
  <2>2. CASE Len(a) # Len(b)
    BY <1>2, <1>4, <2>2
  <2> QED
    BY <2>1, <2>2
<1>10. \A a, b, c \in X : Better(a, b) /\ Better(b, c) => Better(a, c)
  <2> SUFFICES ASSUME NEW a \in X, NEW b \in X, NEW c \in X, Better(a, b), Better(b, c)
               PROVE  Better(a, c)
    OBVIOUS
  <2>1. CASE Len(a) = Len(b) /\ Len(b) = Len(c)
    BY <1>2, <1>4, <1>7, <2>1
  <2>2. CASE ~(Len(a) = Len(b) /\ Len(b) = Len(c))
    BY <1>2, <1>4, <2>2
  <2> QED
    BY <2>1, <2>2
<1>11. Orders(BetterIn(X), X)
  BY <1>1, <1>8, <1>9, <1>10 DEF Orders
<1>12. \A a \in X : Below(BetterIn(X), X, a) = {b \in X : Better(b, a)}
  BY <1>1 DEF Below
<1> QED
  BY <1>1, <1>11, <1>12

\* The first of a finite set by an order.
LEMMA LeastByOrder ==
    ASSUME NEW X, IsFiniteSet(X), X # {}, NEW R, Orders(R, X)
    PROVE  \E a \in X : \A b \in X : a = b \/ <<a, b>> \in R
<1>1. Cardinality(X) \in Nat /\ Cardinality(X) # 0
  BY FS_CardinalityType, FS_EmptySet
<1>2. PICK a \in X : Cardinality(Below(R, X, a)) = 0
  BY <1>1, Ranks, 0 \in 0 .. (Cardinality(X) - 1)
<1>3. Below(R, X, a) = {}
  <2>1. Below(R, X, a) \in SUBSET X
    BY DEF Below
  <2>2. IsFiniteSet(Below(R, X, a))
    BY <2>1, FS_Subset
  <2> QED
    BY <1>2, <2>2, FS_EmptySet
<1>4. \A b \in X : <<b, a>> \notin R
  BY <1>3 DEF Below
<1> QED
  BY <1>4 DEF Orders

\* The best of some orders is one of them.
LEMMA BestIsIn ==
    ASSUME NEW A, Named(A), NEW X \in SUBSET Seq(A), IsFiniteSet(X), X # {}
    PROVE  BestIn(X) \in X
<1>1. \E a \in X : \A b \in X : a = b \/ <<a, b>> \in BetterIn(X)
  <2>1. Orders(BetterIn(X), X)
    BY BetterOrders
  <2> QED
    BY <2>1, LeastByOrder
<1>2. \E a \in X : \A b \in X : a = b \/ Better(a, b)
  BY <1>1, BetterOrders
<1> QED
  BY <1>2 DEF BestIn

\* A function on the first numbers is a sequence.
LEMMA FunctionIsSequence ==
    ASSUME NEW R, NEW n \in Nat, NEW o \in [1 .. n -> R]
    PROVE  o \in Seq(R)
  OBVIOUS

\* The range of a sequence.
LEMMA RangeIs ==
    ASSUME NEW E, NEW o \in Seq(E)
    PROVE  /\ Range(o) = {o[k] : k \in 1 .. Len(o)} /\ Range(o) \in SUBSET E /\ IsFiniteSet(Range(o))
           /\ o \in Seq(Range(o))
<1>1. DOMAIN o = 1 .. Len(o) /\ Len(o) \in Nat
  OBVIOUS
<1>2. Range(o) = {o[k] : k \in 1 .. Len(o)}
  BY <1>1 DEF Range
<1>3. IsFiniteSet(1 .. Len(o))
  BY <1>1, UpTo
<1>4. IsFiniteSet(Range(o))
  BY <1>2, <1>3, ImageOf
<1>5. o = [k \in 1 .. Len(o) |-> o[k]] /\ \A k \in 1 .. Len(o) : o[k] \in Range(o)
  BY <1>1, <1>2
<1>6. o \in Seq(Range(o))
  <2> DEFINE R == Range(o)
             I == 1 .. Len(o)
  <2>1. o = [k \in I |-> o[k]] /\ \A k \in I : o[k] \in R
    BY <1>5
  <2>2. o \in [I -> R]
    <3> HIDE DEF R, I
    <3> QED
      BY <2>1
  <2> HIDE DEF R
  <2>3. o \in Seq(R)
    BY <1>1, <2>2, FunctionIsSequence
  <2> QED
    BY <2>3 DEF R
<1> QED
  BY <1>1, <1>2, <1>4, <1>6

\* The items of a choice have an id of their own.
LEMMA ChosenAreNamed ==
    ASSUME NEW S, Candidates(S), NEW sel \in Picks(S)
    PROVE  /\ Named(Range(sel)) /\ Range(sel) \in SUBSET ItemsOf(S)
           /\ Cardinality(Range(sel)) = Len(sel)
<1>1. sel \in Seq(ItemsOf(S)) /\ Single(sel)
  BY DEF Picks
<1>2. Range(sel) = {sel[k] : k \in 1 .. Len(sel)} /\ Range(sel) \in SUBSET ItemsOf(S) /\ IsFiniteSet(Range(sel))
  BY <1>1, RangeIs
<1>3. \A x \in Range(sel) : x.id \in Nat /\ x.score \in Nat
  BY <1>2, ItemsOfAre
<1>4. \A x, y \in Range(sel) : x.id = y.id => x = y
  BY <1>1, <1>2 DEF Single
<1>5. \A j, k \in 1 .. Len(sel) : sel[j] = sel[k] => j = k
  BY <1>1 DEF Single
<1>6. Cardinality(Range(sel)) = Len(sel)
  <2> DEFINE I == 1 .. Len(sel)
  <2>1. Len(sel) \in Nat
    BY <1>1
  <2>2. IsFiniteSet(I) /\ Cardinality(I) = Len(sel)
    BY <2>1, UpTo
  <2>3. IsImage(Range(sel), sel, I)
    BY <1>2, <1>5 DEF IsImage
  <2> HIDE DEF I
  <2>4. Cardinality(Range(sel)) = Cardinality(I)
    BY <2>2, <2>3, ImageSize
  <2> QED
    BY <2>2, <2>4
<1> QED
  BY <1>2, <1>3, <1>4, <1>6 DEF Named

\* A sequence with one more thing that is not in it.
LEMMA SingleMore ==
    ASSUME NEW E, NEW o \in Seq(E), Single(o), NEW x \in E,
           \A k \in 1 .. Len(o) : o[k].id # x.id
    PROVE  /\ Append(o, x) \in Seq(E) /\ Single(Append(o, x)) /\ Len(Append(o, x)) = Len(o) + 1
<1>1. Len(o) \in Nat /\ Append(o, x) \in Seq(E) /\ Len(Append(o, x)) = Len(o) + 1
  OBVIOUS
<1>2. \A k \in 1 .. Len(o) : Append(o, x)[k] = o[k]
  OBVIOUS
<1>3. Append(o, x)[Len(o) + 1] = x
  OBVIOUS
<1> DEFINE p == Append(o, x)
<1>4. ASSUME NEW j \in 1 .. (Len(o) + 1), NEW k \in 1 .. (Len(o) + 1), p[j].id = p[k].id
      PROVE  j = k
  <2>1. CASE j # Len(o) + 1 /\ k # Len(o) + 1
    <3>1. j \in 1 .. Len(o) /\ k \in 1 .. Len(o)
      BY <2>1, <1>1
    <3>2. p[j] = o[j] /\ p[k] = o[k]
      BY <3>1, <1>2
    <3> QED
      BY <3>1, <3>2, <1>4 DEF Single
  <2>2. CASE j = Len(o) + 1 /\ k # Len(o) + 1
    <3>1. k \in 1 .. Len(o)
      BY <2>2, <1>1
    <3>2. p[j] = x /\ p[k] = o[k]
      BY <3>1, <1>2, <1>3, <2>2
    <3> QED
      BY <3>1, <3>2, <1>4
  <2>3. CASE j # Len(o) + 1 /\ k = Len(o) + 1
    <3>1. j \in 1 .. Len(o)
      BY <2>3, <1>1
    <3>2. p[k] = x /\ p[j] = o[j]
      BY <3>1, <1>2, <1>3, <2>3
    <3> QED
      BY <3>1, <3>2, <1>4
  <2> QED
    BY <2>1, <2>2, <2>3
<1> HIDE DEF p
<1>5. Single(p)
  BY <1>1, <1>4 DEF Single, p
<1> QED
  BY <1>1, <1>5 DEF p

\* The best order of some items: of them, each once, and allowed.
LEMMA BestOrderIs ==
    ASSUME NEW S, Candidates(S), NEW state, IsState(state), NEW sel \in Picks(S)
    PROVE  BestOrder(sel, state) \in Allowed(S, state) /\ Len(BestOrder(sel, state)) <= Len(sel)
<1> DEFINE A == Range(sel)
           D == Seq(A)
           Right(s) == Single(s) /\ IsAllowed(s, state)
           B == [s \in D |-> {o \in D : Right(s) => Right(o)}]
           rank == [s \in D |-> Cardinality(A \ Range(s))]
           next(s) == {x \in A \ Range(s) : CanAppend(x, RunsAfter(s, state))}
           Ways(h, s) == {h[Append(s, x)] : x \in next(s)} \cup {s}
           G == [p \in D \X [D -> D] |-> BestIn(Ways(p[2], p[1]))]
           n == Cardinality(A)
<1>1. Named(A) /\ A \in SUBSET ItemsOf(S) /\ n = Len(sel)
  BY ChosenAreNamed
<1>2. IsFiniteSet(A) /\ n \in Nat
  BY <1>1, FS_CardinalityType DEF Named
<1> HIDE DEF A
<1>3. rank \in [D -> 0 .. n]
  <2> SUFFICES ASSUME NEW s \in D PROVE Cardinality(A \ Range(s)) \in 0 .. n
    OBVIOUS
  <2>1. A \ Range(s) \in SUBSET A
    OBVIOUS
  <2> QED
    BY <1>2, <2>1, FS_Subset, FS_CardinalityType
<1>4. \A s \in D : \A x \in next(s) :
         /\ Append(s, x) \in D /\ rank[Append(s, x)] < rank[s]
         /\ Right(s) => Right(Append(s, x))
  <2> TAKE s \in D
  <2> TAKE x \in next(s)
  <2>1. x \in A /\ x \notin Range(s) /\ Append(s, x) \in D /\ CanAppend(x, RunsAfter(s, state))
    OBVIOUS
  <2>2. Range(s) = {s[k] : k \in 1 .. Len(s)} /\ Range(s) \in SUBSET A
    BY RangeIs
  <2>3. Range(Append(s, x)) = Range(s) \cup {x}
    <3>0. Len(Append(s, x)) = Len(s) + 1
      OBVIOUS
    <3>1. Range(Append(s, x)) = {Append(s, x)[k] : k \in 1 .. (Len(s) + 1)}
      <4>1. Range(Append(s, x)) = {Append(s, x)[k] : k \in 1 .. Len(Append(s, x))}
        BY <2>1, RangeIs
      <4> QED
        BY <3>0, <4>1
    <3>2. \A k \in 1 .. Len(s) : Append(s, x)[k] = s[k] /\ k \in 1 .. (Len(s) + 1)
      OBVIOUS
    <3>3. Append(s, x)[Len(s) + 1] = x /\ Len(s) + 1 \in 1 .. (Len(s) + 1) /\ Len(s) \in Nat
      OBVIOUS
    <3>4. \A k \in 1 .. (Len(s) + 1) : k \in 1 .. Len(s) \/ k = Len(s) + 1
      OBVIOUS
    <3> QED
      BY <3>1, <3>2, <3>3, <3>4, <2>2
  <2>4. A \ Range(Append(s, x)) = (A \ Range(s)) \ {x} /\ x \in A \ Range(s)
    BY <2>1, <2>3
  <2>5. IsFiniteSet(A \ Range(s))
    BY <1>2, FS_Difference
  <2>6. Cardinality((A \ Range(s)) \ {x}) \in Nat
        /\ Cardinality(A \ Range(s)) = Cardinality((A \ Range(s)) \ {x}) + 1
    BY <2>4, <2>5, TakenOut
  <2>7. rank[Append(s, x)] < rank[s]
    <3>1. rank[Append(s, x)] = Cardinality(A \ Range(Append(s, x))) /\ rank[s] = Cardinality(A \ Range(s))
      BY <2>1
    <3>2. Cardinality(A \ Range(Append(s, x))) = Cardinality((A \ Range(s)) \ {x})
      BY <2>4
    <3> DEFINE a == Cardinality((A \ Range(s)) \ {x})
               b == Cardinality(A \ Range(s))
    <3>3. a \in Nat /\ b = a + 1 /\ rank[Append(s, x)] = a /\ rank[s] = b
      BY <3>1, <3>2, <2>6
    <3> HIDE DEF rank, a, b
    <3> QED
      BY <3>3
  <2>8. \A k \in 1 .. Len(s) : s[k].id # x.id
    BY <1>1, <2>1, <2>2 DEF Named
  <2>9. ASSUME Right(s) PROVE Right(Append(s, x))
    BY <2>1, <2>8, <2>9, SingleMore, AllowedMore
  <2> QED
    BY <2>1, <2>7, <2>9
<1>5. \A s \in D : \A h : (\A y \in D : rank[y] < rank[s] => h[y] \in B[y])
         => BestIn(Ways(h, s)) \in B[s]
  <2> SUFFICES ASSUME NEW s \in D, NEW h, \A y \in D : rank[y] < rank[s] => h[y] \in B[y]
               PROVE  BestIn(Ways(h, s)) \in B[s]
    OBVIOUS
  <2> DEFINE e == [x \in next(s) |-> h[Append(s, x)]]
  <2>1. \A x \in next(s) : e[x] \in D /\ (Right(s) => Right(e[x]))
    <3> TAKE x \in next(s)
    <3>1. Append(s, x) \in D /\ rank[Append(s, x)] < rank[s] /\ (Right(s) => Right(Append(s, x)))
      BY <1>4
    <3>2. h[Append(s, x)] \in B[Append(s, x)]
      BY <3>1
    <3> HIDE DEF next, rank, Right
    <3> QED
      BY <3>1, <3>2
  <2>2. Ways(h, s) = {e[x] : x \in next(s)} \cup {s}
    <3>1. \A x \in next(s) : e[x] = h[Append(s, x)]
      OBVIOUS
    <3> HIDE DEF e, next
    <3> QED
      BY <3>1
  <2>3. IsFiniteSet(next(s))
    <3>1. next(s) \in SUBSET A
      OBVIOUS
    <3> QED
      BY <3>1, <1>2, FS_Subset
  <2> HIDE DEF e, next, Ways, Right
  <2>4. IsFiniteSet(Ways(h, s)) /\ Ways(h, s) # {} /\ Ways(h, s) \in SUBSET Seq(A)
    <3>1. IsFiniteSet({e[x] : x \in next(s)})
      BY <2>3, ImageOf
    <3>2. IsFiniteSet({e[x] : x \in next(s)} \cup {s})
      BY <3>1, FS_AddElement
    <3> QED
      BY <2>1, <2>2, <3>2
  <2>5. BestIn(Ways(h, s)) \in Ways(h, s)
    BY <1>1, <2>4, BestIsIn
  <2>6. \A o \in Ways(h, s) : o \in D /\ (Right(s) => Right(o))
    BY <2>1, <2>2
  <2> QED
    BY <2>5, <2>6
<1>6. \A f : FitsIn(f, D, B) => f \in [D -> D]
  BY DEF FitsIn
<1>7. \A s \in D : \A f : FitsIn(f, D, B) => G[<<s, f>>] = BestIn(Ways(f, s))
  <2> HIDE DEF D, B, Ways
  <2> QED
    BY <1>6
<1>8. MakesFit(G, D, B)
  <2> SUFFICES ASSUME NEW s \in D, NEW f, FitsIn(f, D, B) PROVE G[<<s, f>>] \in B[s]
    BY DEF MakesFit
  <2>1. \A y \in D : f[y] \in B[y]
    BY DEF FitsIn
  <2> HIDE DEF D, B, Ways, G, rank
  <2> QED
    BY <1>5, <1>7, <2>1
<1>9. LooksDown(G, D, B, rank)
  <2> SUFFICES ASSUME NEW s \in D, NEW f, NEW g, FitsIn(f, D, B), FitsIn(g, D, B),
                      \A y \in D : rank[y] < rank[s] => f[y] = g[y]
               PROVE  G[<<s, f>>] = G[<<s, g>>]
    <3> HIDE DEF G, D, B, rank
    <3> QED
      BY DEF LooksDown
  <2>1. \A x \in next(s) : f[Append(s, x)] = g[Append(s, x)]
    <3> HIDE DEF next, rank, D, Right
    <3> QED
      BY <1>4
  <2>2. Ways(f, s) = Ways(g, s)
    <3> HIDE DEF next
    <3> QED
      BY <2>1
  <2> HIDE DEF D, B, Ways, G
  <2> QED
    BY <1>7, <2>2
<1> DEFINE f0 == [s \in D |-> s]
<1>10. FitsIn(f0, D, B)
  BY DEF FitsIn
<1>11. PICK f : SolvesFor(f, G, D, B)
  <2> HIDE DEF D, B, G, rank, n, f0
  <2> QED
    BY <1>2, <1>3, <1>8, <1>9, <1>10, RecursionExists
<1>12. f = [s \in D |-> BestIn(Ways(f, s))]
  <2>1. f = [s \in D |-> f[s]] /\ \A s \in D : f[s] = BestIn(Ways(f, s))
    <3> HIDE DEF D, B, G, Ways
    <3> QED
      BY <1>7, <1>11 DEF FitsIn, SolvesFor
  <2> HIDE DEF D, Ways
  <2> QED
    BY <2>1
<1> DEFINE search == CHOOSE g : g = [s \in D |-> BestIn(Ways(g, s))]
<1>13. search = [s \in D |-> BestIn(Ways(search, s))]
  <2> HIDE DEF D, Ways
  <2> QED
    BY <1>12
<1>14. BestOrder(sel, state) = search[<<>>]
  BY DEF BestOrder, SearchOrder, A
<1> HIDE DEF search
<1>15. \A s \in D : search[s] \in B[s]
  <2>1. \A s \in D : search[s] = BestIn(Ways(search, s))
    <3> HIDE DEF D, Ways
    <3> QED
      BY <1>13
  <2> HIDE DEF D, B, rank, Ways, n
  <2>2. StaysIn(search, D, B, rank)
    BY <1>5, <2>1 DEF StaysIn
  <2> QED
    BY <1>2, <1>3, <2>2, RecursionStays
<1>16. <<>> \in D /\ Right(<<>>)
  BY DEF Single, IsAllowed
<1>17. search[<<>>] \in Seq(A) /\ Single(search[<<>>]) /\ IsAllowed(search[<<>>], state)
  BY <1>15, <1>16
<1>18. Len(search[<<>>]) <= n
  <2>1. \A k \in 1 .. Len(search[<<>>]) : \E c \in A : search[<<>>][k].id = c.id
    BY <1>17
  <2> QED
    BY <1>1, <1>17, <2>1, IdsOfSome
<1>19. Seq(A) \subseteq Seq(ItemsOf(S))
  BY <1>1
<1> QED
  BY <1>1, <1>14, <1>17, <1>18, <1>19 DEF Allowed, Picks

-----------------------------------------------------------------------------
(* Sums over the types, and the slots.                                     *)

\* A set of two parts has as many elements as both.
LEMMA UnionOfTwo ==
    ASSUME NEW X, NEW Y, NEW Z, IsFiniteSet(X), IsFiniteSet(Y), X \cap Y = {}, Z = X \cup Y
    PROVE  IsFiniteSet(Z) /\ Cardinality(Z) = Cardinality(X) + Cardinality(Y)
<1>1. /\ IsFiniteSet(X \cup Y)
      /\ Cardinality(X \cup Y) = Cardinality(X) + Cardinality(Y) - Cardinality(X \cap Y)
  BY FS_Union
<1>2. Cardinality(X \cap Y) = 0
  BY FS_EmptySet
<1>3. Cardinality(X) \in Nat /\ Cardinality(Y) \in Nat
  BY FS_CardinalityType
<1> QED
  BY <1>1, <1>2, <1>3

\* Z is of two finite parts.
InTwo(Z, X, Y) == IsFiniteSet(X) /\ IsFiniteSet(Y) /\ X \cap Y = {} /\ Z = X \cup Y

\* A set of two parts has as many elements as both.
LEMMA SizeOfTwo ==
    ASSUME NEW X, NEW Y, NEW Z, InTwo(Z, X, Y)
    PROVE  IsFiniteSet(Z) /\ Cardinality(Z) = Cardinality(X) + Cardinality(Y)
  BY UnionOfTwo DEF InTwo

\* The members of each type are together all.
LEMMA SumOfTypes ==
    ASSUME NEW A, IsFiniteSet(A), NEW g, \A a \in A : g[a] \in SelectionType
    PROVE  SumOverTypes([t \in SelectionType |-> Cardinality({a \in A : g[a] = t})]) = Cardinality(A)
<1> DEFINE P(t) == {a \in A : g[a] = t}
           f == [t \in SelectionType |-> Cardinality(P(t))]
           p1 == P("PERSONALIZED")
           p2 == P("MAJOR")
           p3 == P("CONNECTED")
           p4 == P("EXPLORATION")
           p5 == P("OPPOSITE")
<1>1. A = (((p1 \cup p2) \cup p3) \cup p4) \cup p5
  BY TypesAre
<1>2. /\ p1 \cap p2 = {} /\ (p1 \cup p2) \cap p3 = {} /\ ((p1 \cup p2) \cup p3) \cap p4 = {}
      /\ (((p1 \cup p2) \cup p3) \cup p4) \cap p5 = {}
  OBVIOUS
<1>3. \A t : IsFiniteSet(P(t)) /\ Cardinality(P(t)) \in Nat
  <2> TAKE t
  <2>1. P(t) \in SUBSET A
    OBVIOUS
  <2> HIDE DEF P
  <2> QED
    BY <2>1, FS_Subset, FS_CardinalityType
<1>4. /\ f["PERSONALIZED"] = Cardinality(p1) /\ f["MAJOR"] = Cardinality(p2)
      /\ f["CONNECTED"] = Cardinality(p3) /\ f["EXPLORATION"] = Cardinality(p4)
      /\ f["OPPOSITE"] = Cardinality(p5)
  <2> HIDE DEF P
  <2> QED
    BY TypesAre
<1>5. /\ IsFiniteSet(p1) /\ IsFiniteSet(p2) /\ IsFiniteSet(p3) /\ IsFiniteSet(p4) /\ IsFiniteSet(p5)
      /\ Cardinality(p1) \in Nat /\ Cardinality(p2) \in Nat /\ Cardinality(p3) \in Nat
      /\ Cardinality(p4) \in Nat /\ Cardinality(p5) \in Nat
  <2> HIDE DEF P
  <2> QED
    BY <1>3
<1> DEFINE q2 == p1 \cup p2
           q3 == q2 \cup p3
           q4 == q3 \cup p4
<1>6. q2 = p1 \cup p2 /\ q3 = q2 \cup p3 /\ q4 = q3 \cup p4 /\ A = q4 \cup p5
      /\ p1 \cap p2 = {} /\ q2 \cap p3 = {} /\ q3 \cap p4 = {} /\ q4 \cap p5 = {}
  BY <1>1, <1>2
<1> HIDE DEF q2, q3, q4, p1, p2, p3, p4, p5
<1>7. IsFiniteSet(q2) /\ Cardinality(q2) = Cardinality(p1) + Cardinality(p2)
  <2>1. InTwo(q2, p1, p2)
    BY <1>5, <1>6 DEF InTwo
  <2> QED
    BY <2>1, SizeOfTwo
<1>8. IsFiniteSet(q3) /\ Cardinality(q3) = Cardinality(q2) + Cardinality(p3)
  <2>1. InTwo(q3, q2, p3)
    BY <1>5, <1>6, <1>7 DEF InTwo
  <2> QED
    BY <2>1, SizeOfTwo
<1>9. IsFiniteSet(q4) /\ Cardinality(q4) = Cardinality(q3) + Cardinality(p4)
  <2>1. InTwo(q4, q3, p4)
    BY <1>5, <1>6, <1>8 DEF InTwo
  <2> QED
    BY <2>1, SizeOfTwo
<1>10. Cardinality(A) = Cardinality(q4) + Cardinality(p5)
  <2>1. InTwo(A, q4, p5)
    BY <1>5, <1>6, <1>9 DEF InTwo
  <2> QED
    BY <2>1, SizeOfTwo
<1>11. SumOverTypes(f) = Cardinality(A)
  <2> HIDE DEF f
  <2>1. SumOverTypes(f) = Cardinality(p1) + Cardinality(p2) + Cardinality(p3) + Cardinality(p4)
                             + Cardinality(p5)
    BY <1>4 DEF SumOverTypes
  <2> QED
    BY <1>5, <1>7, <1>8, <1>9, <1>10, <2>1
<1> QED
  BY <1>11

\* Sums of more are more.
LEMMA SumsOverTypes ==
    ASSUME NEW f, NEW h, \A t \in SelectionType : f[t] \in Nat /\ h[t] \in Nat /\ f[t] <= h[t]
    PROVE  /\ SumOverTypes(f) \in Nat /\ SumOverTypes(h) \in Nat
           /\ SumOverTypes(f) <= SumOverTypes(h)
<1>1. /\ f["PERSONALIZED"] \in Nat /\ h["PERSONALIZED"] \in Nat /\ f["PERSONALIZED"] <= h["PERSONALIZED"]
      /\ f["MAJOR"] \in Nat /\ h["MAJOR"] \in Nat /\ f["MAJOR"] <= h["MAJOR"]
      /\ f["CONNECTED"] \in Nat /\ h["CONNECTED"] \in Nat /\ f["CONNECTED"] <= h["CONNECTED"]
      /\ f["EXPLORATION"] \in Nat /\ h["EXPLORATION"] \in Nat /\ f["EXPLORATION"] <= h["EXPLORATION"]
      /\ f["OPPOSITE"] \in Nat /\ h["OPPOSITE"] \in Nat /\ f["OPPOSITE"] <= h["OPPOSITE"]
  BY TypesAre
<1> QED
  BY <1>1 DEF SumOverTypes

\* The same sum of the same values.
LEMMA SameOverTypes ==
    ASSUME NEW f, NEW h, \A t \in SelectionType : f[t] = h[t]
    PROVE  SumOverTypes(f) = SumOverTypes(h)
<1>1. /\ f["PERSONALIZED"] = h["PERSONALIZED"] /\ f["MAJOR"] = h["MAJOR"]
      /\ f["CONNECTED"] = h["CONNECTED"] /\ f["EXPLORATION"] = h["EXPLORATION"]
      /\ f["OPPOSITE"] = h["OPPOSITE"]
  BY TypesAre
<1> QED
  BY <1>1 DEF SumOverTypes

\* The slots of a type.
OfType(slots, t) == {k \in 1 .. BatchSize : slots[k] = t}

\* As many slots as fit a batch, of each type as many as its quota.
LEMMA SlotsAre ==
    ASSUME NEW S, Candidates(S)
    PROVE  /\ DOMAIN Slots(S) = 1 .. BatchSize /\ Len(Slots(S)) = BatchSize
           /\ \A k \in 1 .. BatchSize : Slots(S)[k] \in SelectionType
           /\ \A t \in SelectionType :
                 IsFiniteSet(OfType(Slots(S), t)) /\ Cardinality(OfType(Slots(S), t)) = Quota[t]
<1> DEFINE W(t) == {<<t, n>> : n \in 1 .. Quota[t]}
           wanted == UNION {W(t) : t \in SelectionType}
           supply(t) == Cardinality({c \in S : t \in c.types})
           before(a, b) ==
             \/ supply(a[1]) < supply(b[1])
             \/ supply(a[1]) = supply(b[1]) /\ TypeRank(a[1]) < TypeRank(b[1])
             \/ a[1] = b[1] /\ a[2] < b[2]
           ordered == First(wanted, BatchSize, before)
           R == {p \in wanted \X wanted : before(p[1], p[2])}
<1>0. /\ \A t \in SelectionType : Quota[t] \in Nat
      /\ BatchSize \in Nat
  BY QuotasAre
<1>1. \A w \in wanted : w[1] \in SelectionType /\ w[2] \in Nat /\ w = <<w[1], w[2]>>
                        /\ w[2] \in 1 .. Quota[w[1]]
  BY <1>0
<1>2. \A t \in SelectionType : {w \in wanted : w[1] = t} = W(t)
  <2> TAKE t \in SelectionType
  <2>1. \A w \in wanted : w[1] = t => w \in W(t)
    BY <1>1
  <2>2. \A w \in W(t) : w \in wanted /\ w[1] = t
    OBVIOUS
  <2> HIDE DEF W, wanted
  <2> QED
    BY <2>1, <2>2
<1>3. \A t \in SelectionType : IsFiniteSet(W(t)) /\ Cardinality(W(t)) = Quota[t]
  <2> TAKE t \in SelectionType
  <2> DEFINE I == 1 .. Quota[t]
             f == [n \in I |-> <<t, n>>]
  <2>1. IsFiniteSet(I) /\ Cardinality(I) = Quota[t]
    <3>1. Quota[t] \in Nat
      BY <1>0
    <3> QED
      BY <3>1, UpTo
  <2>2. IsImage(W(t), f, I)
    <3>1. W(t) = {f[n] : n \in I} /\ \A m, n \in I : f[m] = f[n] => m = n
      OBVIOUS
    <3> HIDE DEF W, I, f
    <3> QED
      BY <3>1 DEF IsImage
  <2> HIDE DEF W, I, f
  <2>3. IsFiniteSet(W(t)) /\ Cardinality(W(t)) = Cardinality(I)
    BY <2>1, <2>2, ImageSize
  <2> QED
    BY <2>1, <2>3
<1>4. IsFiniteSet(wanted)
  <2> DEFINE f == [t \in SelectionType |-> W(t)]
  <2>1. {W(t) : t \in SelectionType} = {f[t] : t \in SelectionType} /\ \A t \in SelectionType : f[t] = W(t)
    OBVIOUS
  <2> HIDE DEF f, W
  <2>2. IsFiniteSet({f[t] : t \in SelectionType})
    BY TypesAre, ImageOf
  <2> QED
    BY <1>3, <2>1, <2>2, FS_UNION
<1>5. Cardinality(wanted) = BatchSize
  <2> DEFINE g == [w \in wanted |-> w[1]]
             f == [t \in SelectionType |-> Cardinality({w \in wanted : g[w] = t})]
  <2>1. \A w \in wanted : g[w] = w[1] /\ g[w] \in SelectionType
    BY <1>1
  <2>2. SumOverTypes(f) = Cardinality(wanted)
    <3> HIDE DEF wanted, g
    <3> QED
      BY <1>4, <2>1, SumOfTypes
  <2>3. \A t \in SelectionType : f[t] = Quota[t]
    <3> TAKE t \in SelectionType
    <3>1. {w \in wanted : g[w] = t} = {w \in wanted : w[1] = t}
      BY <2>1
    <3>2. f[t] = Cardinality({w \in wanted : g[w] = t})
      OBVIOUS
    <3> HIDE DEF f, g, wanted, W
    <3> QED
      BY <1>2, <1>3, <3>1, <3>2
  <2> HIDE DEF f, wanted
  <2> QED
    BY <2>2, <2>3, SameOverTypes, RecommendationAssumption
<1>6. \A t \in SelectionType : supply(t) \in Nat /\ TypeRank(t) \in Nat
  <2> TAKE t \in SelectionType
  <2>1. IsFiniteSet(S)
    BY DEF Candidates, Named
  <2>2. {c \in S : t \in c.types} \in SUBSET S
    OBVIOUS
  <2>3. supply(t) \in Nat
    BY <2>1, <2>2, FS_Subset, FS_CardinalityType
  <2> QED
    BY <2>3, TypesAre
<1>7. \A t, u \in SelectionType : TypeRank(t) = TypeRank(u) => t = u
  BY TypesAre
<1> HIDE DEF W, wanted, supply
<1>8. \A a \in wanted : ~before(a, a)
  BY <1>1, <1>6
<1>9. \A a, b \in wanted : a # b => before(a, b) \/ before(b, a)
  <2> SUFFICES ASSUME NEW a \in wanted, NEW b \in wanted, a # b PROVE before(a, b) \/ before(b, a)
    OBVIOUS
  <2>1. /\ a[1] \in SelectionType /\ b[1] \in SelectionType /\ a[2] \in Nat /\ b[2] \in Nat
        /\ a = <<a[1], a[2]>> /\ b = <<b[1], b[2]>>
    BY <1>1
  <2>2. /\ supply(a[1]) \in Nat /\ supply(b[1]) \in Nat
        /\ TypeRank(a[1]) \in Nat /\ TypeRank(b[1]) \in Nat
    BY <1>6, <2>1
  <2>3. CASE a[1] = b[1]
    <3>1. a[2] # b[2]
      BY <2>1, <2>3
    <3> QED
      BY <2>1, <2>3, <3>1
  <2>4. CASE a[1] # b[1]
    <3>1. TypeRank(a[1]) # TypeRank(b[1])
      BY <1>7, <2>1, <2>4
    <3> QED
      BY <2>2, <3>1
  <2> QED
    BY <2>3, <2>4
<1>10. \A a, b, c \in wanted : before(a, b) /\ before(b, c) => before(a, c)
  <2> SUFFICES ASSUME NEW a \in wanted, NEW b \in wanted, NEW c \in wanted, before(a, b), before(b, c)
               PROVE  before(a, c)
    OBVIOUS
  <2>1. /\ a[1] \in SelectionType /\ b[1] \in SelectionType /\ c[1] \in SelectionType
        /\ a[2] \in Nat /\ b[2] \in Nat /\ c[2] \in Nat
    BY <1>1
  <2>2. /\ supply(a[1]) \in Nat /\ supply(b[1]) \in Nat /\ supply(c[1]) \in Nat
        /\ TypeRank(a[1]) \in Nat /\ TypeRank(b[1]) \in Nat /\ TypeRank(c[1]) \in Nat
    BY <1>6, <2>1
  <2> QED
    BY <2>1, <2>2
<1> HIDE DEF before
<1>11. \A a, b \in wanted : <<a, b>> \in R <=> before(a, b)
  OBVIOUS
<1>12. \A a \in wanted : Below(R, wanted, a) = {b \in wanted : before(b, a)}
  BY <1>11 DEF Below
<1> HIDE DEF R
<1>13. Orders(R, wanted)
  BY <1>8, <1>9, <1>10, <1>11 DEF Orders
<1> DEFINE m == Min({BatchSize, Cardinality(wanted)})
           choice(k) == CHOOSE x \in wanted : Cardinality({y \in wanted : before(y, x)}) = k - 1
<1>14. \A k \in 1 .. m : choice(k) \in wanted /\ Cardinality({y \in wanted : before(y, choice(k))}) = k - 1
  <2> TAKE k \in 1 .. m
  <2>1. \E x \in wanted : Cardinality(Below(R, wanted, x)) = k - 1
    BY <1>0, <1>4, <1>13, PlaceIsTaken
  <2>2. \E x \in wanted : Cardinality({y \in wanted : before(y, x)}) = k - 1
    BY <1>12, <2>1
  <2> QED
    BY <2>2
<1>15. ordered = [k \in 1 .. m |-> choice(k)]
  BY DEF First
<1>16. Slots(S) = [k \in DOMAIN ordered |-> ordered[k][1]]
  BY DEF Slots, ordered, wanted, W, before, supply
<1> HIDE DEF choice, m, ordered
<1>17. /\ ordered = [k \in 1 .. m |-> ordered[k]]
       /\ \A k \in 1 .. m : ordered[k] \in wanted /\ Cardinality(Below(R, wanted, ordered[k])) = k - 1
  BY <1>12, <1>14, <1>15
<1>18. IsFirst(ordered, wanted, BatchSize, R)
  BY <1>17 DEF IsFirst, m
<1>19. /\ DOMAIN ordered = 1 .. BatchSize
       /\ \A k \in 1 .. BatchSize : ordered[k] \in wanted
       /\ \A j, k \in 1 .. BatchSize : ordered[j] = ordered[k] => j = k
       /\ \A x \in wanted : \E k \in 1 .. BatchSize : ordered[k] = x
  <2>1. /\ Len(ordered) = BatchSize /\ DOMAIN ordered = 1 .. Len(ordered)
        /\ \A k \in 1 .. Len(ordered) : ordered[k] \in wanted
        /\ \A j, k \in 1 .. Len(ordered) : ordered[j] = ordered[k] => j = k
        /\ \A x \in wanted : Cardinality(Below(R, wanted, x)) < BatchSize
              => \E k \in 1 .. Len(ordered) : ordered[k] = x
    BY <1>0, <1>4, <1>5, <1>13, <1>18, FirstFacts
  <2>2. \A x \in wanted : Cardinality(Below(R, wanted, x)) < BatchSize
    BY <1>4, <1>5, <1>13, <1>0, Ranks
  <2> QED
    BY <2>1, <2>2
<1>20. /\ DOMAIN Slots(S) = 1 .. BatchSize
       /\ \A k \in 1 .. BatchSize : Slots(S)[k] = ordered[k][1] /\ Slots(S)[k] \in SelectionType
  BY <1>1, <1>16, <1>19
<1>21. Len(Slots(S)) = BatchSize
  BY <1>0, <1>20
<1>22. \A t \in SelectionType :
          IsFiniteSet(OfType(Slots(S), t)) /\ Cardinality(OfType(Slots(S), t)) = Quota[t]
  <2> TAKE t \in SelectionType
  <2> DEFINE K == OfType(Slots(S), t)
  <2>1. K \in SUBSET (1 .. BatchSize) /\ \A k \in 1 .. BatchSize : k \in K <=> ordered[k][1] = t
    BY <1>20 DEF OfType
  <2>2. IsFiniteSet(1 .. BatchSize)
    BY <1>0, UpTo
  <2> HIDE DEF K
  <2>3. IsFiniteSet(K)
    BY <2>1, <2>2, FS_Subset
  <2>4. {ordered[k] : k \in K} = W(t)
    <3>1. \A k \in K : ordered[k] \in {w \in wanted : w[1] = t}
      BY <1>19, <2>1
    <3>2. \A w \in wanted : w[1] = t => \E k \in K : ordered[k] = w
      BY <1>19, <2>1
    <3> QED
      BY <1>2, <3>1, <3>2
  <2>5. Cardinality({ordered[k] : k \in K}) = Cardinality(K)
    <3>1. \A j, k \in K : ordered[j] = ordered[k] => j = k
      BY <1>19, <2>1
    <3> QED
      BY <2>3, <3>1, ImageOf
  <2>6. IsFiniteSet(K) /\ Cardinality(K) = Quota[t]
    BY <1>3, <2>3, <2>4, <2>5
  <2> QED
    BY <2>6 DEF K
<1> QED
  BY <1>20, <1>21, <1>22

-----------------------------------------------------------------------------
(* The walks along augmenting paths.                                       *)

\* A walk: who has which slot, who was visited, whether a slot was found.
WalkAt(M, X, F) == [slotOf |-> M, visited |-> X, found |-> F]

\* What a call gives, by what the calls that follow it give.
StepOf(S, slots, h, k, w) ==
    LET free == {c \in S : slots[k] \in c.types /\ c \notin w.visited}
        c == Foremost(free)
        seen == [w EXCEPT !.visited = @ \cup {c}]
        next == IF w.slotOf[c] = 0 THEN [seen EXCEPT !.found = TRUE]
                ELSE h[<<w.slotOf[c], seen>>]
    IN  IF free = {} THEN w
        ELSE IF next.found THEN [next EXCEPT !.slotOf[c] = k]
        ELSE h[<<k, next>>]

\* What a walk is made of.
LEMMA WalksAre ==
    ASSUME NEW S, NEW w
    PROVE  w \in Walks(S) <=> /\ w = WalkAt(w.slotOf, w.visited, w.found)
                              /\ w.slotOf \in [S -> 0 .. BatchSize]
                              /\ w.visited \in SUBSET S /\ w.found \in BOOLEAN
  BY DEF Walks, WalkAt

\* A walk with given slots, visits and end.
LEMMA WalkAtIs ==
    ASSUME NEW M, NEW X, NEW F
    PROVE  /\ WalkAt(M, X, F).slotOf = M /\ WalkAt(M, X, F).visited = X /\ WalkAt(M, X, F).found = F
           /\ \A S : M \in [S -> 0 .. BatchSize] /\ X \in SUBSET S /\ F \in BOOLEAN
                       => WalkAt(M, X, F) \in Walks(S)
  BY DEF WalkAt, Walks

\* A slot given to a candidate; a walk that found one.
WithSlot(M, c, k) == [M EXCEPT ![c] = k]
Successful(M, X) == WalkAt(M, X, TRUE)

\* A walk that found a free slot is a walk.
LEMMA SuccessfulIs ==
    ASSUME NEW M, NEW X
    PROVE  /\ Successful(M, X).slotOf = M /\ Successful(M, X).visited = X /\ Successful(M, X).found = TRUE
           /\ \A S : M \in [S -> 0 .. BatchSize] /\ X \in SUBSET S => Successful(M, X) \in Walks(S)
  BY DEF Successful, WalkAt, Walks

\* It is one still when a slot is given.
LEMMA SuccessfulGiven ==
    ASSUME NEW M, NEW X, NEW c, NEW k
    PROVE  [Successful(M, X) EXCEPT !.slotOf[c] = k] = Successful(WithSlot(M, c, k), X)
<1> DEFINE t == Successful(M, X)
           N == WithSlot(M, c, k)
<1>1. t.slotOf = M
  BY SuccessfulIs
<1>2. [t EXCEPT !.slotOf[c] = k] = [t EXCEPT !.slotOf = [t.slotOf EXCEPT ![c] = k]]
  OBVIOUS
<1>3. [t.slotOf EXCEPT ![c] = k] = N
  BY <1>1 DEF WithSlot
<1>4. [t EXCEPT !.slotOf = N] = Successful(N, X)
  <2> HIDE DEF N
  <2> DEFINE u == [t EXCEPT !.slotOf = N]
             A == [slotOf : {N}, visited : {X}, found : BOOLEAN]
  <2>1. u.slotOf = N /\ u.visited = X /\ u.found = TRUE
    BY DEF Successful, WalkAt
  <2>2. u \in A
    BY DEF Successful, WalkAt
  <2>3. u = [slotOf |-> u.slotOf, visited |-> u.visited, found |-> u.found]
    <3> HIDE DEF u
    <3> QED
      BY <2>2
  <2> HIDE DEF u
  <2>4. [slotOf |-> u.slotOf, visited |-> u.visited, found |-> u.found] =
        [slotOf |-> N, visited |-> X, found |-> TRUE]
    BY <2>1, Zenon
  <2>5. u = Successful(N, X)
    BY <2>3, <2>4, Zenon DEF Successful, WalkAt
  <2> QED
    BY <2>5 DEF u
<1> HIDE DEF t
<1> QED
  BY <1>2, <1>3, <1>4 DEF t

\* A walk that has visited more, whom a call may look at, and what it has seen then.
FurtherWalk(S, w, v) == v \in Walks(S) /\ w.visited \subseteq v.visited /\ w.visited # v.visited
OpenFor(S, slots, k, w) == {c \in S : slots[k] \in c.types /\ c \notin w.visited}
WithSeen(w, c) == WalkAt(w.slotOf, w.visited \cup {c}, w.found)

\* The calls that follow go further.
GoesOn(S, h, w) ==
    \A j \in 1 .. BatchSize : \A v \in Walks(S) :
        FurtherWalk(S, w, v) => h[<<j, v>>] \in Walks(S) /\ v.visited \subseteq h[<<j, v>>].visited

\* The four ways a call may go.
WalkEnds(S, slots, h, k, w) == OpenFor(S, slots, k, w) = {} /\ StepOf(S, slots, h, k, w) = w
Frees(S, slots, h, k, w, c) ==
    /\ w.slotOf[c] = 0
    /\ StepOf(S, slots, h, k, w) = Successful(WithSlot(w.slotOf, c, k), w.visited \cup {c})
Moves(S, slots, h, k, w, c, r) ==
    /\ w.slotOf[c] \in 1 .. BatchSize /\ r = h[<<w.slotOf[c], WithSeen(w, c)>>]
    /\ r.found = TRUE
    /\ StepOf(S, slots, h, k, w) = Successful(WithSlot(r.slotOf, c, k), r.visited)
Skips(S, slots, h, k, w, c, r) ==
    /\ w.slotOf[c] \in 1 .. BatchSize /\ r = h[<<w.slotOf[c], WithSeen(w, c)>>]
    /\ r.found = FALSE
    /\ StepOf(S, slots, h, k, w) = h[<<k, r>>]

\* The first candidate that is open, and the walk that has seen it.
LEMMA FirstIsSeen ==
    ASSUME NEW S, Named(S), NEW slots, NEW k, NEW w \in Walks(S), OpenFor(S, slots, k, w) # {}
    PROVE  LET c == Foremost(OpenFor(S, slots, k, w)) IN
           /\ c \in OpenFor(S, slots, k, w) /\ c \in S /\ c \notin w.visited
           /\ [w EXCEPT !.visited = @ \cup {c}] = WithSeen(w, c)
           /\ WithSeen(w, c) \in Walks(S) /\ WithSeen(w, c).visited = w.visited \cup {c}
           /\ FurtherWalk(S, w, WithSeen(w, c))
<1> DEFINE free == OpenFor(S, slots, k, w)
           c == Foremost(free)
           seen == [w EXCEPT !.visited = @ \cup {c}]
<1>1. free \in SUBSET S /\ Named(free)
  <2>1. free \in SUBSET S
    BY DEF OpenFor
  <2> QED
    BY <2>1, NamedPart
<1>2. c \in free /\ c \in S /\ c \notin w.visited
  <2>1. c \in free
    BY <1>1, ForemostIsIn
  <2> HIDE DEF c
  <2> QED
    BY <2>1 DEF OpenFor
<1> HIDE DEF c
<1>3. /\ w = WalkAt(w.slotOf, w.visited, w.found)
      /\ w.slotOf \in [S -> 0 .. BatchSize] /\ w.visited \in SUBSET S /\ w.found \in BOOLEAN
  BY WalksAre
<1>4. seen = WithSeen(w, c)
  BY <1>3 DEF WithSeen, WalkAt
<1>5. WithSeen(w, c) \in Walks(S) /\ WithSeen(w, c).visited = w.visited \cup {c}
  <2>1. w.visited \cup {c} \in SUBSET S
    BY <1>2, <1>3
  <2> QED
    BY <1>3, <2>1, WalkAtIs DEF WithSeen
<1>6. FurtherWalk(S, w, WithSeen(w, c))
  BY <1>2, <1>5 DEF FurtherWalk
<1> QED
  BY <1>2, <1>4, <1>5, <1>6 DEF c

\* A call ends, frees a slot, moves a candidate or skips one.
LEMMA WaysOfStep ==
    ASSUME NEW S, Named(S), NEW slots, NEW k \in 1 .. BatchSize, NEW w \in Walks(S),
           NEW h, GoesOn(S, h, w)
    PROVE  \/ WalkEnds(S, slots, h, k, w)
           \/ \E c \in OpenFor(S, slots, k, w) :
                /\ FurtherWalk(S, w, WithSeen(w, c))
                /\ \/ Frees(S, slots, h, k, w, c)
                   \/ \E r \in Walks(S) :
                        /\ FurtherWalk(S, w, r) /\ w.visited \cup {c} \subseteq r.visited
                        /\ Moves(S, slots, h, k, w, c, r) \/ Skips(S, slots, h, k, w, c, r)
<1> DEFINE free == OpenFor(S, slots, k, w)
           c == Foremost(free)
           seen == [w EXCEPT !.visited = @ \cup {c}]
           next == IF w.slotOf[c] = 0 THEN [seen EXCEPT !.found = TRUE]
                   ELSE h[<<w.slotOf[c], seen>>]
           step == StepOf(S, slots, h, k, w)
<1>1. step = IF free = {} THEN w
             ELSE IF next.found THEN [next EXCEPT !.slotOf[c] = k] ELSE h[<<k, next>>]
  BY DEF StepOf, OpenFor
<1>2. CASE free = {}
  BY <1>1, <1>2 DEF WalkEnds
<1>3. CASE free # {}
  <2>1. /\ c \in free /\ c \in S /\ c \notin w.visited /\ seen = WithSeen(w, c)
        /\ WithSeen(w, c) \in Walks(S) /\ WithSeen(w, c).visited = w.visited \cup {c}
        /\ FurtherWalk(S, w, WithSeen(w, c))
    BY <1>3, FirstIsSeen
  <2> HIDE DEF c, step
  <2>2. c \in free /\ c \in S /\ c \notin w.visited
    BY <2>1
  <2>3. /\ w = WalkAt(w.slotOf, w.visited, w.found)
        /\ w.slotOf \in [S -> 0 .. BatchSize] /\ w.visited \in SUBSET S /\ w.found \in BOOLEAN
    BY WalksAre
  <2>4. seen = WithSeen(w, c)
    BY <2>1
  <2>5. seen \in Walks(S) /\ seen.visited = w.visited \cup {c} /\ FurtherWalk(S, w, seen)
    BY <2>1
  <2>6. CASE w.slotOf[c] = 0
    <3>1. next = Successful(w.slotOf, w.visited \cup {c})
      BY <2>3, <2>4, <2>6 DEF WithSeen, WalkAt, Successful
    <3> HIDE DEF next
    <3>2. next.found = TRUE
      BY <3>1, SuccessfulIs
    <3>3. [next EXCEPT !.slotOf[c] = k] = Successful(WithSlot(w.slotOf, c, k), w.visited \cup {c})
      BY <3>1, SuccessfulGiven
    <3>4. Frees(S, slots, h, k, w, c)
      BY <1>1, <1>3, <2>6, <3>2, <3>3 DEF Frees, step
    <3> QED
      BY <2>2, <2>4, <2>5, <3>4
  <2>7. CASE w.slotOf[c] # 0
    <3>1. w.slotOf[c] \in 1 .. BatchSize
      <4>1. w.slotOf[c] \in 0 .. BatchSize
        BY <2>2, <2>3
      <4> QED
        BY <2>7, <4>1, QuotasAre
    <3> DEFINE r == h[<<w.slotOf[c], seen>>]
    <3>2. r \in Walks(S) /\ w.visited \cup {c} \subseteq r.visited
      <4>1. h[<<w.slotOf[c], seen>>] \in Walks(S) /\ seen.visited \subseteq h[<<w.slotOf[c], seen>>].visited
        <5> HIDE DEF seen
        <5> QED
          BY <3>1, <2>5 DEF GoesOn
      <4> HIDE DEF seen
      <4> QED
        BY <4>1, <2>5
    <3>3. next = r
      BY <2>7
    <3>4. r = h[<<w.slotOf[c], WithSeen(w, c)>>]
      BY <2>4
    <3> HIDE DEF next, r
    <3>5. FurtherWalk(S, w, r)
      BY <2>2, <3>2 DEF FurtherWalk
    <3>6. r = WalkAt(r.slotOf, r.visited, r.found) /\ r.found \in BOOLEAN
      BY <3>2, WalksAre
    <3>7. CASE r.found = TRUE
      <4>1. [r EXCEPT !.slotOf[c] = k] = Successful(WithSlot(r.slotOf, c, k), r.visited)
        <5>1. r = Successful(r.slotOf, r.visited)
          BY <3>6, <3>7 DEF Successful
        <5> QED
          BY <5>1, SuccessfulGiven
      <4>2. Moves(S, slots, h, k, w, c, r)
        BY <1>1, <1>3, <3>1, <3>3, <3>4, <3>7, <4>1 DEF Moves, step
      <4> QED
        BY <2>2, <2>4, <2>5, <3>2, <3>5, <4>2
    <3>8. CASE r.found = FALSE
      <4>1. Skips(S, slots, h, k, w, c, r)
        BY <1>1, <1>3, <3>1, <3>3, <3>4, <3>8 DEF Skips, step
      <4> QED
        BY <2>2, <2>4, <2>5, <3>2, <3>5, <4>1
    <3> QED
      BY <3>6, <3>7, <3>8
  <2> QED
    BY <2>6, <2>7
<1> QED
  BY <1>2, <1>3

\* A step goes on.
LEMMA StepGoesOn ==
    ASSUME NEW S, Named(S), NEW slots, NEW k \in 1 .. BatchSize, NEW w \in Walks(S),
           NEW h, GoesOn(S, h, w)
    PROVE  /\ StepOf(S, slots, h, k, w) \in Walks(S)
           /\ w.visited \subseteq StepOf(S, slots, h, k, w).visited
<1> DEFINE step == StepOf(S, slots, h, k, w)
<1>0. BatchSize \in Nat
  BY QuotasAre
<1>1. CASE WalkEnds(S, slots, h, k, w)
  BY <1>1 DEF WalkEnds
<1>2. ASSUME NEW c \in OpenFor(S, slots, k, w), NEW M \in [S -> 0 .. BatchSize], NEW X \in SUBSET S,
             step = Successful(WithSlot(M, c, k), X), w.visited \subseteq X
      PROVE  step \in Walks(S) /\ w.visited \subseteq step.visited
  <2>1. WithSlot(M, c, k) \in [S -> 0 .. BatchSize]
    <3>1. k \in 0 .. BatchSize
      BY <1>0
    <3> QED
      BY <3>1 DEF WithSlot
  <2>2. Successful(WithSlot(M, c, k), X) \in Walks(S) /\ Successful(WithSlot(M, c, k), X).visited = X
    BY <2>1, SuccessfulIs
  <2> HIDE DEF step
  <2> QED
    BY <1>2, <2>2
<1>3. ASSUME NEW c \in OpenFor(S, slots, k, w), Frees(S, slots, h, k, w, c), FurtherWalk(S, w, WithSeen(w, c))
      PROVE  step \in Walks(S) /\ w.visited \subseteq step.visited
  <2>1. w.slotOf \in [S -> 0 .. BatchSize] /\ w.visited \cup {c} \in SUBSET S
    BY WalksAre DEF OpenFor
  <2>2. step = Successful(WithSlot(w.slotOf, c, k), w.visited \cup {c})
    BY <1>3 DEF Frees
  <2> HIDE DEF step
  <2> QED
    BY <1>2, <2>1, <2>2
<1>4. ASSUME NEW c \in OpenFor(S, slots, k, w), NEW r \in Walks(S), FurtherWalk(S, w, r),
             Moves(S, slots, h, k, w, c, r)
      PROVE  step \in Walks(S) /\ w.visited \subseteq step.visited
  <2>1. r.slotOf \in [S -> 0 .. BatchSize] /\ r.visited \in SUBSET S /\ w.visited \subseteq r.visited
    BY <1>4, WalksAre DEF FurtherWalk
  <2>2. step = Successful(WithSlot(r.slotOf, c, k), r.visited)
    BY <1>4 DEF Moves
  <2> HIDE DEF step
  <2> QED
    BY <1>2, <2>1, <2>2
<1>5. ASSUME NEW c \in OpenFor(S, slots, k, w), NEW r \in Walks(S), FurtherWalk(S, w, r),
             Skips(S, slots, h, k, w, c, r)
      PROVE  step \in Walks(S) /\ w.visited \subseteq step.visited
  <2>1. step = h[<<k, r>>]
    BY <1>5 DEF Skips
  <2>2. h[<<k, r>>] \in Walks(S) /\ r.visited \subseteq h[<<k, r>>].visited
    BY <1>5 DEF GoesOn
  <2> HIDE DEF step
  <2> QED
    BY <1>5, <2>1, <2>2 DEF FurtherWalk
<1> QED
  BY <1>1, <1>3, <1>4, <1>5, WaysOfStep

-----------------------------------------------------------------------------
(* What a walk finds.                                                      *)

\* The candidates a slot may go to.
CandidatesFor(S, slots, k) == {c \in S : slots[k] \in c.types}
\* A candidate has a slot of a type it is of; a slot has one candidate.
Edges(S, slots, M) == \A c \in S : M[c] # 0 => slots[M[c]] \in c.types
OneEach(M, U) == \A c, d \in U : M[c] = M[d] /\ M[c] # 0 => c = d

\* A walk from which slot k may be looked for.
Ready(S, slots, k, w) ==
    /\ w.found = FALSE
    /\ Edges(S, slots, w.slotOf)
    /\ OneEach(w.slotOf, S \ w.visited)
    /\ \A c \in S \ w.visited : w.slotOf[c] # k

\* All have a slot, and those that could have their slots are among them.
ClosedUnder(S, slots, M, V) ==
    V \in SUBSET S /\ \A c \in V : M[c] # 0 /\ CandidatesFor(S, slots, M[c]) \subseteq V

\* The slots taken are those taken before and k.
Adds(M, N, U, k) ==
    /\ OneEach(N, U)
    /\ \A c \in U : N[c] # 0 => N[c] = k \/ \E d \in U : M[d] = N[c]
    /\ \E c \in U : N[c] = k
    /\ \A d \in U : M[d] # 0 => \E c \in U : N[c] = M[d]

\* A call that finds no slot leaves all as they were, and visits all it could; one
\* that finds a slot adds slot k to those that are taken.
FailsWell(S, slots, k, w, r) ==
    /\ r.found = FALSE
    /\ r.slotOf = w.slotOf
    /\ CandidatesFor(S, slots, k) \subseteq r.visited
    /\ \A c \in r.visited \ w.visited :
         w.slotOf[c] # 0 /\ CandidatesFor(S, slots, w.slotOf[c]) \subseteq r.visited

FindsWell(S, slots, k, w, r) ==
    /\ r.found = TRUE
    /\ Edges(S, slots, r.slotOf)
    /\ \A c \in w.visited : r.slotOf[c] = w.slotOf[c]
    /\ Adds(w.slotOf, r.slotOf, S \ w.visited, k)
    /\ \A V : ClosedUnder(S, slots, w.slotOf, V) =>
         /\ \A c \in V : r.slotOf[c] = w.slotOf[c]
         /\ ~(CandidatesFor(S, slots, k) \subseteq V)

DoesWell(S, slots, k, w, r) == FailsWell(S, slots, k, w, r) \/ FindsWell(S, slots, k, w, r)

WellAfter(S, slots, h, w) ==
    \A j \in 1 .. BatchSize : \A v \in Walks(S) :
        FurtherWalk(S, w, v) /\ Ready(S, slots, j, v) => DoesWell(S, slots, j, v, h[<<j, v>>])

\* One candidate is given a slot, the others keep theirs.
LEMMA WithSlotIs ==
    ASSUME NEW S, NEW M \in [S -> 0 .. BatchSize], NEW c \in S, NEW k
    PROVE  WithSlot(M, c, k)[c] = k /\ \A d \in S : d # c => WithSlot(M, c, k)[d] = M[d]
  BY DEF WithSlot

\* A candidate without a slot is given this one.
LEMMA FreesWell ==
    ASSUME NEW S, NEW slots, NEW k \in 1 .. BatchSize, NEW w \in Walks(S), NEW h,
           Ready(S, slots, k, w), NEW c \in OpenFor(S, slots, k, w), Frees(S, slots, h, k, w, c)
    PROVE  FindsWell(S, slots, k, w, StepOf(S, slots, h, k, w))
<1> DEFINE M == w.slotOf
           N == WithSlot(M, c, k)
           U == S \ w.visited
           step == StepOf(S, slots, h, k, w)
<1>1. c \in S /\ c \notin w.visited /\ c \in U /\ slots[k] \in c.types /\ M[c] = 0
  BY DEF OpenFor, Frees
<1>2. M \in [S -> 0 .. BatchSize] /\ w.visited \in SUBSET S
  BY WalksAre
<1>3. N[c] = k /\ \A d \in S : d # c => N[d] = M[d]
  BY <1>1, <1>2, WithSlotIs
<1>4. step.slotOf = N /\ step.found = TRUE
  <2>1. step = Successful(N, w.visited \cup {c})
    BY DEF Frees
  <2> HIDE DEF step, N
  <2> QED
    BY <2>1, SuccessfulIs
<1>5. Edges(S, slots, M) /\ OneEach(M, U) /\ \A d \in U : M[d] # k
  BY DEF Ready
<1>6. k # 0
  BY QuotasAre
<1> HIDE DEF M, N, step
<1>7. Edges(S, slots, N)
  BY <1>1, <1>3, <1>5 DEF Edges
<1>8. \A d \in w.visited : N[d] = M[d]
  BY <1>1, <1>2, <1>3
<1>9. Adds(M, N, U, k)
  <2>1. OneEach(N, U)
    BY <1>1, <1>3, <1>5 DEF OneEach
  <2>2. \A d \in U : N[d] # 0 => N[d] = k \/ \E e \in U : M[e] = N[d]
    BY <1>3
  <2>3. \A d \in U : M[d] # 0 => \E e \in U : N[e] = M[d]
    BY <1>1, <1>3
  <2> QED
    BY <1>1, <1>3, <2>1, <2>2, <2>3 DEF Adds
<1>10. ASSUME NEW V, ClosedUnder(S, slots, M, V)
       PROVE  (\A d \in V : N[d] = M[d]) /\ ~(CandidatesFor(S, slots, k) \subseteq V)
  <2>1. c \notin V /\ V \in SUBSET S
    BY <1>1, <1>10 DEF ClosedUnder
  <2>2. c \in CandidatesFor(S, slots, k)
    BY <1>1 DEF CandidatesFor
  <2> QED
    BY <1>3, <2>1, <2>2
<1> QED
  BY <1>4, <1>7, <1>8, <1>9, <1>10 DEF FindsWell, M, step

\* What is known of the call for the slot of a candidate.
LEMMA SeenIsReady ==
    ASSUME NEW S, NEW slots, NEW k \in 1 .. BatchSize, NEW w \in Walks(S),
           Ready(S, slots, k, w), NEW c \in OpenFor(S, slots, k, w), w.slotOf[c] # 0
    PROVE  /\ Ready(S, slots, w.slotOf[c], WithSeen(w, c))
           /\ WithSeen(w, c).slotOf = w.slotOf /\ WithSeen(w, c).visited = w.visited \cup {c}
<1>1. /\ WithSeen(w, c).slotOf = w.slotOf /\ WithSeen(w, c).visited = w.visited \cup {c}
      /\ WithSeen(w, c).found = w.found
  BY DEF WithSeen, WalkAt
<1>2. c \in S \ w.visited
  BY DEF OpenFor
<1>3. OneEach(w.slotOf, S \ (w.visited \cup {c}))
  BY DEF Ready, OneEach
<1>4. \A d \in S \ (w.visited \cup {c}) : w.slotOf[d] # w.slotOf[c]
  BY <1>2 DEF Ready, OneEach
<1> QED
  BY <1>1, <1>3, <1>4 DEF Ready

\* A candidate whose slot finds another is given this one.
LEMMA MovesWell ==
    ASSUME NEW S, NEW slots, NEW k \in 1 .. BatchSize, NEW w \in Walks(S), NEW h,
           Ready(S, slots, k, w), NEW c \in OpenFor(S, slots, k, w), NEW r \in Walks(S),
           Moves(S, slots, h, k, w, c, r), FindsWell(S, slots, w.slotOf[c], WithSeen(w, c), r)
    PROVE  FindsWell(S, slots, k, w, StepOf(S, slots, h, k, w))
<1> DEFINE M == w.slotOf
           L == r.slotOf
           j == M[c]
           N == WithSlot(L, c, k)
           U == S \ w.visited
           T == S \ (w.visited \cup {c})
           step == StepOf(S, slots, h, k, w)
<1>0. k # 0 /\ BatchSize \in Nat
  BY QuotasAre
<1>1. c \in S /\ c \notin w.visited /\ c \in U /\ slots[k] \in c.types /\ j \in 1 .. BatchSize /\ j # 0
  BY <1>0 DEF OpenFor, Moves
<1>2. M \in [S -> 0 .. BatchSize] /\ w.visited \in SUBSET S /\ L \in [S -> 0 .. BatchSize]
  BY WalksAre
<1>3. N[c] = k /\ \A d \in S : d # c => N[d] = L[d]
  BY <1>1, <1>2, WithSlotIs
<1>4. step.slotOf = N /\ step.found = TRUE
  <2>1. step = Successful(N, r.visited)
    BY DEF Moves
  <2> HIDE DEF step, N
  <2> QED
    BY <2>1, SuccessfulIs
<1>5. Edges(S, slots, M) /\ OneEach(M, U) /\ \A d \in U : M[d] # k
  BY DEF Ready
<1>6. WithSeen(w, c).slotOf = M /\ WithSeen(w, c).visited = w.visited \cup {c}
  BY <1>1, SeenIsReady
<1>7. /\ Edges(S, slots, L) /\ \A d \in w.visited : L[d] = M[d]
      /\ Adds(M, L, T, j)
      /\ \A V : ClosedUnder(S, slots, M, V) =>
           /\ \A d \in V : L[d] = M[d]
           /\ ~(CandidatesFor(S, slots, j) \subseteq V)
  BY <1>6 DEF FindsWell
<1>8. /\ OneEach(L, T) /\ \A d \in T : L[d] # 0 => L[d] = j \/ \E e \in T : M[e] = L[d]
      /\ \E d \in T : L[d] = j
      /\ \A d \in T : M[d] # 0 => \E e \in T : L[e] = M[d]
  BY <1>7 DEF Adds
<1> HIDE DEF M, L, N, step, j
<1>9. Edges(S, slots, N)
  BY <1>1, <1>3, <1>7 DEF Edges
<1>10. \A d \in w.visited : N[d] = M[d]
  BY <1>1, <1>2, <1>3, <1>7
<1>11. M[c] = j /\ \A d \in T : d \in U /\ d \in S /\ d # c
  BY <1>1 DEF j
<1>12. Adds(M, N, U, k)
  <2>1. \A d \in T : L[d] # k
    BY <1>0, <1>1, <1>5, <1>8, <1>11
  <2>2. \A d \in U : d = c \/ d \in T
    OBVIOUS
  <2>3. OneEach(N, U)
    <3> SUFFICES ASSUME NEW d \in U, NEW e \in U, N[d] = N[e], N[d] # 0 PROVE d = e
      BY DEF OneEach
    <3>1. CASE d \in T /\ e \in T
      BY <3>1, <1>3, <1>8, <1>11 DEF OneEach
    <3>2. CASE d = c /\ e \in T
      BY <3>2, <1>3, <1>11, <2>1
    <3>3. CASE d \in T /\ e = c
      BY <3>3, <1>3, <1>11, <2>1
    <3> QED
      BY <2>2, <3>1, <3>2, <3>3
  <2>4. \A d \in U : N[d] # 0 => N[d] = k \/ \E e \in U : M[e] = N[d]
    <3> SUFFICES ASSUME NEW d \in U, d # c, N[d] # 0 PROVE \E e \in U : M[e] = N[d]
      BY <1>3
    <3>1. d \in T /\ N[d] = L[d]
      BY <1>3, <2>2
    <3> QED
      BY <3>1, <1>1, <1>8, <1>11
  <2>5. \A d \in U : M[d] # 0 => \E e \in U : N[e] = M[d]
    <3> SUFFICES ASSUME NEW d \in U, M[d] # 0 PROVE \E e \in U : N[e] = M[d]
      OBVIOUS
    <3>1. \E e \in T : L[e] = M[d]
      BY <1>8, <1>11, <2>2
    <3> QED
      BY <3>1, <1>3, <1>11
  <2> QED
    BY <1>1, <1>3, <2>3, <2>4, <2>5 DEF Adds
<1>13. ASSUME NEW V, ClosedUnder(S, slots, M, V)
       PROVE  (\A d \in V : N[d] = M[d]) /\ ~(CandidatesFor(S, slots, k) \subseteq V)
  <2>1. c \notin V /\ V \in SUBSET S
    BY <1>7, <1>11, <1>13 DEF ClosedUnder
  <2>2. c \in CandidatesFor(S, slots, k)
    BY <1>1 DEF CandidatesFor
  <2> QED
    BY <1>3, <1>7, <1>13, <2>1, <2>2
<1> QED
  BY <1>4, <1>9, <1>10, <1>12, <1>13 DEF FindsWell, M, step

\* A candidate whose slot finds none is left.
LEMMA SkipsWell ==
    ASSUME NEW S, NEW slots, NEW k \in 1 .. BatchSize, NEW w \in Walks(S), NEW h,
           Ready(S, slots, k, w), NEW c \in OpenFor(S, slots, k, w), NEW r \in Walks(S),
           Skips(S, slots, h, k, w, c, r), FailsWell(S, slots, w.slotOf[c], WithSeen(w, c), r),
           w.visited \cup {c} \subseteq r.visited, FurtherWalk(S, w, r),
           GoesOn(S, h, w), WellAfter(S, slots, h, w)
    PROVE  DoesWell(S, slots, k, w, StepOf(S, slots, h, k, w))
<1> DEFINE M == w.slotOf
           U == S \ w.visited
           T == S \ r.visited
           s == h[<<k, r>>]
           j == M[c]
<1>0. k # 0 /\ BatchSize \in Nat
  BY QuotasAre
<1>1. c \in S /\ c \notin w.visited /\ j \in 1 .. BatchSize /\ j # 0
  BY <1>0 DEF OpenFor, Skips
<1>2. WithSeen(w, c).slotOf = M /\ WithSeen(w, c).visited = w.visited \cup {c}
  BY <1>1, SeenIsReady
<1>3. /\ r.slotOf = M /\ r.found = FALSE /\ CandidatesFor(S, slots, j) \subseteq r.visited
      /\ \A d \in r.visited \ (w.visited \cup {c}) :
            M[d] # 0 /\ CandidatesFor(S, slots, M[d]) \subseteq r.visited
  BY <1>2 DEF FailsWell
<1>4. Edges(S, slots, M) /\ OneEach(M, U) /\ \A d \in U : M[d] # k
  BY DEF Ready
<1>5. Ready(S, slots, k, r)
  BY <1>3, <1>4 DEF Ready, OneEach
<1>6. DoesWell(S, slots, k, r, s) /\ r.visited \subseteq s.visited
  BY <1>5 DEF WellAfter, GoesOn
<1>7. StepOf(S, slots, h, k, w) = s
  BY DEF Skips
<1> HIDE DEF s, M, j
<1>8. CASE FailsWell(S, slots, k, r, s)
  <2>1. /\ s.found = FALSE /\ s.slotOf = M /\ CandidatesFor(S, slots, k) \subseteq s.visited
        /\ \A d \in s.visited \ r.visited :
              M[d] # 0 /\ CandidatesFor(S, slots, M[d]) \subseteq s.visited
    BY <1>3, <1>8 DEF FailsWell
  <2>2. \A d \in s.visited \ w.visited :
           M[d] # 0 /\ CandidatesFor(S, slots, M[d]) \subseteq s.visited
    <3> SUFFICES ASSUME NEW d \in s.visited \ w.visited
                 PROVE  M[d] # 0 /\ CandidatesFor(S, slots, M[d]) \subseteq s.visited
      OBVIOUS
    <3>1. CASE d \notin r.visited
      BY <3>1, <2>1
    <3>2. CASE d \in r.visited /\ d # c
      BY <3>2, <1>3, <1>6
    <3>3. CASE d = c
      BY <3>3, <1>1, <1>3, <1>6 DEF j
    <3> QED
      BY <3>1, <3>2, <3>3
  <2> QED
    BY <1>7, <2>1, <2>2 DEF DoesWell, FailsWell, M
<1>9. CASE FindsWell(S, slots, k, r, s)
  <2> DEFINE N == s.slotOf
  <2>1. /\ s.found = TRUE /\ Edges(S, slots, N) /\ \A d \in r.visited : N[d] = M[d]
        /\ Adds(M, N, T, k)
        /\ \A V : ClosedUnder(S, slots, M, V) =>
             /\ \A d \in V : N[d] = M[d]
             /\ ~(CandidatesFor(S, slots, k) \subseteq V)
    BY <1>3, <1>9 DEF FindsWell
  <2>2. /\ OneEach(N, T) /\ \A d \in T : N[d] # 0 => N[d] = k \/ \E e \in T : M[e] = N[d]
        /\ \E d \in T : N[d] = k
        /\ \A d \in T : M[d] # 0 => \E e \in T : N[e] = M[d]
    BY <2>1 DEF Adds
  <2> HIDE DEF N
  <2>3. \A d \in T : d \in U
    OBVIOUS
  <2>4. \A d \in U : d \in T \/ N[d] = M[d]
    BY <2>1
  <2>5. Adds(M, N, U, k)
    <3>1. OneEach(N, U)
      <4> SUFFICES ASSUME NEW d \in U, NEW e \in U, N[d] = N[e], N[d] # 0 PROVE d = e
        BY DEF OneEach
      <4>1. CASE d \in T /\ e \in T
        BY <4>1, <2>2 DEF OneEach
      <4>2. CASE d \notin T /\ e \notin T
        BY <4>2, <2>4, <1>4 DEF OneEach
      <4>3. ASSUME NEW a \in T, NEW b \in U, b \notin T, N[a] = N[b], N[a] # 0 PROVE FALSE
        <5>1. N[b] = M[b] /\ M[b] # k
          BY <4>3, <2>4, <1>4
        <5>2. PICK e1 \in T : M[e1] = N[a]
          BY <4>3, <5>1, <2>2
        <5>3. e1 = b
          BY <4>3, <5>1, <5>2, <2>3, <1>4 DEF OneEach
        <5> QED
          BY <4>3, <5>3
      <4> QED
        BY <4>1, <4>2, <4>3
    <3>2. \A d \in U : N[d] # 0 => N[d] = k \/ \E e \in U : M[e] = N[d]
      BY <2>2, <2>3, <2>4
    <3>3. \A d \in U : M[d] # 0 => \E e \in U : N[e] = M[d]
      BY <2>2, <2>3, <2>4
    <3>4. \E d \in U : N[d] = k
      BY <2>2, <2>3
    <3> QED
      BY <3>1, <3>2, <3>3, <3>4 DEF Adds
  <2>6. \A d \in w.visited : N[d] = M[d]
    BY <2>1
  <2> QED
    BY <1>7, <2>1, <2>5, <2>6 DEF DoesWell, FindsWell, M, N
<1> QED
  BY <1>6, <1>8, <1>9 DEF DoesWell

\* A step does well when those after it do.
LEMMA StepDoesWell ==
    ASSUME NEW S, Named(S), NEW slots, NEW k \in 1 .. BatchSize, NEW w \in Walks(S), NEW h,
           GoesOn(S, h, w), WellAfter(S, slots, h, w), Ready(S, slots, k, w)
    PROVE  DoesWell(S, slots, k, w, StepOf(S, slots, h, k, w))
<1>1. CASE WalkEnds(S, slots, h, k, w)
  <2>1. CandidatesFor(S, slots, k) \subseteq w.visited /\ StepOf(S, slots, h, k, w) = w
    BY <1>1 DEF WalkEnds, OpenFor, CandidatesFor
  <2> QED
    BY <2>1 DEF DoesWell, FailsWell, Ready
<1>2. ASSUME NEW c \in OpenFor(S, slots, k, w), Frees(S, slots, h, k, w, c)
      PROVE  DoesWell(S, slots, k, w, StepOf(S, slots, h, k, w))
  BY <1>2, FreesWell DEF DoesWell
<1>3. ASSUME NEW c \in OpenFor(S, slots, k, w), NEW r, w.slotOf[c] \in 1 .. BatchSize,
             FurtherWalk(S, w, WithSeen(w, c)), r = h[<<w.slotOf[c], WithSeen(w, c)>>]
      PROVE  DoesWell(S, slots, w.slotOf[c], WithSeen(w, c), r)
  <2>1. w.slotOf[c] # 0
    BY <1>3, QuotasAre
  <2>2. Ready(S, slots, w.slotOf[c], WithSeen(w, c))
    BY <2>1, SeenIsReady
  <2> QED
    BY <1>3, <2>2 DEF WellAfter, FurtherWalk
<1>4. ASSUME NEW c \in OpenFor(S, slots, k, w), NEW r \in Walks(S), FurtherWalk(S, w, WithSeen(w, c)),
             Moves(S, slots, h, k, w, c, r)
      PROVE  DoesWell(S, slots, k, w, StepOf(S, slots, h, k, w))
  <2>1. DoesWell(S, slots, w.slotOf[c], WithSeen(w, c), r) /\ r.found = TRUE
    BY <1>3, <1>4 DEF Moves
  <2>2. FindsWell(S, slots, w.slotOf[c], WithSeen(w, c), r)
    BY <2>1 DEF DoesWell, FailsWell
  <2> QED
    BY <1>4, <2>2, MovesWell DEF DoesWell
<1>5. ASSUME NEW c \in OpenFor(S, slots, k, w), NEW r \in Walks(S), FurtherWalk(S, w, WithSeen(w, c)),
             FurtherWalk(S, w, r), w.visited \cup {c} \subseteq r.visited, Skips(S, slots, h, k, w, c, r)
      PROVE  DoesWell(S, slots, k, w, StepOf(S, slots, h, k, w))
  <2>1. DoesWell(S, slots, w.slotOf[c], WithSeen(w, c), r) /\ r.found = FALSE
    BY <1>3, <1>5 DEF Skips
  <2>2. FailsWell(S, slots, w.slotOf[c], WithSeen(w, c), r)
    BY <2>1 DEF DoesWell, FindsWell
  <2> QED
    BY <1>5, <2>2, SkipsWell
<1> QED
  BY <1>1, <1>2, <1>4, <1>5, WaysOfStep

-----------------------------------------------------------------------------
(* The assignment of slots.                                                *)

\* A step looks at calls that go further only.
LEMMA SameStep ==
    ASSUME NEW S, Named(S), NEW slots, NEW k \in 1 .. BatchSize, NEW w \in Walks(S),
           NEW f, NEW g, GoesOn(S, f, w),
           \A j \in 1 .. BatchSize : \A v \in Walks(S) : FurtherWalk(S, w, v) => f[<<j, v>>] = g[<<j, v>>]
    PROVE  StepOf(S, slots, f, k, w) = StepOf(S, slots, g, k, w)
<1> DEFINE free == OpenFor(S, slots, k, w)
           c == Foremost(free)
           seen == [w EXCEPT !.visited = @ \cup {c}]
           next(h) == IF w.slotOf[c] = 0 THEN [seen EXCEPT !.found = TRUE]
                      ELSE h[<<w.slotOf[c], seen>>]
<1>1. \A h : StepOf(S, slots, h, k, w) =
                IF free = {} THEN w
                ELSE IF next(h).found THEN [next(h) EXCEPT !.slotOf[c] = k] ELSE h[<<k, next(h)>>]
  BY DEF StepOf, OpenFor
<1>2. CASE free = {}
  BY <1>1, <1>2
<1>3. CASE free # {}
  <2>1. /\ c \in S /\ seen = WithSeen(w, c) /\ FurtherWalk(S, w, WithSeen(w, c))
    BY <1>3, FirstIsSeen
  <2>2. w.slotOf \in [S -> 0 .. BatchSize] /\ BatchSize \in Nat
    BY WalksAre, QuotasAre
  <2> HIDE DEF c, free
  <2>3. CASE w.slotOf[c] = 0
    <3>1. next(f) = next(g) /\ next(f).found = TRUE
      <4>1. w = WalkAt(w.slotOf, w.visited, w.found)
        BY WalksAre
      <4>2. next(f) = [seen EXCEPT !.found = TRUE] /\ next(g) = [seen EXCEPT !.found = TRUE]
        BY <2>3
      <4>3. [seen EXCEPT !.found = TRUE].found = TRUE
        <5> HIDE DEF seen
        <5> QED
          BY <2>1 DEF WithSeen, WalkAt
      <4> HIDE DEF next, seen
      <4> QED
        BY <4>2, <4>3
    <3> HIDE DEF next
    <3> QED
      BY <1>1, <3>1
  <2>4. CASE w.slotOf[c] # 0
    <3>1. w.slotOf[c] \in 1 .. BatchSize
      BY <2>1, <2>2, <2>4
    <3>2. seen \in Walks(S) /\ FurtherWalk(S, w, seen) /\ w.visited \subseteq seen.visited
          /\ w.visited # seen.visited
      BY <2>1 DEF FurtherWalk
    <3> HIDE DEF seen
    <3> DEFINE r == f[<<w.slotOf[c], seen>>]
    <3>3. next(f) = r /\ next(g) = r
      BY <2>4, <3>1, <3>2
    <3>4. r \in Walks(S) /\ seen.visited \subseteq r.visited
      BY <3>1, <3>2 DEF GoesOn
    <3> HIDE DEF r, next
    <3>5. FurtherWalk(S, w, r)
      BY <3>2, <3>4 DEF FurtherWalk
    <3>6. f[<<k, r>>] = g[<<k, r>>]
      BY <3>4, <3>5
    <3> QED
      BY <1>1, <3>3, <3>6
  <2> QED
    BY <2>3, <2>4
<1> QED
  BY <1>2, <1>3

\* A walk goes on and does well.
LEMMA TryAssignDoesWell ==
    ASSUME NEW S, Named(S), NEW slots, DOMAIN slots = 1 .. BatchSize
    PROVE  \A k \in 1 .. BatchSize : \A w \in Walks(S) :
              /\ TryAssign(S, slots)[<<k, w>>] \in Walks(S)
              /\ Ready(S, slots, k, w) => DoesWell(S, slots, k, w, TryAssign(S, slots)[<<k, w>>])
<1> DEFINE D == (1 .. BatchSize) \X Walks(S)
           B == [x \in D |-> {r \in Walks(S) : x[2].visited \subseteq r.visited}]
           C == [x \in D |-> {r \in Walks(S) : /\ x[2].visited \subseteq r.visited
                                               /\ Ready(S, slots, x[1], x[2])
                                                     => DoesWell(S, slots, x[1], x[2], r)}]
           rank == [x \in D |-> Cardinality(S \ x[2].visited)]
           G == [p \in D \X [D -> Walks(S)] |-> StepOf(S, slots, p[2], p[1][1], p[1][2])]
           f0 == [x \in D |-> x[2]]
           n == Cardinality(S)
<1>1. IsFiniteSet(S) /\ n \in Nat
  BY FS_CardinalityType DEF Named
<1>2. rank \in [D -> 0 .. n]
  <2> SUFFICES ASSUME NEW x \in D PROVE Cardinality(S \ x[2].visited) \in 0 .. n
    OBVIOUS
  <2>1. S \ x[2].visited \in SUBSET S
    OBVIOUS
  <2> QED
    BY <1>1, <2>1, FS_Subset, FS_CardinalityType
<1>3. \A x \in D : x[1] \in 1 .. BatchSize /\ x[2] \in Walks(S) /\ x = <<x[1], x[2]>>
  OBVIOUS
<1>4. \A x \in D : \A j \in 1 .. BatchSize : \A v \in Walks(S) :
         FurtherWalk(S, x[2], v) => <<j, v>> \in D /\ rank[<<j, v>>] < rank[x]
  <2> SUFFICES ASSUME NEW x \in D, NEW j \in 1 .. BatchSize, NEW v \in Walks(S), FurtherWalk(S, x[2], v)
               PROVE  <<j, v>> \in D /\ rank[<<j, v>>] < rank[x]
    OBVIOUS
  <2>1. <<j, v>> \in D /\ rank[<<j, v>>] = Cardinality(S \ v.visited)
        /\ rank[x] = Cardinality(S \ x[2].visited)
    OBVIOUS
  <2>2. x[2].visited \in SUBSET S /\ v.visited \in SUBSET S
    BY <1>3, WalksAre
  <2>3. S \ v.visited \in SUBSET (S \ x[2].visited) /\ S \ v.visited # S \ x[2].visited
    BY <2>2 DEF FurtherWalk
  <2>4. IsFiniteSet(S \ x[2].visited)
    BY <1>1, FS_Difference
  <2>5. IsFiniteSet(S \ v.visited)
    BY <1>1, FS_Difference
  <2>6. Cardinality(S \ x[2].visited) \in Nat /\ Cardinality(S \ v.visited) \in Nat
    BY <2>4, <2>5, FS_CardinalityType
  <2>7. Cardinality(S \ v.visited) <= Cardinality(S \ x[2].visited)
        /\ Cardinality(S \ v.visited) # Cardinality(S \ x[2].visited)
    BY <2>3, <2>4, FS_Subset
  <2>8. Cardinality(S \ v.visited) < Cardinality(S \ x[2].visited)
    BY <2>6, <2>7
  <2> HIDE DEF rank, D
  <2> QED
    BY <2>1, <2>8
<1> HIDE DEF n, rank
<1>5. \A x \in D : \A h :
         (\A y \in D : rank[y] < rank[x] => h[y] \in Walks(S) /\ y[2].visited \subseteq h[y].visited)
         => GoesOn(S, h, x[2])
  <2> SUFFICES ASSUME NEW x \in D, NEW h, NEW j \in 1 .. BatchSize, NEW v \in Walks(S),
                      FurtherWalk(S, x[2], v),
                      \A y \in D : rank[y] < rank[x] => h[y] \in Walks(S) /\ y[2].visited \subseteq h[y].visited
               PROVE  h[<<j, v>>] \in Walks(S) /\ v.visited \subseteq h[<<j, v>>].visited
    <3> HIDE DEF D
    <3> QED
      BY DEF GoesOn
  <2>1. <<j, v>> \in D /\ rank[<<j, v>>] < rank[x] /\ <<j, v>>[2] = v
    BY <1>4
  <2>2. h[<<j, v>>] \in Walks(S) /\ <<j, v>>[2].visited \subseteq h[<<j, v>>].visited
    BY <2>1
  <2> QED
    BY <2>1, <2>2
<1>6. \A f : FitsIn(f, D, B) => /\ f \in [D -> Walks(S)]
                              /\ \A y \in D : f[y] \in Walks(S) /\ y[2].visited \subseteq f[y].visited
  <2> SUFFICES ASSUME NEW f, FitsIn(f, D, B)
               PROVE  /\ f \in [D -> Walks(S)]
                      /\ \A y \in D : f[y] \in Walks(S) /\ y[2].visited \subseteq f[y].visited
    OBVIOUS
  <2>1. \A y \in D : f[y] \in B[y]
    BY DEF FitsIn
  <2>2. \A y \in D : f[y] \in Walks(S) /\ y[2].visited \subseteq f[y].visited
    BY <2>1
  <2>3. f = [y \in D |-> f[y]]
    BY DEF FitsIn
  <2> HIDE DEF D
  <2> QED
    BY <2>2, <2>3
<1>7. \A f : FitsIn(f, D, B) => \A x \in D : GoesOn(S, f, x[2])
  <2> HIDE DEF D, B
  <2> QED
    BY <1>5, <1>6
<1>8. \A f : FitsIn(f, D, B) => \A x \in D : G[<<x, f>>] = StepOf(S, slots, f, x[1], x[2])
  <2> HIDE DEF D, B
  <2> QED
    BY <1>6
<1>9. MakesFit(G, D, B)
  <2> SUFFICES ASSUME NEW x \in D, NEW f, FitsIn(f, D, B) PROVE G[<<x, f>>] \in B[x]
    BY DEF MakesFit
  <2>1. GoesOn(S, f, x[2]) /\ G[<<x, f>>] = StepOf(S, slots, f, x[1], x[2])
    BY <1>7, <1>8
  <2>2. G[<<x, f>>] \in Walks(S) /\ x[2].visited \subseteq G[<<x, f>>].visited
    <3> HIDE DEF G
    <3> QED
      BY <1>3, <2>1, StepGoesOn
  <2> HIDE DEF G
  <2> QED
    BY <2>2
<1>10. LooksDown(G, D, B, rank)
  <2> SUFFICES ASSUME NEW x \in D, NEW f, NEW g, FitsIn(f, D, B), FitsIn(g, D, B),
                      \A y \in D : rank[y] < rank[x] => f[y] = g[y]
               PROVE  G[<<x, f>>] = G[<<x, g>>]
    <3> HIDE DEF G, D, B
    <3> QED
      BY DEF LooksDown
  <2>1. GoesOn(S, f, x[2]) /\ x[1] \in 1 .. BatchSize /\ x[2] \in Walks(S)
    BY <1>3, <1>7
  <2>2. \A j \in 1 .. BatchSize : \A v \in Walks(S) : FurtherWalk(S, x[2], v) => f[<<j, v>>] = g[<<j, v>>]
    <3> HIDE DEF D, B
    <3> QED
      BY <1>4
  <2>3. StepOf(S, slots, f, x[1], x[2]) = StepOf(S, slots, g, x[1], x[2])
    BY <2>1, <2>2, SameStep
  <2> HIDE DEF G, D, B
  <2> QED
    BY <1>8, <2>3
<1>11. FitsIn(f0, D, B)
  BY DEF FitsIn
<1>12. PICK f : SolvesFor(f, G, D, B)
  <2> HIDE DEF D, B, G, f0
  <2> QED
    BY <1>1, <1>2, <1>9, <1>10, <1>11, RecursionExists
<1>13. f = [x \in D |-> StepOf(S, slots, f, x[1], x[2])]
  <2>1. f = [x \in D |-> f[x]] /\ \A x \in D : f[x] = StepOf(S, slots, f, x[1], x[2])
    <3> HIDE DEF D, B, G
    <3> QED
      BY <1>8, <1>12 DEF FitsIn, SolvesFor
  <2> HIDE DEF D
  <2> QED
    BY <2>1
<1> DEFINE try == CHOOSE g : g = [x \in D |-> StepOf(S, slots, g, x[1], x[2])]
<1>14. try = [x \in D |-> StepOf(S, slots, try, x[1], x[2])]
  <2> HIDE DEF D
  <2> QED
    BY <1>13
<1>15. TryAssign(S, slots) = try
  BY DEF TryAssign, StepOf
<1> HIDE DEF try
<1>16. StaysIn(try, D, C, rank)
  <2> SUFFICES ASSUME NEW x \in D, \A y \in D : rank[y] < rank[x] => try[y] \in C[y]
               PROVE  try[x] \in C[x]
    BY DEF StaysIn
  <2>1. \A y \in D : rank[y] < rank[x] =>
           /\ try[y] \in Walks(S) /\ y[2].visited \subseteq try[y].visited
           /\ Ready(S, slots, y[1], y[2]) => DoesWell(S, slots, y[1], y[2], try[y])
    OBVIOUS
  <2>2. GoesOn(S, try, x[2]) /\ x[1] \in 1 .. BatchSize /\ x[2] \in Walks(S)
    BY <1>3, <1>5, <2>1
  <2>3. WellAfter(S, slots, try, x[2])
    <3> SUFFICES ASSUME NEW j \in 1 .. BatchSize, NEW v \in Walks(S), FurtherWalk(S, x[2], v),
                        Ready(S, slots, j, v)
                 PROVE  DoesWell(S, slots, j, v, try[<<j, v>>])
      BY DEF WellAfter
    <3>1. <<j, v>> \in D /\ rank[<<j, v>>] < rank[x] /\ <<j, v>>[1] = j /\ <<j, v>>[2] = v
      BY <1>4
    <3> HIDE DEF D, C
    <3>2. Ready(S, slots, <<j, v>>[1], <<j, v>>[2])
            => DoesWell(S, slots, <<j, v>>[1], <<j, v>>[2], try[<<j, v>>])
      BY <2>1, <3>1
    <3> QED
      BY <3>1, <3>2
  <2>4. try[x] = StepOf(S, slots, try, x[1], x[2])
    <3> HIDE DEF D
    <3> QED
      BY <1>14
  <2>5. try[x] \in Walks(S) /\ x[2].visited \subseteq try[x].visited
    BY <2>2, <2>4, StepGoesOn
  <2>6. Ready(S, slots, x[1], x[2]) => DoesWell(S, slots, x[1], x[2], try[x])
    BY <2>2, <2>3, <2>4, StepDoesWell
  <2> QED
    BY <2>5, <2>6
<1>17. \A x \in D : try[x] \in C[x]
  <2> HIDE DEF D, C
  <2> QED
    BY <1>1, <1>2, <1>16, RecursionStays
<1> SUFFICES ASSUME NEW k \in 1 .. BatchSize, NEW w \in Walks(S)
             PROVE  /\ try[<<k, w>>] \in Walks(S)
                    /\ Ready(S, slots, k, w) => DoesWell(S, slots, k, w, try[<<k, w>>])
  BY <1>15
<1>18. <<k, w>> \in D /\ <<k, w>>[1] = k /\ <<k, w>>[2] = w
  OBVIOUS
<1>19. try[<<k, w>>] \in C[<<k, w>>]
  <2> HIDE DEF D, C
  <2> QED
    BY <1>17, <1>18
<1>20. /\ try[<<k, w>>] \in Walks(S)
       /\ Ready(S, slots, <<k, w>>[1], <<k, w>>[2])
             => DoesWell(S, slots, <<k, w>>[1], <<k, w>>[2], try[<<k, w>>])
  BY <1>18, <1>19
<1> QED
  BY <1>18, <1>20

\* What the assignment of the first k slots has: those of no candidate could
\* only be had by candidates that all have a slot.
Barrier(S, slots, M, k, V) ==
    /\ ClosedUnder(S, slots, M, V)
    /\ \A j \in 1 .. k : (\A c \in S : M[c] # j) => CandidatesFor(S, slots, j) \subseteq V

\* The assignments of the first k slots.
AssignedTo(S, slots, k) ==
    {M \in [S -> 0 .. BatchSize] :
        /\ Edges(S, slots, M) /\ OneEach(M, S)
        /\ \A c \in S : M[c] <= k
        /\ \E V \in SUBSET S : Barrier(S, slots, M, k, V)}

\* A walk that has visited none.
Fresh(M) == [slotOf |-> M, visited |-> {}, found |-> FALSE]

\* A walk begins with no visits.
LEMMA FreshIs ==
    ASSUME NEW S, NEW M \in [S -> 0 .. BatchSize]
    PROVE  /\ Fresh(M) \in Walks(S)
           /\ Fresh(M).slotOf = M /\ Fresh(M).visited = {} /\ Fresh(M).found = FALSE
  BY DEF Fresh, Walks

\* A slot more keeps it.
LEMMA AssignsOneMore ==
    ASSUME NEW S, Named(S), NEW slots, DOMAIN slots = 1 .. BatchSize, NEW k \in 1 .. BatchSize,
           NEW M \in AssignedTo(S, slots, k - 1)
    PROVE  TryAssign(S, slots)[<<k, Fresh(M)>>].slotOf \in AssignedTo(S, slots, k)
<1> DEFINE w == Fresh(M)
           r == TryAssign(S, slots)[<<k, w>>]
           N == r.slotOf
<1>0. BatchSize \in Nat
  BY QuotasAre
<1>1. /\ M \in [S -> 0 .. BatchSize] /\ Edges(S, slots, M) /\ OneEach(M, S)
      /\ \A c \in S : M[c] <= k - 1
  BY DEF AssignedTo
<1>2. PICK V \in SUBSET S : Barrier(S, slots, M, k - 1, V)
  BY DEF AssignedTo
<1>3. w \in Walks(S) /\ w.slotOf = M /\ w.visited = {} /\ w.found = FALSE
  BY <1>1, FreshIs
<1> HIDE DEF w
<1>4. \A c \in S : M[c] # k /\ M[c] \in Nat
  BY <1>0, <1>1
<1>5. Ready(S, slots, k, w)
  <2>1. OneEach(M, S \ {})
    BY <1>1 DEF OneEach
  <2> QED
    BY <1>1, <1>3, <1>4, <2>1 DEF Ready
<1>6. r \in Walks(S) /\ DoesWell(S, slots, k, w, r)
  BY <1>3, <1>5, TryAssignDoesWell
<1>7. N \in [S -> 0 .. BatchSize] /\ r.visited \in SUBSET S
  BY <1>6, WalksAre
<1> HIDE DEF r
<1>8. CASE FailsWell(S, slots, k, w, r)
  <2>1. /\ N = M /\ CandidatesFor(S, slots, k) \subseteq r.visited
        /\ \A c \in r.visited : M[c] # 0 /\ CandidatesFor(S, slots, M[c]) \subseteq r.visited
    BY <1>3, <1>8 DEF FailsWell
  <2> DEFINE X == V \cup r.visited
  <2>2. ClosedUnder(S, slots, M, X)
    BY <1>2, <1>7, <2>1 DEF ClosedUnder, Barrier
  <2>3. \A j \in 1 .. k : (\A c \in S : M[c] # j) => CandidatesFor(S, slots, j) \subseteq X
    <3> SUFFICES ASSUME NEW j \in 1 .. k, \A c \in S : M[c] # j
                 PROVE  CandidatesFor(S, slots, j) \subseteq X
      OBVIOUS
    <3>1. CASE j = k
      BY <3>1, <2>1
    <3>2. CASE j # k
      <4>1. j \in 1 .. (k - 1)
        BY <3>2
      <4> QED
        BY <4>1, <1>2 DEF Barrier
    <3> QED
      BY <3>1, <3>2
  <2>4. X \in SUBSET S
    BY <1>7
  <2> HIDE DEF X, N
  <2>5. \E Y \in SUBSET S : Barrier(S, slots, N, k, Y)
    BY <2>1, <2>2, <2>3, <2>4 DEF Barrier
  <2>6. \A c \in S : N[c] <= k
    BY <1>1, <1>4, <2>1
  <2> QED
    BY <1>1, <2>1, <2>5, <2>6 DEF AssignedTo, N, r, w
<1>9. CASE FindsWell(S, slots, k, w, r)
  <2>1. /\ Edges(S, slots, N) /\ Adds(M, N, S \ {}, k)
        /\ \A X : ClosedUnder(S, slots, M, X) => \A c \in X : N[c] = M[c]
    BY <1>3, <1>9 DEF FindsWell
  <2>2. S \ {} = S
    OBVIOUS
  <2>3. Adds(M, N, S, k)
    BY <2>1, <2>2
  <2>4. /\ OneEach(N, S) /\ \A c \in S : N[c] # 0 => N[c] = k \/ \E d \in S : M[d] = N[c]
        /\ \E c \in S : N[c] = k
        /\ \A d \in S : M[d] # 0 => \E c \in S : N[c] = M[d]
    BY <2>3 DEF Adds
  <2> HIDE DEF N
  <2>5. \A c \in S : N[c] <= k
    <3> TAKE c \in S
    <3>1. N[c] \in Nat
      BY <1>0, <1>7
    <3>2. CASE N[c] = 0
      BY <3>2
    <3>3. CASE N[c] # 0
      BY <3>1, <3>3, <2>4, <1>1, <1>4
    <3> QED
      BY <3>2, <3>3
  <2>6. Barrier(S, slots, N, k, V)
    <3>1. ClosedUnder(S, slots, M, V)
      BY <1>2 DEF Barrier
    <3>2. \A c \in V : N[c] = M[c]
      BY <2>1, <3>1
    <3>3. ClosedUnder(S, slots, N, V)
      BY <3>1, <3>2 DEF ClosedUnder
    <3>4. \A j \in 1 .. k : (\A c \in S : N[c] # j) => CandidatesFor(S, slots, j) \subseteq V
      <4> SUFFICES ASSUME NEW j \in 1 .. k, \A c \in S : N[c] # j
                   PROVE  CandidatesFor(S, slots, j) \subseteq V
        OBVIOUS
      <4>1. j # k /\ j # 0
        BY <2>4
      <4>2. j \in 1 .. (k - 1)
        BY <4>1
      <4>3. \A c \in S : M[c] # j
        BY <2>4, <4>1
      <4> QED
        BY <4>2, <4>3, <1>2 DEF Barrier
    <3> QED
      BY <3>3, <3>4 DEF Barrier
  <2> QED
    BY <1>7, <2>1, <2>4, <2>5, <2>6 DEF AssignedTo, N, r, w
<1> QED
  BY <1>6, <1>8, <1>9 DEF DoesWell

\* After all slots, the assignment is one of them all.
LEMMA AssignmentIs ==
    ASSUME NEW S, Candidates(S)
    PROVE  Assignment(S, Slots(S)) \in AssignedTo(S, Slots(S), BatchSize)
<1> DEFINE slots == Slots(S)
           n == BatchSize
           pass(M, k) == TryAssign(S, slots)[<<k, [slotOf |-> M, visited |-> {}, found |-> FALSE]>>].slotOf
           V == [k \in 0 .. n |-> AssignedTo(S, slots, k)]
           start == [c \in S |-> 0]
           G == [p \in [S -> 0 .. n] \X (1 .. n) |-> pass(p[1], p[2])]
<1>0. n \in Nat /\ DOMAIN slots = 1 .. n /\ Len(slots) = n /\ Named(S)
  BY QuotasAre, SlotsAre DEF Candidates
<1> HIDE DEF slots
<1>1. \A k \in 1 .. n : \A M \in V[k - 1] : pass(M, k) \in V[k]
  <2> TAKE k \in 1 .. n
  <2> TAKE M \in V[k - 1]
  <2>1. V[k - 1] = AssignedTo(S, slots, k - 1) /\ V[k] = AssignedTo(S, slots, k)
    BY <1>0
  <2>2. pass(M, k) = TryAssign(S, slots)[<<k, Fresh(M)>>].slotOf
    BY DEF Fresh
  <2>3. M \in AssignedTo(S, slots, k - 1)
    BY <2>1
  <2> HIDE DEF V, pass
  <2>4. pass(M, k) \in AssignedTo(S, slots, k)
    BY <1>0, <2>2, <2>3, AssignsOneMore
  <2> QED
    BY <2>1, <2>4
<1>2. \A k \in 1 .. n : \A M \in V[k - 1] : G[<<M, k>>] = pass(M, k)
  <2> TAKE k \in 1 .. n
  <2> TAKE M \in V[k - 1]
  <2>1. M \in [S -> 0 .. n]
    BY <1>0 DEF AssignedTo
  <2> HIDE DEF pass
  <2> QED
    BY <2>1
<1>3. start \in V[0]
  <2>1. start \in [S -> 0 .. BatchSize] /\ \A c \in S : start[c] = 0
    BY <1>0
  <2> HIDE DEF start
  <2>2. Edges(S, slots, start) /\ OneEach(start, S) /\ \A c \in S : start[c] <= 0
    BY <2>1 DEF Edges, OneEach
  <2>3. Barrier(S, slots, start, 0, {})
    BY DEF Barrier, ClosedUnder
  <2>4. start \in AssignedTo(S, slots, 0)
    BY <2>1, <2>2, <2>3 DEF AssignedTo
  <2> QED
    BY <1>0, <2>4
<1>4. PICK f : IsLoop(f, start, G, n) /\ \A k \in 0 .. n : f[k] \in V[k]
  <2>1. \A k \in 1 .. n : \A M \in V[k - 1] : G[<<M, k>>] \in V[k]
    <3> HIDE DEF G, V, pass
    <3> QED
      BY <1>1, <1>2
  <2> HIDE DEF G, V, start
  <2> QED
    BY <1>0, <1>3, <2>1, LoopExists
<1>5. f = [k \in 0 .. n |-> IF k = 0 THEN start ELSE pass(f[k - 1], k)]
  <2>1. \A k \in 1 .. n : G[<<f[k - 1], k>>] = pass(f[k - 1], k)
    <3>1. \A k \in 1 .. n : f[k - 1] \in V[k - 1]
      <4> HIDE DEF V
      <4> QED
        BY <1>0, <1>4
    <3> HIDE DEF G, pass, V
    <3> QED
      BY <1>2, <3>1
  <2> HIDE DEF G, pass, start
  <2>2. f = [k \in 0 .. n |-> f[k]] /\ \A k \in 0 .. n : f[k] = IF k = 0 THEN start ELSE G[<<f[k - 1], k>>]
    BY <1>4 DEF IsLoop
  <2>3. \A k \in 0 .. n : f[k] = IF k = 0 THEN start ELSE pass(f[k - 1], k)
    <3> TAKE k \in 0 .. n
    <3>1. f[k] = IF k = 0 THEN start ELSE G[<<f[k - 1], k>>]
      BY <2>2
    <3>2. CASE k = 0
      BY <3>1, <3>2
    <3>3. CASE k # 0
      <4>1. k \in 1 .. n
        BY <3>3, <1>0
      <4> QED
        BY <3>1, <3>3, <2>1, <4>1
    <3> QED
      BY <3>2, <3>3
  <2> QED
    BY <2>2, <2>3
<1> DEFINE after == CHOOSE g : g = [k \in 0 .. n |-> IF k = 0 THEN start ELSE pass(g[k - 1], k)]
<1>6. after = [k \in 0 .. n |-> IF k = 0 THEN start ELSE pass(after[k - 1], k)]
  <2> HIDE DEF pass, start
  <2> QED
    BY <1>5
<1>7. Assignment(S, slots) = after[n]
  BY <1>0 DEF Assignment, Loop
<1> HIDE DEF after
<1>8. after[0] = start /\ \A k \in 1 .. n : after[k] = pass(after[k - 1], k)
  <2> HIDE DEF pass, start
  <2>1. 0 \in 0 .. n /\ \A k \in 1 .. n : k \in 0 .. n /\ k # 0
    BY <1>0
  <2> QED
    BY <1>6, <2>1
<1>9. \A k \in 0 .. n : after[k] \in V[k]
  <2> HIDE DEF V, pass, start
  <2>1. \A k \in 1 .. n : after[k - 1] \in V[k - 1] => after[k] \in V[k]
    BY <1>1, <1>8
  <2>2. after[0] \in V[0]
    BY <1>3, <1>8
  <2> QED
    BY <1>0, <2>1, <2>2, LoopStays
<1>10. after[n] \in V[n] /\ V[n] = AssignedTo(S, slots, n)
  BY <1>0, <1>9
<1> QED
  BY <1>7, <1>10 DEF slots

-----------------------------------------------------------------------------
(* The selection.                                                          *)

\* The candidates with a slot.
Placed(S, M) == {c \in S : M[c] # 0}

\* What the assignment of the slots is.
LEMMA PlacedAre ==
    ASSUME NEW S, Candidates(S), NEW M \in AssignedTo(S, Slots(S), BatchSize)
    PROVE  /\ IsFiniteSet(Placed(S, M)) /\ Cardinality(Placed(S, M)) \in 0 .. BatchSize
           /\ Placed(S, M) \in SUBSET S
           /\ \A c \in Placed(S, M) : /\ M[c] \in 1 .. BatchSize /\ Slots(S)[M[c]] \in c.types
                                      /\ Slots(S)[M[c]] \in SelectionType
           /\ \A c, d \in Placed(S, M) : M[c] = M[d] => c = d
           /\ \A t \in SelectionType :
                 Cardinality({c \in Placed(S, M) : Slots(S)[M[c]] = t}) <= Quota[t]
<1> DEFINE P == Placed(S, M)
           slots == Slots(S)
<1>0. BatchSize \in Nat /\ IsFiniteSet(S)
  BY QuotasAre DEF Candidates, Named
<1>1. M \in [S -> 0 .. BatchSize] /\ Edges(S, slots, M) /\ OneEach(M, S)
  BY DEF AssignedTo
<1>2. P \in SUBSET S /\ IsFiniteSet(P)
  <2>1. P \in SUBSET S
    BY DEF Placed
  <2> HIDE DEF P
  <2> QED
    BY <1>0, <2>1, FS_Subset
<1>3. \A c \in P : c \in S /\ M[c] # 0 /\ M[c] \in 1 .. BatchSize
  BY <1>0, <1>1 DEF Placed
<1>4. \A c \in P : slots[M[c]] \in c.types /\ slots[M[c]] \in SelectionType
  BY <1>1, <1>3, SlotsAre DEF Edges
<1>5. \A c, d \in P : M[c] = M[d] => c = d
  BY <1>1, <1>3 DEF OneEach
<1> HIDE DEF P, slots
<1>6. Cardinality(P) \in 0 .. BatchSize
  <2>1. {M[c] : c \in P} \in SUBSET (1 .. BatchSize)
    BY <1>3
  <2>2. IsFiniteSet(1 .. BatchSize) /\ Cardinality(1 .. BatchSize) = BatchSize
    BY <1>0, UpTo
  <2>3. Cardinality({M[c] : c \in P}) <= BatchSize
    BY <2>1, <2>2, FS_Subset
  <2>4. Cardinality({M[c] : c \in P}) = Cardinality(P)
    BY <1>2, <1>5, ImageOf
  <2>5. Cardinality(P) \in Nat
    BY <1>2, FS_CardinalityType
  <2> QED
    BY <1>0, <2>3, <2>4, <2>5
<1>7. \A t \in SelectionType : Cardinality({c \in P : slots[M[c]] = t}) <= Quota[t]
  <2> TAKE t \in SelectionType
  <2> DEFINE Q == {c \in P : slots[M[c]] = t}
             O == OfType(slots, t)
  <2>1. IsFiniteSet(O) /\ Cardinality(O) = Quota[t]
    BY SlotsAre DEF slots
  <2>2. Q \in SUBSET P
    OBVIOUS
  <2>3. {M[c] : c \in Q} \in SUBSET O
    BY <1>3 DEF OfType
  <2>4. \A c, d \in Q : M[c] = M[d] => c = d
    BY <1>5
  <2> HIDE DEF Q, O
  <2>5. IsFiniteSet(Q)
    BY <1>2, <2>2, FS_Subset
  <2>6. Cardinality({M[c] : c \in Q}) = Cardinality(Q)
    <3>1. IsImage({M[c] : c \in Q}, M, Q)
      BY <2>4 DEF IsImage
    <3> QED
      BY <2>5, <3>1, ImageSize
  <2>7. Cardinality(Q) <= Quota[t]
    BY <2>1, <2>3, <2>6, FS_Subset
  <2> QED
    BY <2>7 DEF Q
<1> QED
  BY <1>2, <1>3, <1>4, <1>5, <1>6, <1>7 DEF P, slots

\* A choice of types within the quotas.
WithinQuotas(S, f) ==
    /\ \A c \in S : f[c] \in c.types \cup {Null}
    /\ \A u \in SelectionType : Cardinality({c \in S : f[c] = u}) <= Quota[u]

\* No choice of types fills more of the wanted places than the assignment.
LEMMA NoneFillsMore ==
    ASSUME NEW S, Candidates(S), NEW M \in AssignedTo(S, Slots(S), BatchSize),
           NEW f, WithinQuotas(S, f)
    PROVE  Cardinality({c \in S : f[c] # Null}) <= Cardinality(Placed(S, M))
<1> DEFINE P == Placed(S, M)
           slots == Slots(S)
           E == {c \in S : f[c] # Null}
<1>0. IsFiniteSet(S) /\ \A c \in S : c.types \in SUBSET SelectionType
  BY DEF Candidates, Named
<1>1. /\ IsFiniteSet(P) /\ Cardinality(P) \in Nat /\ P \in SUBSET S
      /\ \A c \in P : M[c] \in 1 .. BatchSize /\ slots[M[c]] \in SelectionType
      /\ \A c, d \in P : M[c] = M[d] => c = d
  <2>1. Cardinality(P) \in 0 .. BatchSize /\ BatchSize \in Nat
    BY PlacedAre, QuotasAre
  <2> QED
    BY <2>1, PlacedAre
<1>2. PICK V \in SUBSET S : Barrier(S, slots, M, BatchSize, V)
  BY DEF AssignedTo
<1>3. /\ V \in SUBSET P
      /\ \A c \in V : CandidatesFor(S, slots, M[c]) \subseteq V
      /\ \A j \in 1 .. BatchSize : (\A c \in S : M[c] # j) => CandidatesFor(S, slots, j) \subseteq V
  BY <1>2 DEF Barrier, ClosedUnder, Placed
<1> DEFINE R == P \ V
           W == {M[c] : c \in R}
           F == E \ V
<1>4. IsFiniteSet(R) /\ IsFiniteSet(V) /\ Cardinality(P) = Cardinality(R) + Cardinality(V)
      /\ Cardinality(R) \in Nat /\ Cardinality(V) \in Nat
  <2>1. R \cap V = {} /\ P = R \cup V
    BY <1>3
  <2>2. IsFiniteSet(V)
    BY <1>1, <1>3, FS_Subset
  <2>3. IsFiniteSet(R)
    BY <1>1, FS_Difference
  <2> HIDE DEF R, P
  <2> QED
    BY <2>1, <2>2, <2>3, UnionOfTwo, FS_CardinalityType
<1>5. IsFiniteSet(W) /\ Cardinality(W) = Cardinality(R)
  <2>1. \A c, d \in R : M[c] = M[d] => c = d
    BY <1>1
  <2> HIDE DEF R, P, slots, E
  <2>0. IsFiniteSet(R)
    BY <1>4
  <2>2. IsFiniteSet({M[c] : c \in R})
    BY <2>0, ImageOf
  <2>3. Cardinality({M[c] : c \in R}) = Cardinality(R)
    BY <2>0, <2>1, ImageOf
  <2> QED
    BY <2>2, <2>3
<1>6. IsFiniteSet(E) /\ IsFiniteSet(F) /\ Cardinality(F) \in Nat /\ Cardinality(E) \in Nat
  <2>1. E \in SUBSET S /\ F \in SUBSET S
    OBVIOUS
  <2> HIDE DEF E, F
  <2> QED
    BY <1>0, <2>1, FS_Subset, FS_CardinalityType
<1>7. Cardinality(E) <= Cardinality(F) + Cardinality(V)
  <2> DEFINE X == E \cap V
  <2>1. F \cap X = {} /\ E = F \cup X /\ X \in SUBSET V
    OBVIOUS
  <2> HIDE DEF E, F, X
  <2>2. IsFiniteSet(X) /\ Cardinality(X) <= Cardinality(V) /\ Cardinality(X) \in Nat
    BY <1>4, <2>1, FS_Subset, FS_CardinalityType
  <2>3. Cardinality(E) = Cardinality(F) + Cardinality(X)
    BY <1>6, <2>1, <2>2, UnionOfTwo
  <2> QED
    BY <1>4, <1>6, <2>2, <2>3
<1>8. \A c \in F : c \in S /\ c \notin V /\ f[c] \in c.types /\ f[c] \in SelectionType
  BY <1>0 DEF WithinQuotas
<1>9. \A c \in F : OfType(slots, f[c]) \subseteq W
  <2> SUFFICES ASSUME NEW c \in F, NEW j \in OfType(slots, f[c]) PROVE j \in W
    OBVIOUS
  <2>1. j \in 1 .. BatchSize /\ c \in CandidatesFor(S, slots, j) /\ c \notin V
    BY <1>8 DEF OfType, CandidatesFor
  <2>2. PICK d \in S : M[d] = j
    BY <1>3, <2>1
  <2>3. d \in P
    BY <2>1, <2>2, QuotasAre DEF Placed
  <2>4. d \notin V
    BY <1>3, <2>1, <2>2
  <2> QED
    BY <2>2, <2>3, <2>4
<1>10. \A j \in W : j \in 1 .. BatchSize /\ slots[j] \in SelectionType
  BY <1>1
<1> DEFINE g == [t \in SelectionType |-> Cardinality({c \in F : f[c] = t})]
           h == [t \in SelectionType |-> Cardinality({j \in W : slots[j] = t})]
<1>11. SumOverTypes(g) = Cardinality(F)
  <2> HIDE DEF F
  <2> QED
    BY <1>6, <1>8, SumOfTypes
<1>12. SumOverTypes(h) = Cardinality(W)
  <2> HIDE DEF W
  <2> QED
    BY <1>5, <1>10, SumOfTypes
<1>13. \A t \in SelectionType : g[t] \in Nat /\ h[t] \in Nat /\ g[t] <= h[t]
  <2> TAKE t \in SelectionType
  <2> DEFINE X == {c \in F : f[c] = t}
             Y == {j \in W : slots[j] = t}
             Z == {c \in S : f[c] = t}
             O == OfType(slots, t)
  <2>1. X \in SUBSET F /\ Y \in SUBSET W /\ Z \in SUBSET S /\ X \in SUBSET Z
    BY <1>8
  <2>2. Cardinality(Z) <= Quota[t] /\ Quota[t] \in Nat /\ IsFiniteSet(O) /\ Cardinality(O) = Quota[t]
    BY SlotsAre, QuotasAre DEF WithinQuotas
  <2>3. X # {} => O \in SUBSET Y
    <3> SUFFICES ASSUME X # {} PROVE O \in SUBSET Y
      OBVIOUS
    <3>1. PICK c \in X : TRUE
      OBVIOUS
    <3>2. c \in F /\ f[c] = t
      OBVIOUS
    <3>3. O \in SUBSET W
      BY <1>9, <3>2
    <3>4. \A j \in O : slots[j] = t
      BY DEF OfType
    <3> HIDE DEF O, W
    <3> QED
      BY <3>3, <3>4
  <2>4. g[t] = Cardinality(X) /\ h[t] = Cardinality(Y)
    OBVIOUS
  <2> HIDE DEF X, Y, Z, O, F, W, g, h
  <2>5. IsFiniteSet(X) /\ IsFiniteSet(Y) /\ IsFiniteSet(Z)
    BY <1>0, <1>5, <1>6, <2>1, FS_Subset
  <2>6. /\ Cardinality(X) \in Nat /\ Cardinality(Y) \in Nat /\ Cardinality(Z) \in Nat
        /\ Cardinality(X) <= Cardinality(Z)
    BY <2>1, <2>5, FS_Subset, FS_CardinalityType
  <2>7. CASE X = {}
    BY <2>4, <2>6, <2>7, FS_EmptySet
  <2>8. CASE X # {}
    <3>1. Cardinality(O) <= Cardinality(Y)
      BY <2>3, <2>5, <2>8, FS_Subset
    <3> QED
      BY <2>2, <2>4, <2>6, <3>1
  <2> QED
    BY <2>7, <2>8
<1>14. Cardinality(F) <= Cardinality(W)
  <2> HIDE DEF g, h, F, W
  <2> QED
    BY <1>11, <1>12, <1>13, SumsOverTypes
<1>15. Cardinality(E) <= Cardinality(P)
  <2> HIDE DEF E, F, W, P, R
  <2> QED
    BY <1>4, <1>5, <1>6, <1>7, <1>14
<1> QED
  BY <1>15

\* The order items are shown in, as a set of pairs.
ShownIn(A) == {p \in A \X A : ShownBefore(p[1], p[2])}

\* Items of different candidates have an order to be shown in.
LEMMA ShownOrders ==
    ASSUME NEW A, Named(A), \A x \in A : x.as \in SelectionType
    PROVE  /\ Orders(ShownIn(A), A)
           /\ \A x \in A : Below(ShownIn(A), A, x) = {y \in A : ShownBefore(y, x)}
<1>1. \A x, y \in A : <<x, y>> \in ShownIn(A) <=> ShownBefore(x, y)
  BY DEF ShownIn
<1>2. \A x \in A : TypeRank(x.as) \in Nat
  BY TypesAre
<1>3. \A x, y \in A : TypeRank(x.as) = TypeRank(y.as) => x.as = y.as
  BY TypesAre
<1>4. /\ \A x \in A : ~Precedes(x, x)
      /\ \A x, y, z \in A : Precedes(x, y) /\ Precedes(y, z) => Precedes(x, z)
      /\ \A x, y \in A : x # y => Precedes(x, y) \/ Precedes(y, x)
  BY PrecedenceOrders DEF Orders
<1>5. \A x \in A : ~ShownBefore(x, x)
  BY <1>2, <1>4 DEF ShownBefore
<1>6. \A x, y, z \in A : ShownBefore(x, y) /\ ShownBefore(y, z) => ShownBefore(x, z)
  BY <1>2, <1>4 DEF ShownBefore
<1>7. \A x, y \in A : x # y => ShownBefore(x, y) \/ ShownBefore(y, x)
  <2> SUFFICES ASSUME NEW x \in A, NEW y \in A, x # y PROVE ShownBefore(x, y) \/ ShownBefore(y, x)
    OBVIOUS
  <2>1. CASE x.as = y.as
    BY <1>4, <2>1 DEF ShownBefore
  <2>2. CASE x.as # y.as
    BY <1>2, <1>3, <2>2 DEF ShownBefore
  <2> QED
    BY <2>1, <2>2
<1>8. Orders(ShownIn(A), A)
  BY <1>1, <1>5, <1>6, <1>7 DEF Orders
<1> QED
  BY <1>1, <1>8 DEF Below

\* All of them in the order they are shown.
LEMMA ShownAre ==
    ASSUME NEW A, Named(A), \A x \in A : x.as \in SelectionType
    PROVE  LET f == First(A, Cardinality(A), ShownBefore) IN
           /\ f \in Seq(A) /\ Len(f) = Cardinality(A) /\ DOMAIN f = 1 .. Len(f) /\ Len(f) \in Nat
           /\ \A j, k \in 1 .. Len(f) : f[j] = f[k] => j = k
           /\ \A x \in A : \E k \in 1 .. Len(f) : f[k] = x
<1> DEFINE R == ShownIn(A)
           n == Cardinality(A)
           f == First(A, n, ShownBefore)
           m == Min({n, Cardinality(A)})
           choice(k) == CHOOSE x \in A : Cardinality({y \in A : ShownBefore(y, x)}) = k - 1
<1>1. IsFiniteSet(A) /\ Orders(R, A) /\ n \in Nat
  BY ShownOrders, FS_CardinalityType DEF Named
<1>2. \A x \in A : Below(R, A, x) = {y \in A : ShownBefore(y, x)}
  BY ShownOrders
<1>3. \A k \in 1 .. m : choice(k) \in A /\ Cardinality({y \in A : ShownBefore(y, choice(k))}) = k - 1
  <2> TAKE k \in 1 .. m
  <2>1. \E x \in A : Cardinality(Below(R, A, x)) = k - 1
    <3> HIDE DEF R
    <3> QED
      BY <1>1, PlaceIsTaken
  <2>2. \E x \in A : Cardinality({y \in A : ShownBefore(y, x)}) = k - 1
    BY <1>2, <2>1
  <2> QED
    BY <2>2
<1>4. f = [k \in 1 .. m |-> choice(k)]
  BY DEF First
<1> HIDE DEF choice, m, R, f
<1>5. /\ f = [k \in 1 .. m |-> f[k]]
      /\ \A k \in 1 .. m : f[k] \in A /\ Cardinality(Below(R, A, f[k])) = k - 1
  BY <1>2, <1>3, <1>4
<1>6. IsFirst(f, A, n, R)
  BY <1>5 DEF IsFirst, m
<1> HIDE DEF n
<1>7. /\ f \in Seq(A) /\ Len(f) \in Nat /\ DOMAIN f = 1 .. Len(f)
      /\ Len(f) = IF n <= Cardinality(A) THEN n ELSE Cardinality(A)
      /\ \A j, k \in 1 .. Len(f) : f[j] = f[k] => j = k
      /\ \A x \in A : Cardinality(Below(R, A, x)) < n => \E k \in 1 .. Len(f) : f[k] = x
  BY <1>1, <1>6, FirstFacts
<1>8. \A x \in A : \E k \in 1 .. Len(f) : f[k] = x
  <2> TAKE x \in A
  <2>1. Cardinality(Below(R, A, x)) \in 0 .. (Cardinality(A) - 1)
    BY <1>1, Ranks
  <2>2. Cardinality(Below(R, A, x)) < n
    BY <1>1, <2>1 DEF n
  <2> QED
    BY <1>7, <2>2
<1>9. Len(f) = Cardinality(A)
  BY <1>1, <1>7 DEF n
<1> QED
  BY <1>7, <1>8, <1>9 DEF f, n

\* The type a candidate of the selection is shown as.
ShownType(S, M, c) ==
    IF c \in Placed(S, M) THEN Slots(S)[M[c]] ELSE LowestType(c.types)

\* The selection: as many candidates as fit, those with a slot as its type.
LEMMA SelectionIs ==
    ASSUME NEW S, Candidates(S)
    PROVE  /\ SelectByTarget(S) \in Picks(S)
           /\ Len(SelectByTarget(S)) = IF BatchSize <= Cardinality(S) THEN BatchSize ELSE Cardinality(S)
           /\ Cardinality(Placed(S, Assignment(S, Slots(S)))) <= QuotaScore(SelectByTarget(S))
<1> DEFINE slots == Slots(S)
           M == Assignment(S, slots)
           P == Placed(S, M)
           fill == First(S \ P, BatchSize - Cardinality(P), Precedes)
           Q == P \cup Range(fill)
           typeOf(c) == ShownType(S, M, c)
           chosen == {As(c, typeOf(c)) : c \in Q}
           sel == SelectByTarget(S)
<1>0. /\ BatchSize \in Nat /\ IsFiniteSet(S) /\ Cardinality(S) \in Nat /\ Named(S)
      /\ \A c \in S : c.types \in SUBSET SelectionType /\ c.types # {}
  BY QuotasAre, FS_CardinalityType DEF Candidates, Named
<1>1. M \in AssignedTo(S, Slots(S), BatchSize)
  BY AssignmentIs
<1> HIDE DEF M
<1>2. /\ IsFiniteSet(P) /\ Cardinality(P) \in 0 .. BatchSize /\ P \in SUBSET S
      /\ \A c \in P : slots[M[c]] \in c.types /\ slots[M[c]] \in SelectionType
      /\ \A t \in SelectionType : Cardinality({c \in P : slots[M[c]] = t}) <= Quota[t]
  BY <1>1, PlacedAre
<1>3. sel = First(chosen, Cardinality(chosen), ShownBefore)
  <2> DEFINE chosen2 == {As(c, slots[M[c]]) : c \in P}
                           \cup {As(c, LowestType(c.types)) : c \in Range(fill)}
  <2>1. sel = First(chosen2, Cardinality(chosen2), ShownBefore)
    BY DEF SelectByTarget, Placed, M
  <2>2. \A c \in P : typeOf(c) = slots[M[c]]
    BY DEF ShownType
  <2>3. \A c \in Range(fill) : c \notin P
    <3>1. fill \in Seq(S \ P)
      <4>1. Named(S \ P)
        BY <1>0, NamedPart
      <4> DEFINE X == S \ P
                 n == BatchSize - Cardinality(P)
      <4>2. n \in Nat
        BY <1>0, <1>2
      <4> HIDE DEF X, n
      <4>3. First(X, n, Precedes) \in Seq(X)
        BY <4>1, <4>2, FirstByPrecedence DEF X
      <4> QED
        BY <4>3 DEF X, n
    <3>2. Range(fill) \in SUBSET (S \ P)
      <4> HIDE DEF fill
      <4> QED
        BY <3>1, RangeIs
    <3> QED
      BY <3>2
  <2>4. \A c \in Range(fill) : typeOf(c) = LowestType(c.types)
    BY <2>3 DEF ShownType
  <2>5. chosen = chosen2
    <3> HIDE DEF P, fill, typeOf, slots
    <3> QED
      BY <2>2, <2>4
  <2> HIDE DEF chosen, chosen2, sel
  <2> QED
    BY <2>1, <2>5
<1> HIDE DEF sel
<1>4. /\ Range(fill) \in SUBSET (S \ P) /\ IsFiniteSet(Range(fill))
      /\ Cardinality(Q) = IF BatchSize <= Cardinality(S) THEN BatchSize ELSE Cardinality(S)
  <2> DEFINE X == S \ P
             n == BatchSize - Cardinality(P)
  <2>1. n \in Nat /\ Named(X)
    BY <1>0, <1>2, NamedPart
  <2>2. IsFiniteSet(X) /\ Cardinality(X) = Cardinality(S) - Cardinality(P) /\ Cardinality(X) \in Nat
    <3>1. X \cap P = {} /\ S = P \cup X /\ P \cap X = {}
      BY <1>2
    <3>2. IsFiniteSet(X)
      BY <1>0, FS_Difference
    <3> HIDE DEF X, P
    <3>3. Cardinality(S) = Cardinality(P) + Cardinality(X)
      BY <1>2, <3>1, <3>2, UnionOfTwo
    <3> QED
      BY <1>0, <1>2, <3>2, <3>3, FS_CardinalityType
  <2> HIDE DEF X, n
  <2>3. LET g == First(X, n, Precedes) IN
        /\ g \in Seq(X) /\ Len(g) \in Nat /\ DOMAIN g = 1 .. Len(g)
        /\ Len(g) = IF n <= Cardinality(X) THEN n ELSE Cardinality(X)
        /\ \A j, k \in 1 .. Len(g) : g[j] = g[k] => j = k
    BY <2>1, FirstByPrecedence
  <2>4. /\ fill \in Seq(X) /\ Len(fill) \in Nat /\ DOMAIN fill = 1 .. Len(fill)
        /\ Len(fill) = IF n <= Cardinality(X) THEN n ELSE Cardinality(X)
        /\ \A j, k \in 1 .. Len(fill) : fill[j] = fill[k] => j = k
    BY <2>3 DEF X, n
  <2> HIDE DEF fill
  <2>5. Range(fill) = {fill[k] : k \in 1 .. Len(fill)} /\ Range(fill) \in SUBSET X /\ IsFiniteSet(Range(fill))
    BY <2>4, RangeIs
  <2>6. Cardinality(Range(fill)) = Len(fill)
    <3> DEFINE I == 1 .. Len(fill)
    <3>1. IsFiniteSet(I) /\ Cardinality(I) = Len(fill)
      BY <2>4, UpTo
    <3>2. IsFiniteSet(I) /\ \A j, k \in I : fill[j] = fill[k] => j = k
      BY <2>4, <3>1
    <3>3. Range(fill) = {fill[k] : k \in I}
      BY <2>5
    <3> HIDE DEF I
    <3>4. Cardinality({fill[k] : k \in I}) = Cardinality(I)
      BY <3>2, ImageOf
    <3> QED
      BY <3>1, <3>3, <3>4
  <2>7. Cardinality(Q) = Cardinality(P) + Cardinality(Range(fill))
    <3>1. P \cap Range(fill) = {} /\ Q = P \cup Range(fill)
      BY <2>5 DEF X
    <3> HIDE DEF P, Q
    <3> QED
      BY <1>2, <2>5, <3>1, UnionOfTwo
  <2>8. Cardinality(P) \in Nat /\ Cardinality(P) <= BatchSize
    BY <1>0, <1>2
  <2>9. n = BatchSize - Cardinality(P)
    BY DEF n
  <2>10. Cardinality(Q) = IF BatchSize <= Cardinality(S) THEN BatchSize ELSE Cardinality(S)
    <3> HIDE DEF P, Q
    <3> QED
      BY <1>0, <2>2, <2>4, <2>6, <2>7, <2>8, <2>9
  <2> QED
    BY <2>5, <2>10 DEF X
<1> HIDE DEF fill
<1>5. Q \in SUBSET S /\ IsFiniteSet(Q)
  <2>1. Q \in SUBSET S
    BY <1>2, <1>4
  <2> HIDE DEF Q
  <2> QED
    BY <1>0, <2>1, FS_Subset
<1>6. \A c \in Q : typeOf(c) \in c.types /\ typeOf(c) \in SelectionType
  <2> TAKE c \in Q
  <2>1. CASE c \in P
    BY <1>2, <2>1 DEF ShownType
  <2>2. CASE c \notin P
    <3>1. c \in S
      BY <1>5
    <3>2. c.types \in SUBSET SelectionType /\ c.types # {}
      BY <1>0, <3>1
    <3>3. LowestType(c.types) \in c.types
      BY <3>2, LowestIsIn
    <3>4. typeOf(c) = LowestType(c.types)
      BY <2>2 DEF ShownType
    <3> HIDE DEF typeOf
    <3> QED
      BY <3>2, <3>3, <3>4
  <2> QED
    BY <2>1, <2>2
<1> HIDE DEF typeOf, Q, P, slots
<1>7. \A c \in Q : As(c, typeOf(c)) \in ItemsOf(S) /\ As(c, typeOf(c)).id = c.id /\ As(c, typeOf(c)).as = typeOf(c)
                   /\ As(c, typeOf(c)).score = c.score
  BY <1>5, <1>6, ItemsOfAre
<1>8. IsFiniteSet(chosen) /\ Cardinality(chosen) = Cardinality(Q)
  <2> DEFINE e == [c \in Q |-> As(c, typeOf(c))]
  <2>1. chosen = {e[c] : c \in Q} /\ \A c \in Q : e[c] = As(c, typeOf(c))
    OBVIOUS
  <2>2. \A c, d \in Q : e[c] = e[d] => c = d
    <3> HIDE DEF e
    <3> QED
      BY <1>0, <1>5, <1>7, <2>1 DEF Named
  <2> HIDE DEF e, chosen
  <2>3. Cardinality({e[c] : c \in Q}) = Cardinality(Q)
    BY <1>5, <2>2, ImageOf
  <2>4. IsFiniteSet({e[c] : c \in Q})
    BY <1>5, ImageOf
  <2> QED
    BY <2>1, <2>3, <2>4
<1>9. /\ chosen \in SUBSET ItemsOf(S) /\ \A x \in chosen : x.as \in SelectionType
      /\ \A x \in chosen : x.id \in Nat /\ x.score \in Nat
      /\ \A x, y \in chosen : x.id = y.id => x = y
  <2>1. \A c, d \in Q : c.id = d.id => c = d
    BY <1>0, <1>5 DEF Named
  <2>2. \A c \in Q : c.id \in Nat /\ c.score \in Nat
    BY <1>0, <1>5 DEF Named
  <2> QED
    BY <1>6, <1>7, <2>1, <2>2
<1>10. Named(chosen)
  BY <1>8, <1>9 DEF Named
<1> DEFINE n == Len(sel)
<1>11. /\ sel \in Seq(chosen) /\ n = Cardinality(chosen) /\ DOMAIN sel = 1 .. n /\ n \in Nat
       /\ \A j, k \in 1 .. n : sel[j] = sel[k] => j = k
       /\ \A x \in chosen : \E k \in 1 .. n : sel[k] = x
  <2> HIDE DEF chosen
  <2>1. LET f == First(chosen, Cardinality(chosen), ShownBefore) IN
           /\ f \in Seq(chosen) /\ Len(f) = Cardinality(chosen) /\ DOMAIN f = 1 .. Len(f) /\ Len(f) \in Nat
           /\ \A j, k \in 1 .. Len(f) : f[j] = f[k] => j = k
           /\ \A x \in chosen : \E k \in 1 .. Len(f) : f[k] = x
    BY <1>9, <1>10, ShownAre
  <2> QED
    BY <1>3, <2>1
<1>12. sel \in Picks(S)
  <2> HIDE DEF chosen
  <2>1. Single(sel)
    <3> SUFFICES ASSUME NEW j \in 1 .. n, NEW k \in 1 .. n, sel[j].id = sel[k].id PROVE j = k
      BY DEF Single
    <3>1. sel[j] \in chosen /\ sel[k] \in chosen
      BY <1>11
    <3>2. sel[j] = sel[k]
      BY <1>9, <3>1
    <3> QED
      BY <1>11, <3>2
  <2>2. sel \in Seq(ItemsOf(S))
    BY <1>9, <1>11
  <2> QED
    BY <2>1, <2>2 DEF Picks
<1>13. n = IF BatchSize <= Cardinality(S) THEN BatchSize ELSE Cardinality(S)
  <2> HIDE DEF chosen
  <2> QED
    BY <1>4, <1>8, <1>11
<1> DEFINE g == [t \in SelectionType |-> Cardinality({c \in P : slots[M[c]] = t})]
           h == [t \in SelectionType |-> Min({CountOf(sel, t), Quota[t]})]
<1>14. SumOverTypes(g) = Cardinality(P)
  <2> DEFINE e == [c \in P |-> slots[M[c]]]
             d == [t \in SelectionType |-> Cardinality({c \in P : e[c] = t})]
  <2>1. \A c \in P : e[c] = slots[M[c]] /\ e[c] \in SelectionType
    BY <1>2
  <2>2. SumOverTypes(d) = Cardinality(P)
    <3> HIDE DEF e
    <3> QED
      BY <1>2, <2>1, SumOfTypes
  <2>3. \A t \in SelectionType : g[t] = d[t]
    <3> TAKE t \in SelectionType
    <3>1. {c \in P : slots[M[c]] = t} = {c \in P : e[c] = t}
      BY <2>1
    <3> HIDE DEF e
    <3> QED
      BY <3>1
  <2> HIDE DEF g, d
  <2> QED
    BY <2>2, <2>3, SameOverTypes
<1>15. \A t \in SelectionType : g[t] \in Nat /\ h[t] \in Nat /\ g[t] <= h[t]
  <2> TAKE t \in SelectionType
  <2> DEFINE X == {c \in P : slots[M[c]] = t}
             K == {k \in 1 .. n : sel[k].as = t}
             Y == {sel[k] : k \in K}
             e == [c \in X |-> As(c, t)]
             Z == {e[c] : c \in X}
  <2>1. X \in SUBSET P /\ X \in SUBSET Q /\ \A c \in X : typeOf(c) = t
    BY DEF Q, typeOf, ShownType, P, slots
  <2>2. Z \in SUBSET Y
    <3> SUFFICES ASSUME NEW c \in X PROVE e[c] \in Y
      OBVIOUS
    <3>1. e[c] = As(c, typeOf(c)) /\ e[c] \in chosen
      BY <2>1
    <3>2. e[c].as = t
      BY <1>7, <2>1, <3>1
    <3>3. PICK k \in 1 .. n : sel[k] = e[c]
      BY <1>11, <3>1
    <3> HIDE DEF e
    <3> QED
      BY <3>2, <3>3
  <2>3. \A c, d \in X : e[c] = e[d] => c = d
    <3> SUFFICES ASSUME NEW c \in X, NEW d \in X, e[c] = e[d] PROVE c = d
      OBVIOUS
    <3>1. e[c].id = c.id /\ e[d].id = d.id
      BY <1>7, <2>1
    <3>2. c \in S /\ d \in S
      BY <1>5, <2>1
    <3> QED
      BY <1>0, <3>1, <3>2 DEF Named
  <2>4. \A j, k \in K : sel[j] = sel[k] => j = k
    BY <1>11
  <2>5. K \in SUBSET (1 .. n)
    OBVIOUS
  <2>6. CountOf(sel, t) = Cardinality(K)
    BY <1>11 DEF CountOf
  <2>7. g[t] = Cardinality(X) /\ h[t] = Min({CountOf(sel, t), Quota[t]})
    OBVIOUS
  <2>8. Cardinality(X) <= Quota[t]
    BY <1>2
  <2> HIDE DEF X, K, Y, Z, e, g, h, chosen, n
  <2>9. IsFiniteSet(X) /\ IsFiniteSet(K)
    <3>1. IsFiniteSet(1 .. n)
      BY <1>11, UpTo
    <3> QED
      BY <1>2, <2>1, <2>5, <3>1, FS_Subset
  <2>10. Cardinality(Z) = Cardinality(X)
    <3>0. IsFiniteSet(X)
      BY <2>9
    <3>1. Cardinality({e[c] : c \in X}) = Cardinality(X)
      BY <2>3, <3>0, ImageOf
    <3> QED
      BY <3>1 DEF Z
  <2>11. Cardinality(Y) = Cardinality(K) /\ IsFiniteSet(Y)
    <3>0. IsFiniteSet(K)
      BY <2>9
    <3>1. Cardinality({sel[k] : k \in K}) = Cardinality(K)
      BY <2>4, <3>0, ImageOf
    <3>2. IsFiniteSet({sel[k] : k \in K})
      BY <3>0, ImageOf
    <3> QED
      BY <3>1, <3>2 DEF Y
  <2>12. Cardinality(X) <= Cardinality(K)
    BY <2>2, <2>10, <2>11, FS_Subset
  <2>13. Cardinality(X) \in Nat /\ Cardinality(K) \in Nat /\ Quota[t] \in Nat
    BY <2>9, FS_CardinalityType, QuotasAre
  <2>14. h[t] = IF Cardinality(K) <= Quota[t] THEN Cardinality(K) ELSE Quota[t]
    <3>1. Min({Cardinality(K), Quota[t]}) = IF Cardinality(K) <= Quota[t] THEN Cardinality(K) ELSE Quota[t]
      BY <2>13, LesserOf
    <3> QED
      BY <2>6, <2>7, <3>1
  <2> QED
    BY <2>7, <2>8, <2>12, <2>13, <2>14
<1>16. QuotaScore(sel) = SumOverTypes(h)
  BY DEF QuotaScore
<1>17. Cardinality(P) <= QuotaScore(sel)
  <2> HIDE DEF g, h
  <2> QED
    BY <1>14, <1>15, <1>16, SumsOverTypes
<1> QED
  BY <1>12, <1>13, <1>17 DEF sel, P, M, slots

\* The selection fills the most of the places there are.
LEMMA SelectionFillsMost ==
    ASSUME NEW S, Candidates(S)
    PROVE  FillsMost(S)
<1> DEFINE M == Assignment(S, Slots(S))
<1>1. M \in AssignedTo(S, Slots(S), BatchSize)
  BY AssignmentIs
<1>2. Cardinality(Placed(S, M)) <= QuotaScore(SelectByTarget(S)) /\ Cardinality(Placed(S, M)) \in Nat
  <2>1. Cardinality(Placed(S, M)) \in 0 .. BatchSize /\ BatchSize \in Nat
    BY <1>1, PlacedAre, QuotasAre
  <2> QED
    BY <2>1, SelectionIs
<1>3. QuotaScore(SelectByTarget(S)) \in Nat
  <2>1. SelectByTarget(S) \in Seq(ItemsOf(S))
    BY SelectionIs DEF Picks
  <2> QED
    BY <2>1, QuotaScoreIs
<1> HIDE DEF M
<1>4. ASSUME NEW f \in [S -> SelectionType \cup {Null}],
             \A c \in S : f[c] \in c.types \cup {Null},
             \A u \in SelectionType : Cardinality({c \in S : f[c] = u}) <= Quota[u]
      PROVE  Cardinality({c \in S : f[c] # Null}) <= QuotaScore(SelectByTarget(S))
  <2>1. WithinQuotas(S, f)
    BY <1>4 DEF WithinQuotas
  <2>2. Cardinality({c \in S : f[c] # Null}) <= Cardinality(Placed(S, M))
    BY <1>1, <2>1, NoneFillsMore
  <2>3. Cardinality({c \in S : f[c] # Null}) \in Nat
    <3>1. {c \in S : f[c] # Null} \in SUBSET S /\ IsFiniteSet(S)
      BY DEF Candidates, Named
    <3> QED
      BY <3>1, FS_Subset, FS_CardinalityType
  <2> QED
    BY <1>2, <1>3, <2>2, <2>3
<1> QED
  BY <1>4 DEF FillsMost

-----------------------------------------------------------------------------
(* Version 1: alternatives in the place of what was selected.              *)

\* Another candidate in the place of one that was chosen.
LEMMA PutInPlace ==
    ASSUME NEW S, Candidates(S), NEW sel \in Picks(S), NEW p \in 1 .. Len(sel),
           NEW c \in S, c.id \notin Ids(sel), NEW t \in c.types
    PROVE  /\ [sel EXCEPT ![p] = As(c, t)] \in Picks(S)
           /\ Len([sel EXCEPT ![p] = As(c, t)]) = Len(sel)
<1> DEFINE new == [sel EXCEPT ![p] = As(c, t)]
<1>1. sel \in Seq(ItemsOf(S)) /\ Single(sel)
  BY DEF Picks
<1>2. As(c, t) \in ItemsOf(S) /\ As(c, t).id = c.id
  BY ItemsOfAre
<1>3. new \in Seq(ItemsOf(S)) /\ Len(new) = Len(sel)
  BY <1>1, <1>2
<1>4. \A k \in 1 .. Len(sel) : new[k].id = IF k = p THEN c.id ELSE sel[k].id
  BY <1>1, <1>2
<1>5. \A k \in 1 .. Len(sel) : sel[k].id # c.id
  BY <1>1, IdsAre
<1> HIDE DEF new
<1>6. Single(new)
  BY <1>1, <1>3, <1>4, <1>5 DEF Single
<1> QED
  BY <1>3, <1>6 DEF Picks, new

\* The places to try are places of the selection.
LEMMA ReplacementsAre ==
    ASSUME NEW E, NEW selected \in Seq(E), NEW c, NEW state
    PROVE  LET places == ReplacementOrder(c, selected, state) IN
           /\ Len(places) \in Nat
           /\ \A j \in 1 .. Len(places) : places[j] \in 1 .. Len(selected)
<1> DEFINE D == DOMAIN selected
           crowded(x, field, counted) ==
             IF x[field] = Null THEN 0
             ELSE (IF CountWith(selected, field, x[field]) >= 2 THEN 4 ELSE 0)
                    + (IF x[field] = state[field] /\ state[counted] >= 2 THEN 2 ELSE 0)
           priority(k) == crowded(selected[k], "topic", "topicRun")
                            + crowded(selected[k], "entity", "entityRun")
                            + (IF selected[k].as \in c.types THEN 1 ELSE 0)
           before(j, k) == priority(j) > priority(k) \/ (priority(j) = priority(k) /\ j < k)
           R == {q \in D \X D : before(q[1], q[2])}
           m == Min({Replacements, Cardinality(D)})
           f == ReplacementOrder(c, selected, state)
           choice(k) == CHOOSE x \in D : Cardinality({y \in D : before(y, x)}) = k - 1
<1>1. D = 1 .. Len(selected) /\ Len(selected) \in Nat
  OBVIOUS
<1>2. IsFiniteSet(D) /\ Cardinality(D) = Len(selected)
  BY <1>1, UpTo
<1>3. \A k : priority(k) \in Nat
  <2>1. \A x, a, b : crowded(x, a, b) \in Nat
    OBVIOUS
  <2> HIDE DEF crowded
  <2> QED
    BY <2>1
<1>4. f = [k \in 1 .. m |-> choice(k)]
  BY DEF ReplacementOrder, First
<1> HIDE DEF crowded, priority, D
<1>5. Orders(R, D)
  <2>1. \A j, k \in D : <<j, k>> \in R <=> before(j, k)
    OBVIOUS
  <2>2. \A j \in D : j \in Nat
    BY <1>1
  <2> HIDE DEF R
  <2> QED
    BY <1>3, <2>1, <2>2 DEF Orders
<1>6. \A x \in D : Below(R, D, x) = {y \in D : before(y, x)}
  BY DEF Below
<1>7. Replacements \in Nat /\ m \in Nat
  <2>1. Replacements \in Nat
    BY RecommendationAssumption
  <2> QED
    BY <1>1, <1>2, <2>1, LesserOf
<1> HIDE DEF R, before
<1>8. \A k \in 1 .. m : choice(k) \in D
  <2> TAKE k \in 1 .. m
  <2>1. \E x \in D : Cardinality(Below(R, D, x)) = k - 1
    BY <1>2, <1>5, <1>7, PlaceIsTaken
  <2>2. \E x \in D : Cardinality({y \in D : before(y, x)}) = k - 1
    BY <1>6, <2>1
  <2> QED
    BY <2>2
<1> HIDE DEF choice, m, f
<1>9. Len(f) = m /\ \A k \in 1 .. m : f[k] \in D
  BY <1>4, <1>7, <1>8
<1> QED
  BY <1>1, <1>7, <1>9 DEF f

\* The states of the search: a choice of so many, and an order that is allowed
\* and no longer.
Tried(S, state, n) ==
    [selection : {o \in Picks(S) : Len(o) = n}, best : {o \in Allowed(S, state) : Len(o) <= n},
     improved : BOOLEAN, limited : BOOLEAN, done : BOOLEAN]

\* What is known while alternatives are tried.
LEMMA TriedAre ==
    ASSUME NEW S, NEW state, NEW n, NEW w \in Tried(S, state, n)
    PROVE  /\ w.selection \in Picks(S) /\ Len(w.selection) = n
           /\ w.best \in Allowed(S, state) /\ Len(w.best) <= n
           /\ w.improved \in BOOLEAN /\ w.limited \in BOOLEAN /\ w.done \in BOOLEAN
  BY DEF Tried

\* What a trial may change.
LEMMA TriedMore ==
    ASSUME NEW S, NEW state, NEW n, NEW w \in Tried(S, state, n)
    PROVE  /\ \A o \in Picks(S) : \A b \in Allowed(S, state) : Len(o) = n /\ Len(b) <= n =>
                [w EXCEPT !.selection = o, !.best = b, !.improved = TRUE] \in Tried(S, state, n)
           /\ [w EXCEPT !.improved = FALSE] \in Tried(S, state, n)
           /\ \A a \in BOOLEAN : [w EXCEPT !.limited = a] \in Tried(S, state, n)
           /\ \A a, d \in BOOLEAN : [w EXCEPT !.done = d, !.limited = a] \in Tried(S, state, n)
  BY DEF Tried

\* An alternative tried in some places.
LEMMA TryPlacesStays ==
    ASSUME NEW S, Candidates(S), NEW state, IsState(state), NEW L \in Nat,
           NEW w \in Tried(S, state, L), NEW c \in S
    PROVE  TryPlaces(w, c, state) \in Tried(S, state, L)
<1> DEFINE X == Tried(S, state, L)
           places == ReplacementOrder(c, w.selection, state)
           n == Len(places)
           as1(v, j) == IF v.selection[places[j]].as \in c.types
                        THEN v.selection[places[j]].as ELSE LowestType(c.types)
           proposal(v, j) == [v.selection EXCEPT ![places[j]] = As(c, as1(v, j))]
           order(v, j) == BestOrder(proposal(v, j), state)
           pass(v, j) == IF c.id \notin Ids(v.selection) /\ Better(order(v, j), v.best)
                         THEN [v EXCEPT !.selection = proposal(v, j), !.best = order(v, j), !.improved = TRUE]
                         ELSE v
           short == Len(w.selection) > Replacements /\ Len(w.best) < BatchSize
           start == [w EXCEPT !.limited = @ \/ short]
           G == [p \in X \X (1 .. n) |-> pass(p[1], p[2])]
<1>1. w.selection \in Seq(ItemsOf(S)) /\ Len(w.selection) = L
  <2>1. w.selection \in Picks(S) /\ Len(w.selection) = L
    BY TriedAre
  <2> QED
    BY <2>1 DEF Picks
<1>2. n \in Nat /\ \A j \in 1 .. n : places[j] \in 1 .. L
  <2> HIDE DEF n
  <2>1. Len(places) \in Nat /\ \A j \in 1 .. Len(places) : places[j] \in 1 .. Len(w.selection)
    BY <1>1, ReplacementsAre
  <2> QED
    BY <1>1, <2>1 DEF n
<1> HIDE DEF places
<1>3. start \in X
  <2>1. (w.limited \/ short) \in BOOLEAN
    OBVIOUS
  <2>2. [w EXCEPT !.limited = w.limited \/ short] \in X
    <3> HIDE DEF short
    <3> QED
      BY <2>1, TriedMore
  <2>3. start = [w EXCEPT !.limited = w.limited \/ short]
    OBVIOUS
  <2> QED
    BY <2>2, <2>3
<1>4. \A k \in 1 .. n : \A v \in X : pass(v, k) \in X
  <2> SUFFICES ASSUME NEW k \in 1 .. n, NEW v \in X, c.id \notin Ids(v.selection)
               PROVE  [v EXCEPT !.selection = proposal(v, k), !.best = order(v, k), !.improved = TRUE] \in X
    <3> HIDE DEF X, proposal, order
    <3> QED
      OBVIOUS
  <2>1. v.selection \in Picks(S) /\ Len(v.selection) = L
    BY TriedAre
  <2>2. as1(v, k) \in c.types
    <3>1. LowestType(c.types) \in c.types
      BY LowestIsIn DEF Candidates
    <3> QED
      BY <3>1
  <2> HIDE DEF as1
  <2>3. proposal(v, k) \in Picks(S) /\ Len(proposal(v, k)) = L
    BY <1>2, <2>1, <2>2, PutInPlace
  <2> HIDE DEF proposal
  <2>4. order(v, k) \in Allowed(S, state) /\ Len(order(v, k)) <= L
    BY <2>3, BestOrderIs
  <2> HIDE DEF order
  <2> QED
    BY <2>3, <2>4, TriedMore
<1>5. \A k \in 1 .. n : \A v \in X : G[<<v, k>>] = pass(v, k)
  <2> HIDE DEF X, pass, start, n
  <2> QED
    OBVIOUS
<1>6. PICK f : RunsIn(f, start, G, n, X)
  <2> HIDE DEF G, X, pass, start, n
  <2>1. \A k \in 1 .. n : \A v \in X : G[<<v, k>>] \in X
    BY <1>4, <1>5
  <2> QED
    BY <1>2, <1>3, <2>1, LoopRuns
<1>7. f = [k \in 0 .. n |-> IF k = 0 THEN start ELSE pass(f[k - 1], k)]
  <2> HIDE DEF G, X, pass, start, n
  <2>1. \A k \in 0 .. n : f[k] = IF k = 0 THEN start ELSE pass(f[k - 1], k)
    <3> TAKE k \in 0 .. n
    <3>1. CASE k = 0
      BY <1>6, <3>1 DEF RunsIn
    <3>2. CASE k # 0
      <4>1. k \in 1 .. n
        BY <3>2, <1>2
      <4> QED
        BY <1>5, <1>6, <3>2, <4>1 DEF RunsIn
    <3> QED
      BY <3>1, <3>2
  <2>2. f = [k \in 0 .. n |-> f[k]]
    BY <1>6 DEF RunsIn
  <2> QED
    BY <2>1, <2>2
<1> DEFINE after == CHOOSE g : g = [k \in 0 .. n |-> IF k = 0 THEN start ELSE pass(g[k - 1], k)]
<1>8. after = [k \in 0 .. n |-> IF k = 0 THEN start ELSE pass(after[k - 1], k)]
  <2> HIDE DEF X, pass, start, n
  <2> QED
    BY <1>7
<1>9. TryPlaces(w, c, state) = after[n]
  BY DEF TryPlaces, Loop, places
<1> HIDE DEF after, G, X, pass, start, n
<1>10. after[0] = start /\ \A k \in 1 .. n : after[k] = pass(after[k - 1], k)
  <2>1. 0 \in 0 .. n /\ \A k \in 1 .. n : k \in 0 .. n /\ k # 0
    BY <1>2
  <2> QED
    BY <1>8, <2>1
<1>11. after[n] \in X
  BY <1>2, <1>4, <1>3, <1>10, LoopEnds
<1> QED
  BY <1>9, <1>11 DEF X

\* A round over the alternatives.
LEMMA ImproveRoundStays ==
    ASSUME NEW S, Candidates(S), NEW state, IsState(state), NEW L \in Nat,
           NEW w \in Tried(S, state, L), NEW round
    PROVE  ImproveRound(w, S, state, round) \in Tried(S, state, L)
<1> DEFINE X == Tried(S, state, L)
           T == {c \in S : /\ c.id \notin Ids(w.selection)
                           /\ Len(w.best) < Len(w.selection) => CanImprove(c, w.selection)}
           others == Sorted(T)
           n == Len(others)
           pass(v, j) == TryPlaces(v, others[j], state)
           start == [w EXCEPT !.improved = FALSE]
           G == [p \in X \X (1 .. n) |-> pass(p[1], p[2])]
<1>1. n \in Nat /\ \A j \in 1 .. n : others[j] \in S
  <2>0. T \in SUBSET S
    OBVIOUS
  <2> HIDE DEF T
  <2>1. Named(T) /\ Cardinality(T) \in Nat
    BY <2>0, NamedPart, FS_CardinalityType DEF Candidates, Named
  <2>2. others \in Seq(T)
    BY <2>1, FirstByPrecedence DEF Sorted
  <2> HIDE DEF others
  <2> QED
    BY <2>0, <2>2
<1> HIDE DEF others
<1>2. start \in X
  BY TriedMore
<1>3. \A k \in 1 .. n : \A v \in X : pass(v, k) \in X
  <2> HIDE DEF n
  <2> QED
    BY <1>1, TryPlacesStays
<1>4. \A k \in 1 .. n : \A v \in X : G[<<v, k>>] = pass(v, k)
  <2> HIDE DEF X, pass, start, n
  <2> QED
    OBVIOUS
<1>5. PICK f : RunsIn(f, start, G, n, X)
  <2> HIDE DEF G, X, pass, start, n
  <2>1. \A k \in 1 .. n : \A v \in X : G[<<v, k>>] \in X
    BY <1>3, <1>4
  <2> QED
    BY <1>1, <1>2, <2>1, LoopRuns
<1>6. f = [k \in 0 .. n |-> IF k = 0 THEN start ELSE pass(f[k - 1], k)]
  <2> HIDE DEF G, X, pass, start, n
  <2>1. \A k \in 0 .. n : f[k] = IF k = 0 THEN start ELSE pass(f[k - 1], k)
    <3> TAKE k \in 0 .. n
    <3>1. CASE k = 0
      BY <1>5, <3>1 DEF RunsIn
    <3>2. CASE k # 0
      <4>1. k \in 1 .. n
        BY <3>2, <1>1
      <4> QED
        BY <1>4, <1>5, <3>2, <4>1 DEF RunsIn
    <3> QED
      BY <3>1, <3>2
  <2>2. f = [k \in 0 .. n |-> f[k]]
    BY <1>5 DEF RunsIn
  <2> QED
    BY <2>1, <2>2
<1> DEFINE after == CHOOSE g : g = [k \in 0 .. n |-> IF k = 0 THEN start ELSE pass(g[k - 1], k)]
<1>7. after = [k \in 0 .. n |-> IF k = 0 THEN start ELSE pass(after[k - 1], k)]
  <2> HIDE DEF X, pass, start, n
  <2> QED
    BY <1>6
<1>8. Loop(pass, start, n) = after[n]
  BY DEF Loop
<1> HIDE DEF after, G, X, pass, start, n
<1>9. after[0] = start /\ \A k \in 1 .. n : after[k] = pass(after[k - 1], k)
  <2>1. 0 \in 0 .. n /\ \A k \in 1 .. n : k \in 0 .. n /\ k # 0
    BY <1>1
  <2> QED
    BY <1>7, <2>1
<1>10. after[n] \in X
  BY <1>1, <1>3, <1>2, <1>9, LoopEnds
<1>11. after[n] = Loop(pass, start, n)
  BY <1>8
<1> HIDE DEF after
<1> DEFINE r == after[n]
           done == ~r.improved \/ Len(r.best) >= BatchSize
           limited == r.limited \/ (~done /\ round = Rounds)
<1>12. ImproveRound(w, S, state, round) =
         IF w.done THEN w ELSE [r EXCEPT !.done = done, !.limited = limited]
  BY <1>11 DEF ImproveRound, pass, start, n, others
<1>13. done \in BOOLEAN /\ limited \in BOOLEAN
  OBVIOUS
<1> HIDE DEF r, done, limited
<1>14. r \in X
  BY <1>10 DEF r
<1>15. [r EXCEPT !.done = done, !.limited = limited] \in X
  BY <1>13, <1>14, TriedMore DEF X
<1> QED
  BY <1>12, <1>15 DEF X

\* All rounds.
LEMMA AlternativesStay ==
    ASSUME NEW S, Candidates(S), NEW state, IsState(state), NEW sel \in Picks(S)
    PROVE  OrderWithAlternatives(sel, S, state) \in Tried(S, state, Len(sel))
<1> DEFINE L == Len(sel)
           X == Tried(S, state, L)
           n == Rounds
           pass(v, k) == ImproveRound(v, S, state, k)
           start == [selection |-> sel, best |-> BestOrder(sel, state), improved |-> FALSE,
                     limited |-> FALSE, done |-> FALSE]
           G == [p \in X \X (1 .. n) |-> pass(p[1], p[2])]
<1>1. n \in Nat
  BY RecommendationAssumption
<1>2. start \in X
  <2>1. BestOrder(sel, state) \in Allowed(S, state) /\ Len(BestOrder(sel, state)) <= L
    BY BestOrderIs
  <2> DEFINE best == BestOrder(sel, state)
  <2> HIDE DEF best
  <2>2. best \in Allowed(S, state) /\ Len(best) <= L
    BY <2>1 DEF best
  <2>3. [selection |-> sel, best |-> best, improved |-> FALSE,
         limited |-> FALSE, done |-> FALSE] \in X
    BY <2>2 DEF Tried
  <2> QED
    BY <2>3 DEF best
<1>0. L \in Nat
  BY DEF Picks
<1> HIDE DEF L
<1>3. \A k \in 1 .. n : \A v \in X : pass(v, k) \in X
  BY <1>0, ImproveRoundStays
<1>4. \A k \in 1 .. n : \A v \in X : G[<<v, k>>] = pass(v, k)
  <2> HIDE DEF X, pass, start, n
  <2> QED
    OBVIOUS
<1>5. PICK f : RunsIn(f, start, G, n, X)
  <2> HIDE DEF G, X, pass, start, n
  <2>1. \A k \in 1 .. n : \A v \in X : G[<<v, k>>] \in X
    BY <1>3, <1>4
  <2> QED
    BY <1>1, <1>2, <2>1, LoopRuns
<1>6. f = [k \in 0 .. n |-> IF k = 0 THEN start ELSE pass(f[k - 1], k)]
  <2> HIDE DEF G, X, pass, start, n
  <2>1. \A k \in 0 .. n : f[k] = IF k = 0 THEN start ELSE pass(f[k - 1], k)
    <3> TAKE k \in 0 .. n
    <3>1. CASE k = 0
      BY <1>5, <3>1 DEF RunsIn
    <3>2. CASE k # 0
      <4>1. k \in 1 .. n
        BY <3>2, <1>1
      <4> QED
        BY <1>4, <1>5, <3>2, <4>1 DEF RunsIn
    <3> QED
      BY <3>1, <3>2
  <2>2. f = [k \in 0 .. n |-> f[k]]
    BY <1>5 DEF RunsIn
  <2> QED
    BY <2>1, <2>2
<1> DEFINE after == CHOOSE g : g = [k \in 0 .. n |-> IF k = 0 THEN start ELSE pass(g[k - 1], k)]
<1>7. after = [k \in 0 .. n |-> IF k = 0 THEN start ELSE pass(after[k - 1], k)]
  <2> HIDE DEF X, pass, start, n
  <2> QED
    BY <1>6
<1>8. Loop(pass, start, n) = after[n]
  BY DEF Loop
<1> HIDE DEF after, G, X, pass, start, n
<1>9. after[0] = start /\ \A k \in 1 .. n : after[k] = pass(after[k - 1], k)
  <2>1. 0 \in 0 .. n /\ \A k \in 1 .. n : k \in 0 .. n /\ k # 0
    BY <1>1
  <2> QED
    BY <1>7, <2>1
<1>10. after[n] \in X
  BY <1>1, <1>3, <1>2, <1>9, LoopEnds
<1>11. OrderWithAlternatives(sel, S, state) = start \/ OrderWithAlternatives(sel, S, state) = after[n]
  BY <1>8 DEF OrderWithAlternatives, pass, start, n
<1>12. start \in X /\ after[n] \in X
  BY <1>2, <1>10
<1> QED
  BY <1>11, <1>12 DEF X, L

\* What version 1 answers: items of candidates, each once, as the runs allow; the
\* feed goes on when they are a batch, and is exhausted only when they are all.
LEMMA VersionOneIs ==
    ASSUME NEW p, p \in Seq(Range(p)), NEW state, IsState(state)
    PROVE  LET S == Scored(p)
               batch == RecommendFeedV1(p, state)
           IN  /\ batch.items \in Allowed(S, state) /\ Len(batch.items) <= BatchSize
               /\ batch.continuation = "CONTINUE" <=> Len(batch.items) = BatchSize
               /\ batch.continuation = "EXHAUSTED" =>
                     Len(p) <= CandidateBudget /\ Ids(batch.items) = {c.id : c \in S}
<1> DEFINE S == Scored(p)
           sel == SelectByTarget(S)
           r == OrderWithAlternatives(sel, S, state)
           b == r.best
           limited == Len(p) > CandidateBudget \/ r.limited
<1>1. Candidates(S) /\ (p = <<>> => S = {}) /\ Len(p) \in Nat
  BY ScoredAre
<1> HIDE DEF S
<1>2. sel \in Picks(S) /\ Len(sel) = IF BatchSize <= Cardinality(S) THEN BatchSize ELSE Cardinality(S)
  BY <1>1, SelectionIs
<1> HIDE DEF sel
<1>3. r \in Tried(S, state, Len(sel))
  BY <1>1, <1>2, AlternativesStay
<1>4. b \in Allowed(S, state) /\ Len(b) <= Len(sel)
  BY <1>3, TriedAre
<1>5. RecommendFeedV1(p, state) = [items |-> b, continuation |-> ContinuationV1(p, sel, r)]
  BY DEF RecommendFeedV1, BatchV1, S, sel
<1> HIDE DEF r
<1>6. b \in Picks(S) /\ Cardinality(S) \in Nat /\ BatchSize \in Nat /\ BatchSize # 0
  BY <1>1, <1>4, QuotasAre, PicksAre DEF Allowed
<1>7. Len(b) \in Nat /\ (Len(b) = Cardinality(S) => Ids(b) = {c.id : c \in S})
  BY <1>1, <1>6, PicksAre
<1>8. CandidateBudget \in Nat
  BY RecommendationAssumption
<1>9. Len(sel) \in Nat /\ Len(sel) <= BatchSize
  BY <1>2, <1>6
<1> DEFINE x == ContinuationV1(p, sel, r)
<1>10. x = IF p = <<>> THEN "EXHAUSTED"
           ELSE IF Len(b) < Len(sel)
                THEN IF limited THEN "SEARCH_LIMITED" ELSE "CONSTRAINT_LIMITED"
           ELSE IF Len(sel) = BatchSize THEN "CONTINUE"
           ELSE IF limited THEN "SEARCH_LIMITED"
           ELSE IF Len(p) < BatchSize THEN "EXHAUSTED" ELSE "CONSTRAINT_LIMITED"
  BY DEF ContinuationV1
<1>11. ~limited => Len(p) <= CandidateBudget
  BY <1>1, <1>8
<1>12. p = <<>> => Len(p) <= CandidateBudget /\ Cardinality(S) = 0
  BY <1>1, <1>8, FS_EmptySet
<1> HIDE DEF x, b, limited
<1>13. x = "CONTINUE" <=> Len(b) = BatchSize
  <2>1. CASE p = <<>>
    BY <2>1, <1>2, <1>4, <1>6, <1>7, <1>9, <1>10, <1>12
  <2>2. CASE p # <<>>
    BY <2>2, <1>4, <1>6, <1>7, <1>9, <1>10
  <2> QED
    BY <2>1, <2>2
<1>14. ASSUME x = "EXHAUSTED"
       PROVE  Len(p) <= CandidateBudget /\ Ids(b) = {c.id : c \in S}
  <2>1. CASE p = <<>>
    <3>1. Len(b) = Cardinality(S)
      BY <2>1, <1>2, <1>4, <1>6, <1>7, <1>9, <1>12
    <3> QED
      BY <2>1, <3>1, <1>7, <1>12
  <2>2. CASE p # <<>>
    <3>1. ~(Len(b) < Len(sel)) /\ Len(sel) # BatchSize /\ ~limited
      BY <2>2, <1>10, <1>14
    <3>2. Len(b) = Cardinality(S)
      BY <3>1, <1>2, <1>4, <1>6, <1>7, <1>9
    <3> QED
      BY <3>1, <3>2, <1>7, <1>11
  <2> QED
    BY <2>1, <2>2
<1>15. Len(b) <= BatchSize
  BY <1>4, <1>7, <1>9, <1>6
<1>16. RecommendFeedV1(p, state).items = b /\ RecommendFeedV1(p, state).continuation = x
  BY <1>5 DEF x
<1> QED
  BY <1>4, <1>13, <1>14, <1>15, <1>16 DEF S, b

-----------------------------------------------------------------------------
(* Orders that grow by what may be appended.                               *)

\* A candidate is shown as a type of it.
LEMMA SeededIs ==
    ASSUME NEW S, Candidates(S), NEW seed \in Picks(S), NEW c \in S, NEW sofar
    PROVE  /\ SeededType(c, seed, sofar) \in c.types
           /\ GreedyType(c, sofar) \in c.types
<1>1. GreedyType(c, sofar) \in c.types
  <2> DEFINE free == {t \in c.types : CountOf(sofar, t) < Quota[t]}
             some == IF free # {} THEN free ELSE c.types
  <2>1. c.types \in SUBSET SelectionType /\ c.types # {}
    BY DEF Candidates
  <2>2. free \in SUBSET c.types
    OBVIOUS
  <2> HIDE DEF free
  <2>3. some \in SUBSET SelectionType /\ some # {} /\ some \in SUBSET c.types
    BY <2>1, <2>2
  <2> HIDE DEF some
  <2>4. LowestType(some) \in c.types
    BY <2>3, LowestIsIn
  <2> QED
    BY <2>4 DEF GreedyType, some, free
<1>2. CASE c.id \in Ids(seed)
  <2> DEFINE y == CHOOSE x \in Range(seed) : x.id = c.id
  <2>1. Range(seed) \in SUBSET ItemsOf(S)
    BY ChosenAreNamed
  <2>2. \E x \in Range(seed) : x.id = c.id
    BY <1>2 DEF Ids, Range
  <2>3. y \in ItemsOf(S) /\ y.id = c.id
    BY <2>1, <2>2
  <2> HIDE DEF y
  <2>4. PICK d \in S : y = As(d, y.as) /\ y.as \in d.types /\ y.id = d.id
    BY <2>3, ItemsOfAre
  <2>5. d = c
    BY <2>3, <2>4 DEF Candidates, Named
  <2>6. y.as \in c.types
    BY <2>4, <2>5
  <2> QED
    BY <1>1, <1>2, <2>6 DEF SeededType, y
<1>3. CASE c.id \notin Ids(seed)
  BY <1>1, <1>3 DEF SeededType
<1> QED
  BY <1>1, <1>2, <1>3

\* An allowed order with one more candidate that may be appended.
LEMMA OneMoreAllowed ==
    ASSUME NEW S, Candidates(S), NEW state, IsState(state), NEW o \in Allowed(S, state),
           NEW c \in S, c.id \notin Ids(o), CanAppend(c, RunsAfter(o, state)), NEW t \in c.types
    PROVE  /\ Append(o, As(c, t)) \in Allowed(S, state)
           /\ Len(Append(o, As(c, t))) = Len(o) + 1 /\ Len(o) \in Nat
           /\ RunsAfter(Append(o, As(c, t)), state) = AdvanceRun(c, RunsAfter(o, state))
           /\ Ids(Append(o, As(c, t))) = Ids(o) \cup {c.id}
<1> DEFINE x == As(c, t)
<1>1. x \in ItemsOf(S) /\ x.id = c.id /\ x.topic = c.topic /\ x.entity = c.entity
  BY ItemsOfAre
<1> HIDE DEF x
<1>2. o \in Seq(ItemsOf(S)) /\ Single(o) /\ IsAllowed(o, state) /\ Len(o) \in Nat
  BY DEF Allowed, Picks
<1>3. \A k \in 1 .. Len(o) : o[k].id # x.id
  BY <1>1, <1>2, IdsAre
<1>4. Append(o, x) \in Seq(ItemsOf(S)) /\ Single(Append(o, x)) /\ Len(Append(o, x)) = Len(o) + 1
  BY <1>1, <1>2, <1>3, SingleMore
<1>5. CanAppend(x, RunsAfter(o, state)) /\ AdvanceRun(x, RunsAfter(o, state)) = AdvanceRun(c, RunsAfter(o, state))
  BY <1>1, SameAppend
<1>6. IsAllowed(Append(o, x), state) /\ RunsAfter(Append(o, x), state) = AdvanceRun(x, RunsAfter(o, state))
  BY <1>1, <1>2, <1>5, AllowedMore
<1>7. Ids(Append(o, x)) = Ids(o) \cup {x.id}
  <2>1. \A k \in 1 .. Len(o) : Append(o, x)[k] = o[k] /\ k \in 1 .. (Len(o) + 1)
    BY <1>2
  <2>2. Append(o, x)[Len(o) + 1] = x /\ Len(o) + 1 \in 1 .. (Len(o) + 1)
    BY <1>2
  <2>3. \A k \in 1 .. (Len(o) + 1) : k \in 1 .. Len(o) \/ k = Len(o) + 1
    BY <1>2
  <2>4. /\ Ids(o) = {o[k].id : k \in 1 .. Len(o)}
        /\ Ids(Append(o, x)) = {Append(o, x)[k].id : k \in 1 .. (Len(o) + 1)}
    BY <1>2, <1>4, IdsAre
  <2> QED
    BY <2>1, <2>2, <2>3, <2>4
<1> QED
  BY <1>1, <1>2, <1>4, <1>5, <1>6, <1>7 DEF Allowed, Picks, x

\* The allowed orders of at most so many items.
AllowedUpTo(S, state, k) == {o \in Allowed(S, state) : Len(o) <= k}

\* The greedy order: an allowed one, of a batch at most.
LEMMA GreedyIs ==
    ASSUME NEW S, Candidates(S), NEW state, IsState(state), NEW seed \in Picks(S), NEW all \in SUBSET S
    PROVE  GreedyOrder(all, seed, state) \in AllowedUpTo(S, state, BatchSize)
<1> DEFINE n == BatchSize
           D == Allowed(S, state)
           free(o) == {x \in all : x.id \notin Ids(o) /\ CanAppend(x, RunsAfter(o, state))}
           typeOf(o, c) == SeededType(c, seed, o)
           next(o) == {As(c, typeOf(o, c)) : c \in free(o)}
           rank(o, x) == (IF x.id \in Ids(seed) THEN 0 ELSE 2)
                           + (IF CountOf(o, x.as) < Quota[x.as] THEN 0 ELSE 1)
           first(o) == CHOOSE x \in next(o) : \A y \in next(o) :
                           \/ x = y
                           \/ rank(o, x) < rank(o, y)
                           \/ rank(o, x) = rank(o, y) /\ Precedes(x, y)
           pass(o, k) == IF next(o) = {} THEN o ELSE Append(o, first(o))
           start == <<>>
           V == [k \in 0 .. n |-> AllowedUpTo(S, state, k)]
           G == [p \in D \X (1 .. n) |-> pass(p[1], p[2])]
<1>0. n \in Nat
  BY QuotasAre
<1>1. \A k \in 0 .. n : V[k] = AllowedUpTo(S, state, k)
  OBVIOUS
<1>2. start \in V[0]
  <2>1. <<>> \in Allowed(S, state)
    BY DEF Allowed, Picks, Single, IsAllowed
  <2> QED
    BY <1>0, <2>1 DEF AllowedUpTo
<1>3. \A k \in 1 .. n : \A v \in V[k - 1] : v \in D
  BY <1>0 DEF AllowedUpTo
<1>4. \A o \in D : next(o) # {} =>
         \E c \in free(o) : first(o) = As(c, typeOf(o, c))
  <2> SUFFICES ASSUME NEW o \in D, next(o) # {}
               PROVE  \E c \in free(o) : first(o) = As(c, typeOf(o, c))
    OBVIOUS
  <2>1. \A c \in free(o) : c \in S /\ typeOf(o, c) \in c.types
    BY SeededIs
  <2>2. next(o) \in SUBSET ItemsOf(S)
    <3> HIDE DEF free, typeOf
    <3> QED
      BY <2>1, ItemsOfAre
  <2>3. \A x, y \in next(o) : x.id = y.id => x = y
    <3> SUFFICES ASSUME NEW c \in free(o), NEW d \in free(o), As(c, typeOf(o, c)).id = As(d, typeOf(o, d)).id
                 PROVE  As(c, typeOf(o, c)) = As(d, typeOf(o, d))
      OBVIOUS
    <3>1. c.id = d.id
      BY ItemsOfAre
    <3>2. c = d
      BY <2>1, <3>1 DEF Candidates, Named
    <3> QED
      BY <3>2
  <2> DEFINE X == next(o)
             R == {q \in X \X X : \/ rank(o, q[1]) < rank(o, q[2])
                                  \/ rank(o, q[1]) = rank(o, q[2]) /\ Precedes(q[1], q[2])}
  <2>4. Named(X)
    <3> HIDE DEF X
    <3>1. IsFiniteSet(X) /\ \A x \in X : x.id \in Nat /\ x.score \in Nat
      BY <2>2, ItemsOfAre, FS_Subset DEF X
    <3> QED
      BY <2>3, <3>1 DEF Named, X
  <2>5. \A x : rank(o, x) \in Nat
    OBVIOUS
  <2> HIDE DEF rank, X, next
  <2>6. \A x, y \in X : <<x, y>> \in R <=>
            \/ rank(o, x) < rank(o, y)
            \/ rank(o, x) = rank(o, y) /\ Precedes(x, y)
    OBVIOUS
  <2>7. /\ \A x \in X : ~Precedes(x, x)
        /\ \A x, y, z \in X : Precedes(x, y) /\ Precedes(y, z) => Precedes(x, z)
        /\ \A x, y \in X : x # y => Precedes(x, y) \/ Precedes(y, x)
    BY <2>4, PrecedenceOrders DEF Orders
  <2> HIDE DEF R
  <2>8. Orders(R, X)
    <3>1. \A x \in X : <<x, x>> \notin R
      BY <2>5, <2>6, <2>7
    <3>2. \A x, y, z \in X : <<x, y>> \in R /\ <<y, z>> \in R => <<x, z>> \in R
      BY <2>5, <2>6, <2>7
    <3>3. \A x, y \in X : x # y => <<x, y>> \in R \/ <<y, x>> \in R
      <4> SUFFICES ASSUME NEW x \in X, NEW y \in X, x # y PROVE <<x, y>> \in R \/ <<y, x>> \in R
        OBVIOUS
      <4>1. rank(o, x) \in Nat /\ rank(o, y) \in Nat
        BY <2>5
      <4>2. CASE rank(o, x) = rank(o, y)
        BY <2>6, <2>7, <4>2
      <4>3. CASE rank(o, x) # rank(o, y)
        BY <2>6, <4>1, <4>3
      <4> QED
        BY <4>2, <4>3
    <3> QED
      BY <3>1, <3>2, <3>3 DEF Orders
  <2>9. PICK x \in X : \A y \in X : x = y \/ <<x, y>> \in R
    <3>1. IsFiniteSet(X) /\ X # {}
      BY <2>4 DEF Named, X
    <3> QED
      BY <2>8, <3>1, LeastByOrder
  <2>10. \A y \in X : x = y \/ rank(o, x) < rank(o, y) \/ (rank(o, x) = rank(o, y) /\ Precedes(x, y))
    <3> TAKE y \in X
    <3>1. CASE x = y
      BY <3>1
    <3>2. CASE <<x, y>> \in R
      <4>1. rank(o, x) < rank(o, y) \/ (rank(o, x) = rank(o, y) /\ Precedes(x, y))
        BY <2>6, <3>2
      <4> QED
        BY <4>1
    <3> QED
      BY <2>9, <3>1, <3>2
  <2>11. first(o) \in next(o)
    BY <2>10 DEF X
  <2> HIDE DEF first
  <2> QED
    BY <2>11 DEF next
<1>5. \A k \in 1 .. n : \A v \in V[k - 1] : pass(v, k) \in V[k]
  <2> TAKE k \in 1 .. n
  <2> TAKE o \in V[k - 1]
  <2>1. o \in Allowed(S, state) /\ Len(o) <= k - 1
    BY <1>0, <1>1 DEF AllowedUpTo
  <2>2. V[k] = AllowedUpTo(S, state, k)
    BY <1>0
  <2>3. Len(o) \in Nat
    BY <2>1 DEF Allowed, Picks
  <2> HIDE DEF V, next, first, typeOf
  <2>4. CASE next(o) = {}
    <3>1. Len(o) <= k
      BY <2>1, <2>3
    <3> QED
      BY <2>1, <2>2, <2>4, <3>1 DEF AllowedUpTo
  <2>5. CASE next(o) # {}
    <3>1. PICK c \in free(o) : first(o) = As(c, typeOf(o, c))
      BY <1>4, <2>1, <2>5
    <3>2. c \in S /\ typeOf(o, c) \in c.types /\ c.id \notin Ids(o) /\ CanAppend(c, RunsAfter(o, state))
      BY SeededIs DEF typeOf
    <3>3. Append(o, first(o)) \in Allowed(S, state) /\ Len(Append(o, first(o))) = Len(o) + 1
      <4> DEFINE t == typeOf(o, c)
      <4> HIDE DEF t
      <4>1. t \in c.types /\ first(o) = As(c, t)
        BY <3>1, <3>2 DEF t
      <4> QED
        BY <2>1, <3>2, <4>1, OneMoreAllowed
    <3>4. Len(Append(o, first(o))) <= k
      BY <2>1, <2>3, <3>3
    <3> QED
      BY <2>2, <2>5, <3>3, <3>4 DEF AllowedUpTo
  <2> QED
    BY <2>4, <2>5
<1>6. \A k \in 1 .. n : \A v \in D : G[<<v, k>>] = pass(v, k)
  <2> HIDE DEF V, pass, start, n, D
  <2> QED
    OBVIOUS
<1>7. PICK f : IsLoop(f, start, G, n) /\ \A k \in 0 .. n : f[k] \in V[k]
  <2> HIDE DEF G, V, pass, start, n, D
  <2>1. \A k \in 1 .. n : \A v \in V[k - 1] : G[<<v, k>>] \in V[k]
    BY <1>5, <1>3, <1>6
  <2> QED
    BY <1>0, <1>2, <2>1, LoopExists
<1>8. f = [k \in 0 .. n |-> IF k = 0 THEN start ELSE pass(f[k - 1], k)]
  <2> HIDE DEF G, V, pass, start, n, D
  <2>1. \A k \in 1 .. n : f[k - 1] \in V[k - 1]
    BY <1>0, <1>7
  <2>2. f = [k \in 0 .. n |-> f[k]] /\ \A k \in 0 .. n : f[k] = IF k = 0 THEN start ELSE G[<<f[k - 1], k>>]
    BY <1>7 DEF IsLoop
  <2>3. \A k \in 0 .. n : f[k] = IF k = 0 THEN start ELSE pass(f[k - 1], k)
    <3> TAKE k \in 0 .. n
    <3>1. CASE k = 0
      BY <2>2, <3>1
    <3>2. CASE k # 0
      <4>1. k \in 1 .. n
        BY <3>2, <1>0
      <4>2. f[k - 1] \in D
        BY <2>1, <4>1, <1>3
      <4>3. G[<<f[k - 1], k>>] = pass(f[k - 1], k)
        BY <1>6, <4>1, <4>2
      <4>4. f[k] = G[<<f[k - 1], k>>]
        BY <2>2, <3>2
      <4> QED
        BY <3>2, <4>3, <4>4
    <3> QED
      BY <3>1, <3>2
  <2> QED
    BY <2>2, <2>3
<1> DEFINE after == CHOOSE g : g = [k \in 0 .. n |-> IF k = 0 THEN start ELSE pass(g[k - 1], k)]
<1>9. after = [k \in 0 .. n |-> IF k = 0 THEN start ELSE pass(after[k - 1], k)]
  <2> HIDE DEF V, pass, start, n, D
  <2> QED
    BY <1>8
<1>10. GreedyOrder(all, seed, state) = after[n]
  BY DEF GreedyOrder, Loop
<1> HIDE DEF after, G, V, pass, start, n, D
<1>11. after[0] = start /\ \A k \in 1 .. n : after[k] = pass(after[k - 1], k)
  <2>1. 0 \in 0 .. n /\ \A k \in 1 .. n : k \in 0 .. n /\ k # 0
    BY <1>0
  <2> QED
    BY <1>9, <2>1
<1>12. after[n] \in V[n]
  <2>1. \A k \in 1 .. n : after[k - 1] \in V[k - 1] => after[k] \in V[k]
    BY <1>5, <1>11
  <2>2. after[0] \in V[0]
    BY <1>2, <1>11
  <2>3. \A k \in 0 .. n : after[k] \in V[k]
    BY <1>0, <2>1, <2>2, LoopStays
  <2> QED
    BY <1>0, <2>3
<1> QED
  BY <1>0, <1>10, <1>12, <1>1 DEF n

-----------------------------------------------------------------------------
(* The longest order there is.                                             *)

\* What may be left, with the state.
LeftIn(S, state) == (SUBSET S) \X RunStates(S, state)

\* What may come next, and how long an order is that goes on with it.
NextOf(at) == {s \in Signatures(at[1]) : CanAppend(FirstOf(at[1], s), at[2])}
Lengths(h, at) == {0} \cup {1 + h[After(at, s)] : s \in NextOf(at)}

\* A signature taken leaves one candidate less.
LEMMA TakenIs ==
    ASSUME NEW S, Named(S), NEW state, IsState(state), NEW at \in LeftIn(S, state)
    PROVE  /\ at[1] \in SUBSET S /\ IsFiniteSet(at[1]) /\ Cardinality(at[1]) \in Nat /\ IsState(at[2])
           /\ \A s \in Signatures(at[1]) :
                /\ FirstOf(at[1], s) \in at[1] /\ Signature(FirstOf(at[1], s)) = s
                /\ After(at, s) \in LeftIn(S, state)
                /\ After(at, s)[1] = at[1] \ {FirstOf(at[1], s)}
                /\ After(at, s)[2] = AdvanceRun(FirstOf(at[1], s), at[2])
                /\ Cardinality(at[1]) = Cardinality(After(at, s)[1]) + 1
                /\ Cardinality(After(at, s)[1]) \in Nat
<1>1. at[1] \in SUBSET S /\ at[2] \in RunStates(S, state)
  BY DEF LeftIn
<1>2. IsFiniteSet(at[1]) /\ Cardinality(at[1]) \in Nat
  BY <1>1, FS_Subset, FS_CardinalityType DEF Named
<1>3. IsState(at[2])
  BY <1>1 DEF IsState, RunStates
<1>4. ASSUME NEW s \in Signatures(at[1])
      PROVE  /\ FirstOf(at[1], s) \in at[1] /\ Signature(FirstOf(at[1], s)) = s
             /\ After(at, s) \in LeftIn(S, state)
             /\ After(at, s)[1] = at[1] \ {FirstOf(at[1], s)}
             /\ After(at, s)[2] = AdvanceRun(FirstOf(at[1], s), at[2])
             /\ Cardinality(at[1]) = Cardinality(After(at, s)[1]) + 1
             /\ Cardinality(After(at, s)[1]) \in Nat
  <2> DEFINE A == {c \in at[1] : Signature(c) = s}
             x == FirstOf(at[1], s)
  <2>1. A \in SUBSET S /\ A # {}
    BY <1>1 DEF Signatures
  <2>2. x \in A
    <3>1. Named(A)
      <4> HIDE DEF A
      <4> QED
        BY <2>1, NamedPart
    <3>2. Foremost(A) \in A
      <4> HIDE DEF A
      <4> QED
        BY <2>1, <3>1, ForemostIsIn
    <3> QED
      BY <3>2 DEF FirstOf
  <2>3. x \in at[1] /\ Signature(x) = s /\ x \in S
    BY <1>1, <2>2
  <2> HIDE DEF x
  <2>4. AdvanceRun(x, at[2]) \in RunStates(S, state)
    <3>1. x.topic \in {c.topic : c \in S} /\ x.entity \in {c.entity : c \in S}
      BY <2>3
    <3> DEFINE T == {c.topic : c \in S}
               U == {c.entity : c \in S}
    <3> HIDE DEF T, U
    <3>2. x.topic \in T /\ x.entity \in U
      BY <3>1 DEF T, U
    <3>3. AdvanceRun(x, at[2]) \in [topic : T, topicRun : Nat, entity : U, entityRun : Nat]
      BY <1>3, <3>2, AdvanceIsState
    <3> QED
      BY <3>3 DEF RunStates, T, U
  <2>5. After(at, s) = <<at[1] \ {x}, AdvanceRun(x, at[2])>>
    BY DEF After, x
  <2>6. at[1] \ {x} \in SUBSET S
    BY <1>1
  <2>7. After(at, s) \in LeftIn(S, state)
    BY <2>4, <2>5, <2>6 DEF LeftIn
  <2>8. After(at, s)[1] = at[1] \ {x} /\ After(at, s)[2] = AdvanceRun(x, at[2])
    BY <2>5
  <2>9. Cardinality(at[1]) = Cardinality(at[1] \ {x}) + 1 /\ Cardinality(at[1] \ {x}) \in Nat
    BY <1>2, <2>3, TakenOut
  <2> QED
    BY <2>3, <2>7, <2>8, <2>9 DEF x
<1> QED
  BY <1>1, <1>2, <1>3, <1>4

\* The greatest of the lengths.
LEMMA GreatestLength ==
    ASSUME NEW S, Named(S), NEW state, IsState(state), NEW at \in LeftIn(S, state), NEW h,
           \A s \in NextOf(at) : h[After(at, s)] \in 0 .. Cardinality(After(at, s)[1])
    PROVE  /\ Max(Lengths(h, at)) \in 0 .. Cardinality(at[1])
           /\ Max(Lengths(h, at)) \in Lengths(h, at)
           /\ \A s \in NextOf(at) : 1 + h[After(at, s)] <= Max(Lengths(h, at))
<1> DEFINE X == Lengths(h, at)
           n == Cardinality(at[1])
<1>1. n \in Nat
  BY TakenIs
<1>2. \A s \in NextOf(at) : 1 + h[After(at, s)] \in 0 .. n
  <2> TAKE s \in NextOf(at)
  <2>1. s \in Signatures(at[1])
    BY DEF NextOf
  <2>2. n = Cardinality(After(at, s)[1]) + 1 /\ Cardinality(After(at, s)[1]) \in Nat
    BY <2>1, TakenIs
  <2> HIDE DEF n
  <2>3. h[After(at, s)] \in 0 .. Cardinality(After(at, s)[1])
    OBVIOUS
  <2> QED
    BY <2>2, <2>3
<1>3. X \in SUBSET (0 .. n) /\ X # {}
  <2> HIDE DEF n
  <2> QED
    BY <1>1, <1>2 DEF Lengths
<1>4. \A s \in NextOf(at) : 1 + h[After(at, s)] \in X
  BY DEF Lengths
<1> HIDE DEF X, n
<1>5. Max(X) \in X /\ \A y \in X : y <= Max(X)
  BY <1>1, <1>3, GreatestIsIn
<1> QED
  BY <1>3, <1>4, <1>5 DEF X, n

\* The longest order from each point: what follows the best next signature.
LEMMA LengthsAre ==
    ASSUME NEW S, Named(S), NEW state, IsState(state)
    PROVE  LET length == RunLengths(S, state) IN
           \A at \in LeftIn(S, state) :
              /\ length[at] \in 0 .. Cardinality(at[1])
              /\ \A s \in NextOf(at) : 1 + length[After(at, s)] <= length[at]
              /\ length[at] # 0 => \E s \in NextOf(at) : length[After(at, s)] = length[at] - 1
<1> DEFINE D == LeftIn(S, state)
           n == Cardinality(S)
           rank == [at \in D |-> Cardinality(at[1])]
           B == [at \in D |-> 0 .. Cardinality(at[1])]
           G == [q \in D \X [D -> Nat] |-> Max(Lengths(q[2], q[1]))]
           length == RunLengths(S, state)
<1>1. n \in Nat /\ IsFiniteSet(S)
  BY FS_CardinalityType DEF Named
<1>2. rank \in [D -> 0 .. n]
  <2> SUFFICES ASSUME NEW at \in D PROVE Cardinality(at[1]) \in 0 .. n
    OBVIOUS
  <2>1. at[1] \in SUBSET S /\ Cardinality(at[1]) \in Nat
    BY TakenIs
  <2>2. Cardinality(at[1]) <= n
    BY <1>1, <2>1, FS_Subset
  <2> QED
    BY <1>1, <2>1, <2>2
<1>3. \A at \in D : \A s \in NextOf(at) :
         /\ After(at, s) \in D /\ rank[After(at, s)] < rank[at]
         /\ B[After(at, s)] = 0 .. Cardinality(After(at, s)[1])
  <2> TAKE at \in D
  <2> TAKE s \in NextOf(at)
  <2>1. s \in Signatures(at[1])
    BY DEF NextOf
  <2>2. After(at, s) \in D
    BY <2>1, TakenIs
  <2> DEFINE a == Cardinality(After(at, s)[1])
             b == Cardinality(at[1])
  <2>3. b = a + 1 /\ a \in Nat
    BY <2>1, TakenIs
  <2>4. rank[After(at, s)] = a /\ rank[at] = b
    <3> HIDE DEF D
    <3> QED
      BY <2>2
  <2>5. B[After(at, s)] = 0 .. a
    <3> HIDE DEF D
    <3> QED
      BY <2>2
  <2> HIDE DEF a, b, rank, B, D
  <2>6. rank[After(at, s)] < rank[at]
    BY <2>3, <2>4
  <2> QED
    BY <2>2, <2>5, <2>6 DEF a
<1>4. \A at \in D : \A h : (\A y \in D : rank[y] < rank[at] => h[y] \in B[y])
         => /\ Max(Lengths(h, at)) \in B[at]
            /\ \A s \in NextOf(at) : 1 + h[After(at, s)] <= Max(Lengths(h, at))
            /\ Max(Lengths(h, at)) \in Lengths(h, at)
  <2> SUFFICES ASSUME NEW at \in D, NEW h, \A y \in D : rank[y] < rank[at] => h[y] \in B[y]
               PROVE  /\ Max(Lengths(h, at)) \in B[at]
                      /\ \A s \in NextOf(at) : 1 + h[After(at, s)] <= Max(Lengths(h, at))
                      /\ Max(Lengths(h, at)) \in Lengths(h, at)
    <3> HIDE DEF D, rank, B
    <3> QED
      OBVIOUS
  <2>1. \A s \in NextOf(at) : h[After(at, s)] \in 0 .. Cardinality(After(at, s)[1])
    <3> TAKE s \in NextOf(at)
    <3>1. After(at, s) \in D /\ rank[After(at, s)] < rank[at]
          /\ B[After(at, s)] = 0 .. Cardinality(After(at, s)[1])
      BY <1>3
    <3> HIDE DEF D, rank, B
    <3> QED
      BY <3>1
  <2>2. B[at] = 0 .. Cardinality(at[1])
    <3> HIDE DEF D
    <3> QED
      OBVIOUS
  <2> HIDE DEF B, rank
  <2> QED
    BY <2>1, <2>2, GreatestLength
<1>5. \A f : FitsIn(f, D, B) => f \in [D -> Nat]
  <2> SUFFICES ASSUME NEW f, FitsIn(f, D, B) PROVE f \in [D -> Nat]
    OBVIOUS
  <2>1. f = [at \in D |-> f[at]] /\ \A at \in D : f[at] \in B[at]
    <3> HIDE DEF D, B
    <3> QED
      BY DEF FitsIn
  <2>2. \A at \in D : B[at] \in SUBSET Nat
    <3> HIDE DEF D
    <3> QED
      OBVIOUS
  <2> HIDE DEF D, B
  <2> QED
    BY <2>1, <2>2
<1>6. \A at \in D : \A f : FitsIn(f, D, B) => G[<<at, f>>] = Max(Lengths(f, at))
  <2> HIDE DEF D, B
  <2> QED
    BY <1>5
<1>7. MakesFit(G, D, B)
  <2> SUFFICES ASSUME NEW at \in D, NEW f, FitsIn(f, D, B) PROVE G[<<at, f>>] \in B[at]
    BY DEF MakesFit
  <2>1. \A y \in D : f[y] \in B[y]
    BY DEF FitsIn
  <2> HIDE DEF D, B, G, rank
  <2> QED
    BY <1>4, <1>6, <2>1
<1>8. LooksDown(G, D, B, rank)
  <2> SUFFICES ASSUME NEW at \in D, NEW f, NEW g, FitsIn(f, D, B), FitsIn(g, D, B),
                      \A y \in D : rank[y] < rank[at] => f[y] = g[y]
               PROVE  G[<<at, f>>] = G[<<at, g>>]
    <3> HIDE DEF G, D, B, rank
    <3> QED
      BY DEF LooksDown
  <2>1. \A s \in NextOf(at) : f[After(at, s)] = g[After(at, s)]
    <3> HIDE DEF rank, D, B
    <3> QED
      BY <1>3
  <2>2. Lengths(f, at) = Lengths(g, at)
    BY <2>1 DEF Lengths
  <2> HIDE DEF D, B, G
  <2> QED
    BY <1>6, <2>2
<1> DEFINE f0 == [at \in D |-> 0]
<1>9. FitsIn(f0, D, B)
  <2>1. \A at \in D : Cardinality(at[1]) \in Nat
    BY TakenIs
  <2>2. \A at \in D : B[at] = 0 .. Cardinality(at[1]) /\ f0[at] = 0
    <3> HIDE DEF D
    <3> QED
      OBVIOUS
  <2>3. f0 = [at \in D |-> f0[at]]
    OBVIOUS
  <2> HIDE DEF D, B, f0
  <2> QED
    BY <2>1, <2>2, <2>3 DEF FitsIn
<1>10. PICK f : SolvesFor(f, G, D, B)
  <2> HIDE DEF D, B, G, rank, n, f0
  <2> QED
    BY <1>1, <1>2, <1>7, <1>8, <1>9, RecursionExists
<1>11. f = [at \in D |-> Max(Lengths(f, at))]
  <2>1. f = [at \in D |-> f[at]] /\ \A at \in D : f[at] = Max(Lengths(f, at))
    <3> HIDE DEF D, B, G
    <3> QED
      BY <1>6, <1>10 DEF FitsIn, SolvesFor
  <2> HIDE DEF D
  <2> QED
    BY <2>1
<1>12. length = CHOOSE g : g = [at \in D |-> Max(Lengths(g, at))]
  BY DEF RunLengths, Lengths, NextOf, LeftIn
<1> HIDE DEF length
<1>13. length = [at \in D |-> Max(Lengths(length, at))]
  <2> HIDE DEF D
  <2> QED
    BY <1>11, <1>12
<1>14. \A at \in D : length[at] = Max(Lengths(length, at))
  <2> HIDE DEF D
  <2> QED
    BY <1>13
<1>15. \A at \in D : length[at] \in B[at]
  <2> HIDE DEF D, B, rank, n
  <2>1. StaysIn(length, D, B, rank)
    BY <1>4, <1>14 DEF StaysIn
  <2> QED
    BY <1>1, <1>2, <2>1, RecursionStays
<1>16. ASSUME NEW at \in D
       PROVE  /\ length[at] \in 0 .. Cardinality(at[1])
              /\ \A s \in NextOf(at) : 1 + length[After(at, s)] <= length[at]
              /\ length[at] # 0 => \E s \in NextOf(at) : length[After(at, s)] = length[at] - 1
  <2>1. B[at] = 0 .. Cardinality(at[1])
    <3> HIDE DEF D
    <3> QED
      OBVIOUS
  <2>2. /\ \A s \in NextOf(at) : 1 + length[After(at, s)] <= length[at]
        /\ length[at] \in Lengths(length, at)
    <3> HIDE DEF D, B, rank
    <3> QED
      BY <1>4, <1>14, <1>15
  <2>3. \A s \in NextOf(at) : length[After(at, s)] \in Nat
    <3> TAKE s \in NextOf(at)
    <3>1. After(at, s) \in D
      BY <1>3
    <3>2. length[After(at, s)] \in 0 .. Cardinality(After(at, s)[1])
      <4>1. B[After(at, s)] = 0 .. Cardinality(After(at, s)[1])
        BY <1>3
      <4> HIDE DEF B, D
      <4> QED
        BY <1>15, <3>1, <4>1
    <3> QED
      BY <3>2
  <2>4. ASSUME length[at] # 0 PROVE \E s \in NextOf(at) : length[After(at, s)] = length[at] - 1
    <3>1. PICK s \in NextOf(at) : length[at] = 1 + length[After(at, s)]
      BY <2>2, <2>4 DEF Lengths
    <3>2. length[After(at, s)] \in Nat
      BY <2>3
    <3> QED
      BY <3>1, <3>2
  <2>5. length[at] \in 0 .. Cardinality(at[1])
    <3> HIDE DEF B, D
    <3> QED
      BY <1>15, <2>1
  <2> QED
    BY <2>2, <2>4, <2>5
<1> QED
  BY <1>16 DEF length

\* The orders of some of what is left.
InTurn(at) ==
    {o \in Seq(at[1]) : /\ \A j, k \in 1 .. Len(o) : o[j] = o[k] => j = k
                        /\ IsAllowed(o, at[2])}

\* An order may as well begin with the foremost of its signature: the rest of it is
\* an order of what is left then.
LEMMA RestIsOrder ==
    ASSUME NEW S, Named(S), NEW state, IsState(state), NEW at \in LeftIn(S, state),
           NEW o \in InTurn(at), Len(o) # 0
    PROVE  \E s \in NextOf(at) : \E p \in InTurn(After(at, s)) : Len(p) = Len(o) - 1
<1> DEFINE A == at[1]
           x == o[1]
           s == Signature(x)
           y == FirstOf(A, s)
           n == Len(o) - 1
           new(k) == IF o[k + 1] = y THEN x ELSE o[k + 1]
           p == [k \in 1 .. n |-> new(k)]
<1>1. /\ o \in Seq(A) /\ Len(o) \in Nat /\ DOMAIN o = 1 .. Len(o) /\ n \in Nat /\ Len(o) = n + 1
      /\ \A j, k \in 1 .. Len(o) : o[j] = o[k] => j = k
      /\ IsAllowed(o, at[2])
  BY DEF InTurn
<1>2. x \in A /\ \A k \in 1 .. Len(o) : o[k] \in A
  BY <1>1
<1>3. IsState(at[2]) /\ s \in Signatures(A)
  BY <1>2, TakenIs DEF Signatures
<1>4. /\ y \in A /\ Signature(y) = s
      /\ After(at, s)[1] = A \ {y} /\ After(at, s)[2] = AdvanceRun(y, at[2])
      /\ After(at, s) \in LeftIn(S, state)
  <2> HIDE DEF s
  <2> QED
    BY <1>3, TakenIs
<1>5. x.topic = y.topic /\ x.entity = y.entity
  BY <1>4 DEF Signature
<1>6. (CanAppend(x, at[2]) <=> CanAppend(y, at[2])) /\ AdvanceRun(x, at[2]) = AdvanceRun(y, at[2])
  <2> HIDE DEF x, y
  <2> QED
    BY <1>5, SameAppend
<1>7. Runs(o, at[2])[0] = at[2] /\ Runs(o, at[2])[1] = AdvanceRun(x, at[2])
  <2>1. 1 \in 1 .. Len(o) /\ 1 - 1 = 0 /\ o \in Seq(at[1])
    BY <1>1
  <2>2. /\ Runs(o, at[2])[0] = at[2]
        /\ \A k \in 1 .. Len(o) : Runs(o, at[2])[k] = AdvanceRun(o[k], Runs(o, at[2])[k - 1])
    <3> HIDE DEF A, x, s, y
    <3> QED
      BY <1>3, <2>1, RunsAre
  <2>3. Runs(o, at[2])[1] = AdvanceRun(o[1], Runs(o, at[2])[1 - 1])
    BY <2>1, <2>2
  <2> QED
    BY <2>1, <2>2, <2>3
<1>8. CanAppend(x, at[2])
  <2>1. 1 \in DOMAIN o /\ 1 - 1 = 0
    BY <1>1
  <2>2. \A k \in DOMAIN o : CanAppend(o[k], Runs(o, at[2])[k - 1])
    BY <1>1 DEF IsAllowed
  <2>3. CanAppend(o[1], Runs(o, at[2])[1 - 1])
    BY <2>1, <2>2
  <2> QED
    BY <1>7, <2>1, <2>3
<1>9. s \in NextOf(at)
  BY <1>3, <1>6, <1>8 DEF NextOf
<1>10. \A k \in 1 .. n : k + 1 \in 1 .. Len(o) /\ o[k + 1] \in A /\ o[k + 1] # x
  <2> TAKE k \in 1 .. n
  <2>1. k + 1 \in 1 .. Len(o) /\ k + 1 # 1 /\ 1 \in 1 .. Len(o)
    BY <1>1
  <2> QED
    BY <1>1, <1>2, <2>1
<1> HIDE DEF x, y, s
<1>11. \A k \in 1 .. n : new(k) \in A \ {y}
  BY <1>2, <1>10
<1>12. \A j, k \in 1 .. n : new(j) = new(k) => j = k
  <2> SUFFICES ASSUME NEW j \in 1 .. n, NEW k \in 1 .. n, new(j) = new(k) PROVE j = k
    OBVIOUS
  <2>1. o[j + 1] = o[k + 1]
    BY <1>10
  <2>2. j + 1 = k + 1
    BY <1>1, <1>10, <2>1
  <2> QED
    BY <2>2
<1>13. \A k \in 1 .. n : new(k).topic = o[k + 1].topic /\ new(k).entity = o[k + 1].entity
  BY <1>5
<1> HIDE DEF new
<1>14. Len(p) = n /\ p \in Seq(A \ {y}) /\ DOMAIN p = 1 .. n /\ \A k \in 1 .. n : p[k] = new(k)
  <2> HIDE DEF n
  <2> QED
    BY <1>1, <1>11
<1> HIDE DEF p, n, A
<1>15. IsAllowed(p, AdvanceRun(y, at[2]))
  <2> DEFINE t == AdvanceRun(y, at[2])
  <2>1. IsState(t) /\ Runs(o, at[2])[1] = t
    BY <1>3, <1>6, <1>7, AdvanceIsState
  <2> HIDE DEF t
  <2>2. \A k \in 1 .. n : o[1 + k].topic = p[k].topic /\ o[1 + k].entity = p[k].entity
    <3> TAKE k \in 1 .. n
    <3>1. 1 + k = k + 1
      BY <1>1
    <3>2. p[k] = new(k) /\ new(k).topic = o[k + 1].topic /\ new(k).entity = o[k + 1].entity
      BY <1>13, <1>14
    <3> QED
      BY <3>1, <3>2
  <2>3. 1 + n <= Len(o) /\ n <= Len(p)
    BY <1>1, <1>14
  <2>4. \A k \in 0 .. n : Runs(o, at[2])[1 + k] = Runs(p, t)[k]
    <3> DEFINE F == A \ {y}
               z == at[2]
               m == 1
    <3>1. p \in Seq(F) /\ o \in Seq(A) /\ n \in Nat /\ m \in Nat /\ IsState(z) /\ IsState(t)
      BY <1>1, <1>3, <1>14, <2>1
    <3> HIDE DEF F, z, m
    <3>2. Runs(o, z)[m] = t
      BY <2>1 DEF z, m
    <3>3. /\ \A k \in 1 .. n : o[m + k].topic = p[k].topic /\ o[m + k].entity = p[k].entity
          /\ m + n <= Len(o) /\ n <= Len(p)
      BY <2>2, <2>3 DEF m
    <3>4. GoesAlong(o, p, m, n)
      BY <3>3 DEF GoesAlong
    <3>5. RunsAlong(o, z, p, t, m, n)
      BY <3>1, <3>2, <3>3, <3>4, RunsFollow
    <3> QED
      BY <3>5 DEF z, m, RunsAlong
  <2>5. ASSUME NEW k \in 1 .. n PROVE CanAppend(p[k], Runs(p, t)[k - 1])
    <3>1. k - 1 \in 0 .. n /\ 1 + (k - 1) = k /\ (k + 1) - 1 = k /\ 1 + k = k + 1
      BY <1>1
    <3>2. Runs(o, at[2])[k] = Runs(p, t)[k - 1]
      BY <2>4, <3>1
    <3>3. CanAppend(o[k + 1], Runs(o, at[2])[(k + 1) - 1])
      BY <1>1, <1>10 DEF IsAllowed
    <3>4. o[k + 1].topic = p[k].topic /\ o[k + 1].entity = p[k].entity
      BY <2>2, <3>1
    <3>5. CanAppend(o[k + 1], Runs(p, t)[k - 1])
      BY <3>1, <3>2, <3>3
    <3> QED
      BY <3>4, <3>5, SameAppend
  <2> QED
    BY <1>14, <2>5 DEF IsAllowed, t
<1>16. p \in InTurn(After(at, s))
  <2>1. \A j, k \in 1 .. Len(p) : p[j] = p[k] => j = k
    BY <1>12, <1>14
  <2>2. p \in Seq(After(at, s)[1]) /\ IsAllowed(p, After(at, s)[2])
    BY <1>4, <1>14, <1>15
  <2> QED
    BY <2>1, <2>2 DEF InTurn
<1>17. Len(p) = Len(o) - 1
  BY <1>1, <1>14
<1> QED
  BY <1>9, <1>16, <1>17

\* No order is longer than the length that was found.
LEMMA NoneIsLonger ==
    ASSUME NEW S, Named(S), NEW state, IsState(state)
    PROVE  \A at \in LeftIn(S, state) : \A o \in InTurn(at) : Len(o) <= RunLengths(S, state)[at]
<1> DEFINE length == RunLengths(S, state)
           D == LeftIn(S, state)
           bad == {n \in Nat : \E at \in D : \E o \in InTurn(at) : Len(o) = n /\ ~(n <= length[at])}
<1>1. \A at \in D : \A o \in InTurn(at) : Len(o) \in Nat
  BY DEF InTurn
<1> SUFFICES ASSUME bad # {} PROVE FALSE
  <2> HIDE DEF length
  <2> SUFFICES ASSUME NEW at \in D, NEW o \in InTurn(at), ~(Len(o) <= length[at]) PROVE FALSE
    BY DEF length
  <2>1. Len(o) \in bad
    BY <1>1
  <2> QED
    BY <2>1
<1> HIDE DEF length, D
<1>2. bad \in SUBSET Nat
  OBVIOUS
<1>3. PICK n \in bad : \A m \in bad : n <= m
  <2> HIDE DEF bad
  <2> QED
    BY <1>2, LeastNumber
<1>4. PICK at \in D : \E o \in InTurn(at) : Len(o) = n /\ ~(n <= length[at])
  BY <1>3
<1>5. PICK o \in InTurn(at) : Len(o) = n /\ ~(n <= length[at])
  BY <1>4
<1>6. /\ length[at] \in Nat
      /\ \A s \in NextOf(at) : 1 + length[After(at, s)] <= length[at]
  <2>1. length[at] \in 0 .. Cardinality(at[1])
    BY LengthsAre DEF length, D
  <2>2. Cardinality(at[1]) \in Nat
    BY TakenIs DEF D
  <2>3. \A s \in NextOf(at) : 1 + length[After(at, s)] <= length[at]
    BY LengthsAre DEF length, D
  <2> QED
    BY <2>1, <2>2, <2>3
<1>7. n \in Nat /\ n # 0
  BY <1>2, <1>3, <1>5, <1>6
<1>8. PICK s \in NextOf(at) : \E p \in InTurn(After(at, s)) : Len(p) = Len(o) - 1
  BY <1>5, <1>7, RestIsOrder DEF D
<1>9. PICK p \in InTurn(After(at, s)) : Len(p) = n - 1
  BY <1>5, <1>8
<1>10. After(at, s) \in D
  BY TakenIs DEF D, NextOf
<1>11. n - 1 \in Nat /\ ~(n <= n - 1)
  BY <1>7
<1>12. n - 1 \notin bad
  BY <1>3, <1>11
<1>13. n - 1 <= length[After(at, s)]
  BY <1>9, <1>10, <1>11, <1>12
<1>14. length[After(at, s)] \in Nat
  <2>1. length[After(at, s)] \in 0 .. Cardinality(After(at, s)[1])
    BY <1>10, LengthsAre DEF length, D
  <2>2. Cardinality(After(at, s)[1]) \in Nat
    BY <1>10, TakenIs DEF D
  <2> QED
    BY <2>1, <2>2
<1>15. 1 + length[After(at, s)] <= length[at]
  BY <1>6
<1> QED
  BY <1>5, <1>6, <1>7, <1>13, <1>14, <1>15

\* So the longest allowed order has that length.
LEMMA LongestIs ==
    ASSUME NEW S, Named(S), NEW state, IsState(state)
    PROVE  /\ MaxRunLength(S, state) \in Nat
           /\ \A o \in Arrangements(S, state) : Len(o) <= MaxRunLength(S, state)
<1> DEFINE at == <<S, state>>
<1>1. at \in LeftIn(S, state) /\ at[1] = S /\ at[2] = state
  BY DEF LeftIn, RunStates
<1> HIDE DEF at
<1>2. MaxRunLength(S, state) = RunLengths(S, state)[at]
  BY DEF MaxRunLength, at
<1>3. MaxRunLength(S, state) \in Nat
  <2>1. RunLengths(S, state)[at] \in 0 .. Cardinality(at[1])
    BY <1>1, LengthsAre
  <2>2. Cardinality(at[1]) \in Nat
    BY <1>1, TakenIs
  <2> QED
    BY <1>2, <2>1, <2>2
<1>4. ASSUME NEW o \in Arrangements(S, state) PROVE o \in InTurn(at)
  <2> DEFINE m == Min({BatchSize, Cardinality(S)})
  <2>1. Cardinality(S) \in Nat /\ BatchSize \in Nat
    BY QuotasAre, FS_CardinalityType DEF Named
  <2>2. m \in Nat
    BY <2>1, LesserOf
  <2>3. PICK k \in 0 .. m : o \in [1 .. k -> S] /\ IsInjective(o)
    BY DEF Arrangements
  <2> HIDE DEF m
  <2>4. k \in Nat /\ o \in Seq(S) /\ Len(o) = k /\ DOMAIN o = 1 .. k
    BY <2>2, <2>3
  <2>5. \A i, j \in 1 .. Len(o) : o[i] = o[j] => i = j
    BY <2>3, <2>4 DEF IsInjective
  <2>6. IsAllowed(o, state)
    BY DEF Arrangements
  <2> QED
    BY <1>1, <2>4, <2>5, <2>6 DEF InTurn
<1>5. \A o \in Arrangements(S, state) : Len(o) <= RunLengths(S, state)[at]
  BY <1>1, <1>4, NoneIsLonger
<1> QED
  BY <1>2, <1>3, <1>5

\* What is left after an order.
LeftAfter(S, o, state) == <<{c \in S : c.id \notin Ids(o)}, RunsAfter(o, state)>>

\* The orders on the way to a longest one: what is left can be appended to.
OnTheWay(S, state, k) ==
    {o \in Allowed(S, state) :
        /\ Len(o) = k
        /\ LeftAfter(S, o, state) \in LeftIn(S, state)
        /\ RunLengths(S, state)[LeftAfter(S, o, state)] = RunLengths(S, state)[<<S, state>>] - k}

\* One of the next signatures is first in the pool.
LEMMA FirstPlaceIs ==
    ASSUME NEW S, Named(S), NEW ok, ok # {}, ok \subseteq Signatures(S)
    PROVE  LET place(s) == Min({c.id : c \in {x \in S : Signature(x) = s}})
           IN  (CHOOSE s \in ok : \A t \in ok : place(s) <= place(t)) \in ok
<1> DEFINE named(s) == {c.id : c \in {x \in S : Signature(x) = s}}
           place(s) == Min(named(s))
           T == {place(s) : s \in ok}
<1>1. \A s \in ok : place(s) \in Nat
  <2> TAKE s \in ok
  <2>1. \E x \in S : Signature(x) = s
    BY DEF Signatures
  <2>2. named(s) \in SUBSET Nat /\ named(s) # {}
    BY <2>1 DEF Named
  <2> HIDE DEF named
  <2> QED
    BY <2>2, LeastIsIn
<1> HIDE DEF place
<1>2. T \in SUBSET Nat /\ T # {}
  BY <1>1
<1>3. PICK m \in T : \A j \in T : m <= j
  <2> HIDE DEF T
  <2> QED
    BY <1>2, LeastNumber
<1>4. \E s \in ok : \A t \in ok : place(s) <= place(t)
  BY <1>3
<1>5. (CHOOSE s \in ok : \A t \in ok : place(s) <= place(t)) \in ok
  BY <1>4
<1> QED
  BY <1>5 DEF place

\* One signature further.
LEMMA GoesOnTheWay ==
    ASSUME NEW S, Candidates(S), NEW state, IsState(state), NEW seed \in Picks(S),
           NEW k \in Nat, NEW o \in OnTheWay(S, state, k - 1), NEW s,
           LET at == LeftAfter(S, o, state) IN
           s \in {u \in Signatures(at[1]) :
                    /\ CanAppend(FirstOf(at[1], u), at[2])
                    /\ RunLengths(S, state)[After(at, u)] = RunLengths(S, state)[at] - 1}
    PROVE  LET next == FirstOf(LeftAfter(S, o, state)[1], s)
           IN  Append(o, As(next, SeededType(next, seed, o))) \in OnTheWay(S, state, k)
<1> DEFINE at == LeftAfter(S, o, state)
           length == RunLengths(S, state)
           L == length[<<S, state>>]
           next == FirstOf(at[1], s)
           t == SeededType(next, seed, o)
           new == Append(o, As(next, t))
<1>1. at[1] = {c \in S : c.id \notin Ids(o)} /\ at[2] = RunsAfter(o, state)
  BY DEF LeftAfter
<1>2. /\ o \in Allowed(S, state) /\ Len(o) = k - 1 /\ at \in LeftIn(S, state)
      /\ length[at] = L - (k - 1)
  BY DEF OnTheWay
<1>3. /\ s \in Signatures(at[1]) /\ CanAppend(next, at[2])
      /\ length[After(at, s)] = length[at] - 1
  OBVIOUS
<1> HIDE DEF at, length, L, next
<1>4. Named(S)
  BY DEF Candidates
<1>5. /\ next \in at[1] /\ After(at, s) \in LeftIn(S, state)
      /\ After(at, s)[1] = at[1] \ {next} /\ After(at, s)[2] = AdvanceRun(next, at[2])
  BY <1>2, <1>3, <1>4, TakenIs DEF next
<1>6. next \in S /\ next.id \notin Ids(o) /\ t \in next.types /\ CanAppend(next, RunsAfter(o, state))
  BY <1>1, <1>3, <1>5, SeededIs
<1> HIDE DEF t
<1>7. /\ new \in Allowed(S, state) /\ Len(new) = Len(o) + 1 /\ Len(o) \in Nat
      /\ RunsAfter(new, state) = AdvanceRun(next, RunsAfter(o, state))
      /\ Ids(new) = Ids(o) \cup {next.id}
  BY <1>2, <1>6, OneMoreAllowed
<1> HIDE DEF new
<1>8. LeftAfter(S, new, state) = After(at, s)
  <2>1. {c \in S : c.id \notin Ids(new)} = at[1] \ {next}
    BY <1>1, <1>4, <1>6, <1>7 DEF Named
  <2>2. LeftAfter(S, new, state) = <<at[1] \ {next}, AdvanceRun(next, at[2])>>
    BY <1>1, <1>7, <2>1 DEF LeftAfter
  <2>3. After(at, s) = <<at[1] \ {next}, AdvanceRun(next, at[2])>>
    BY DEF After, next
  <2> QED
    BY <2>2, <2>3
<1>9. L \in Nat
  <2>1. <<S, state>> \in LeftIn(S, state)
    BY DEF LeftIn, RunStates
  <2>2. length[<<S, state>>] \in 0 .. Cardinality(<<S, state>>[1])
    BY <1>4, <2>1, LengthsAre DEF length
  <2>3. Cardinality(<<S, state>>[1]) \in Nat
    BY <1>4, <2>1, TakenIs
  <2> QED
    BY <2>2, <2>3 DEF L
<1>10. length[LeftAfter(S, new, state)] = L - k /\ Len(new) = k
  BY <1>2, <1>3, <1>7, <1>8, <1>9
<1>11. LeftAfter(S, new, state) \in LeftIn(S, state)
  BY <1>5, <1>8
<1>12. new \in OnTheWay(S, state, k)
  BY <1>7, <1>10, <1>11 DEF OnTheWay, L, length
<1> QED
  BY <1>12 DEF new, t, next, at

\* The proven order: allowed, and of the longest length.
LEMMA ProvenIs ==
    ASSUME NEW S, Candidates(S), NEW state, IsState(state), NEW seed \in Picks(S)
    PROVE  /\ ProvenOrder(S, seed, state) \in Allowed(S, state)
           /\ Len(ProvenOrder(S, seed, state)) = MaxRunLength(S, state)
<1> DEFINE length == RunLengths(S, state)
           n == length[<<S, state>>]
           D == Allowed(S, state)
           at(o) == <<{c \in S : c.id \notin Ids(o)}, RunsAfter(o, state)>>
           place(s) == Min({c.id : c \in {x \in S : Signature(x) = s}})
           ok(o) == {s \in Signatures(at(o)[1]) :
                       /\ CanAppend(FirstOf(at(o)[1], s), at(o)[2])
                       /\ length[After(at(o), s)] = length[at(o)] - 1}
           sign(o) == CHOOSE s \in ok(o) : \A t \in ok(o) : place(s) <= place(t)
           next(o) == FirstOf(at(o)[1], sign(o))
           pass(o, k) == Append(o, As(next(o), SeededType(next(o), seed, o)))
           start == <<>>
           V == [k \in 0 .. n |-> OnTheWay(S, state, k)]
           G == [p \in D \X (1 .. n) |-> pass(p[1], p[2])]
<1>0. Named(S) /\ <<S, state>> \in LeftIn(S, state)
  BY DEF Candidates, LeftIn, RunStates
<1>1. n \in Nat
  <2>1. length[<<S, state>>] \in 0 .. Cardinality(<<S, state>>[1])
    BY <1>0, LengthsAre
  <2>2. Cardinality(<<S, state>>[1]) \in Nat
    BY <1>0, TakenIs
  <2> HIDE DEF length
  <2> QED
    BY <2>1, <2>2
<1>2. start \in V[0]
  <2>1. <<>> \in Allowed(S, state)
    BY DEF Allowed, Picks, Single, IsAllowed
  <2>2. Ids(<<>>) = {} /\ Len(<<>>) = 0
    BY DEF Ids
  <2>3. RunsAfter(<<>>, state) = state
    <3>1. <<>> \in Seq(S)
      OBVIOUS
    <3> QED
      BY <2>2, <3>1, RunsAre DEF RunsAfter
  <2>4. LeftAfter(S, <<>>, state) = <<S, state>>
    BY <2>2, <2>3 DEF LeftAfter
  <2>5. <<>> \in OnTheWay(S, state, 0)
    <3>1. length[<<S, state>>] = length[<<S, state>>] - 0
      BY <1>1
    <3> QED
      BY <1>0, <2>1, <2>2, <2>4, <3>1 DEF OnTheWay
  <2>6. 0 \in 0 .. n
    BY <1>1
  <2> HIDE DEF n
  <2> QED
    BY <2>5, <2>6
<1>3. \A k \in 1 .. n : \A v \in V[k - 1] : v \in D
  <2> HIDE DEF n
  <2>1. \A k \in 1 .. n : V[k - 1] = OnTheWay(S, state, k - 1)
    BY <1>1
  <2> QED
    BY <2>1 DEF OnTheWay
<1>4. \A k \in 1 .. n : \A v \in V[k - 1] : pass(v, k) \in V[k]
  <2> TAKE k \in 1 .. n
  <2> TAKE o \in V[k - 1]
  <2>1. V[k - 1] = OnTheWay(S, state, k - 1) /\ V[k] = OnTheWay(S, state, k) /\ k \in Nat
    <3> HIDE DEF n
    <3> QED
      BY <1>1
  <2>2. o \in OnTheWay(S, state, k - 1)
    BY <2>1
  <2>3. at(o) = LeftAfter(S, o, state)
    BY DEF LeftAfter
  <2> HIDE DEF at
  <2>4. at(o) \in LeftIn(S, state) /\ length[at(o)] = n - (k - 1)
    BY <2>2, <2>3 DEF OnTheWay
  <2>5. length[at(o)] # 0
    <3> HIDE DEF n
    <3> QED
      BY <1>1, <2>4
  <2>6. ok(o) # {}
    <3>1. \E s \in NextOf(at(o)) : length[After(at(o), s)] = length[at(o)] - 1
      BY <1>0, <2>4, <2>5, LengthsAre
    <3> QED
      BY <3>1 DEF NextOf
  <2>7. ok(o) \subseteq Signatures(S)
    <3>1. at(o)[1] \in SUBSET S
      BY <1>0, <2>4, TakenIs
    <3> QED
      BY <3>1 DEF Signatures
  <2>8. sign(o) \in ok(o)
    <3> HIDE DEF ok
    <3> QED
      BY <1>0, <2>6, <2>7, FirstPlaceIs
  <2> HIDE DEF sign
  <2>9. pass(o, k) \in OnTheWay(S, state, k)
    <3> DEFINE s == sign(o)
    <3>1. s \in {u \in Signatures(LeftAfter(S, o, state)[1]) :
                    /\ CanAppend(FirstOf(LeftAfter(S, o, state)[1], u), LeftAfter(S, o, state)[2])
                    /\ RunLengths(S, state)[After(LeftAfter(S, o, state), u)]
                         = RunLengths(S, state)[LeftAfter(S, o, state)] - 1}
      BY <2>3, <2>8
    <3>2. next(o) = FirstOf(LeftAfter(S, o, state)[1], s)
      BY <2>3
    <3> HIDE DEF s, next
    <3>3. Append(o, As(FirstOf(LeftAfter(S, o, state)[1], s),
                       SeededType(FirstOf(LeftAfter(S, o, state)[1], s), seed, o)))
            \in OnTheWay(S, state, k)
      BY <2>1, <2>2, <3>1, GoesOnTheWay
    <3> QED
      BY <3>2, <3>3
  <2> QED
    BY <2>1, <2>9
<1>5. \A k \in 1 .. n : \A v \in D : G[<<v, k>>] = pass(v, k)
  <2> HIDE DEF V, pass, start, n, D
  <2> QED
    OBVIOUS
<1>6. PICK f : IsLoop(f, start, G, n) /\ \A k \in 0 .. n : f[k] \in V[k]
  <2> HIDE DEF G, V, pass, start, n, D
  <2>1. \A k \in 1 .. n : \A v \in V[k - 1] : G[<<v, k>>] \in V[k]
    BY <1>4, <1>3, <1>5
  <2> QED
    BY <1>1, <1>2, <2>1, LoopExists
<1>7. f = [k \in 0 .. n |-> IF k = 0 THEN start ELSE pass(f[k - 1], k)]
  <2> HIDE DEF G, V, pass, start, n, D
  <2>1. \A k \in 1 .. n : f[k - 1] \in V[k - 1]
    BY <1>1, <1>6
  <2>2. f = [k \in 0 .. n |-> f[k]] /\ \A k \in 0 .. n : f[k] = IF k = 0 THEN start ELSE G[<<f[k - 1], k>>]
    BY <1>6 DEF IsLoop
  <2>3. \A k \in 0 .. n : f[k] = IF k = 0 THEN start ELSE pass(f[k - 1], k)
    <3> TAKE k \in 0 .. n
    <3>1. CASE k = 0
      BY <2>2, <3>1
    <3>2. CASE k # 0
      <4>1. k \in 1 .. n
        BY <3>2, <1>1
      <4>2. f[k - 1] \in D
        BY <2>1, <4>1, <1>3
      <4>3. G[<<f[k - 1], k>>] = pass(f[k - 1], k)
        BY <1>5, <4>1, <4>2
      <4>4. f[k] = G[<<f[k - 1], k>>]
        BY <2>2, <3>2
      <4> QED
        BY <3>2, <4>3, <4>4
    <3> QED
      BY <3>1, <3>2
  <2> QED
    BY <2>2, <2>3
<1> DEFINE after == CHOOSE g : g = [k \in 0 .. n |-> IF k = 0 THEN start ELSE pass(g[k - 1], k)]
<1>8. after = [k \in 0 .. n |-> IF k = 0 THEN start ELSE pass(after[k - 1], k)]
  <2> HIDE DEF V, pass, start, n, D
  <2> QED
    BY <1>7
<1>9. Loop(pass, start, n) = after[n]
  BY DEF Loop
<1> HIDE DEF after, G, V, pass, start, n, D
<1>10. after[0] = start /\ \A k \in 1 .. n : after[k] = pass(after[k - 1], k)
  <2>1. 0 \in 0 .. n /\ \A k \in 1 .. n : k \in 0 .. n /\ k # 0
    BY <1>1
  <2> QED
    BY <1>8, <2>1
<1>11. after[n] \in V[n]
  <2>1. \A k \in 1 .. n : after[k - 1] \in V[k - 1] => after[k] \in V[k]
    BY <1>4, <1>10
  <2>2. after[0] \in V[0]
    BY <1>2, <1>10
  <2>3. \A k \in 0 .. n : after[k] \in V[k]
    BY <1>1, <2>1, <2>2, LoopStays
  <2> QED
    BY <1>1, <2>3
<1>12. ProvenOrder(S, seed, state) = after[n]
  BY <1>9 DEF ProvenOrder, pass, start, n
<1>13. V[n] = OnTheWay(S, state, n)
  BY <1>1 DEF V
<1>14. after[n] \in Allowed(S, state) /\ Len(after[n]) = n
  BY <1>11, <1>13 DEF OnTheWay
<1>15. MaxRunLength(S, state) = n
  BY DEF MaxRunLength, n
<1> QED
  BY <1>12, <1>14, <1>15

-----------------------------------------------------------------------------
(* What version 2 answers.                                                 *)

\* The alternatives: an allowed order of a batch at most.
LEMMA ProposalsAre ==
    ASSUME NEW S, Candidates(S), NEW state, IsState(state), NEW best \in AllowedUpTo(S, state, BatchSize)
    PROVE  Alternatives(best, S, state) \in AllowedUpTo(S, state, BatchSize)
<1> DEFINE T == {c \in S : c.id \notin Ids(best)}
           others == First(T, Proposals, Precedes)
           n == Len(others)
           X == AllowedUpTo(S, state, BatchSize)
           better(b, c) == BetterOf(BestOrder(Append(b, As(c, GreedyType(c, b))), state), b)
           pass(b, j) == IF Len(b) >= BatchSize \/ others[j].id \in Ids(b) THEN b
                         ELSE better(b, others[j])
           start == best
           G == [p \in X \X (1 .. n) |-> pass(p[1], p[2])]
<1>1. n \in Nat /\ \A j \in 1 .. n : others[j] \in S
  <2>0. T \in SUBSET S
    OBVIOUS
  <2> HIDE DEF T
  <2>1. Named(T) /\ Proposals \in Nat
    BY <2>0, NamedPart, RecommendationAssumption DEF Candidates
  <2>2. others \in Seq(T)
    BY <2>1, FirstByPrecedence
  <2> HIDE DEF others
  <2> QED
    BY <2>0, <2>2
<1> HIDE DEF others
<1>2. start \in X
  OBVIOUS
<1>3. \A k \in 1 .. n : \A v \in X : pass(v, k) \in X
  <2> SUFFICES ASSUME NEW k \in 1 .. n, NEW b \in X, ~(Len(b) >= BatchSize), others[k].id \notin Ids(b)
               PROVE  better(b, others[k]) \in X
    <3> HIDE DEF X, better, n
    <3> QED
      OBVIOUS
  <2> DEFINE c == others[k]
             t == GreedyType(c, b)
             more == Append(b, As(c, t))
             o == BestOrder(more, state)
  <2>1. c \in S /\ c.id \notin Ids(b)
    BY <1>1
  <2> HIDE DEF c
  <2>2. t \in c.types
    <3>1. <<>> \in Picks(S)
      BY DEF Picks, Single
    <3> QED
      BY <2>1, <3>1, SeededIs
  <2> HIDE DEF t
  <2>3. b \in Allowed(S, state) /\ Len(b) \in Nat /\ BatchSize \in Nat /\ Len(b) < BatchSize
    BY QuotasAre DEF AllowedUpTo, Allowed, Picks
  <2>4. As(c, t) \in ItemsOf(S) /\ As(c, t).id = c.id
    BY <2>1, <2>2, ItemsOfAre
  <2>5. b \in Seq(ItemsOf(S)) /\ Single(b)
    BY <2>3 DEF Allowed, Picks
  <2>6. \A j \in 1 .. Len(b) : b[j].id # As(c, t).id
    BY <2>1, <2>4, <2>5, IdsAre
  <2>7. more \in Picks(S) /\ Len(more) = Len(b) + 1
    BY <2>4, <2>5, <2>6, SingleMore DEF Picks
  <2> HIDE DEF more
  <2>8. o \in Allowed(S, state) /\ Len(o) <= Len(more)
    BY <2>7, BestOrderIs
  <2>9. Len(o) \in Nat
    BY <2>8 DEF Allowed, Picks
  <2> HIDE DEF o
  <2>10. o \in X
    BY <2>3, <2>7, <2>8, <2>9 DEF AllowedUpTo
  <2>11. better(b, c) = BetterOf(o, b)
    BY DEF o, more, t
  <2>12. BetterOf(o, b) = o \/ BetterOf(o, b) = b
    BY DEF BetterOf
  <2> QED
    BY <2>10, <2>11, <2>12 DEF c
<1>4. \A k \in 1 .. n : \A v \in X : G[<<v, k>>] = pass(v, k)
  <2> HIDE DEF X, pass, start, n
  <2> QED
    OBVIOUS
<1>5. PICK f : RunsIn(f, start, G, n, X)
  <2> HIDE DEF G, X, pass, start, n
  <2>1. \A k \in 1 .. n : \A v \in X : G[<<v, k>>] \in X
    BY <1>3, <1>4
  <2> QED
    BY <1>1, <1>2, <2>1, LoopRuns
<1>6. f = [k \in 0 .. n |-> IF k = 0 THEN start ELSE pass(f[k - 1], k)]
  <2> HIDE DEF G, X, pass, start, n
  <2>1. \A k \in 0 .. n : f[k] = IF k = 0 THEN start ELSE pass(f[k - 1], k)
    <3> TAKE k \in 0 .. n
    <3>1. CASE k = 0
      BY <1>5, <3>1 DEF RunsIn
    <3>2. CASE k # 0
      <4>1. k \in 1 .. n
        BY <3>2, <1>1
      <4> QED
        BY <1>4, <1>5, <3>2, <4>1 DEF RunsIn
    <3> QED
      BY <3>1, <3>2
  <2>2. f = [k \in 0 .. n |-> f[k]]
    BY <1>5 DEF RunsIn
  <2> QED
    BY <2>1, <2>2
<1> DEFINE after == CHOOSE g : g = [k \in 0 .. n |-> IF k = 0 THEN start ELSE pass(g[k - 1], k)]
<1>7. after = [k \in 0 .. n |-> IF k = 0 THEN start ELSE pass(after[k - 1], k)]
  <2> HIDE DEF X, pass, start, n
  <2> QED
    BY <1>6
<1>8. Loop(pass, start, n) = after[n]
  BY DEF Loop
<1> HIDE DEF after, G, X, pass, start, n
<1>9. after[0] = start /\ \A k \in 1 .. n : after[k] = pass(after[k - 1], k)
  <2>1. 0 \in 0 .. n /\ \A k \in 1 .. n : k \in 0 .. n /\ k # 0
    BY <1>1
  <2> QED
    BY <1>7, <2>1
<1>10. after[n] \in X
  BY <1>1, <1>3, <1>2, <1>9, LoopEnds
<1>11. Alternatives(best, S, state) = after[n]
  BY <1>8 DEF Alternatives, pass, start, n, others
<1> QED
  BY <1>10, <1>11 DEF X

\* An arrangement with the lowest types is allowed.
LEMMA StoppedAre ==
    ASSUME NEW S, Candidates(S), NEW state, IsState(state), NEW a \in Arrangements(S, state)
    PROVE  /\ [k \in DOMAIN a |-> As(a[k], LowestType(a[k].types))] \in AllowedUpTo(S, state, BatchSize)
           /\ a \in Seq(S) /\ Len(a) \in Nat /\ Len(a) <= BatchSize /\ Len(a) <= Cardinality(S)
           /\ IsAllowed(a, state)
<1> DEFINE m == Min({BatchSize, Cardinality(S)})
           new(k) == As(a[k], LowestType(a[k].types))
           o == [k \in DOMAIN a |-> new(k)]
<1>1. Cardinality(S) \in Nat /\ BatchSize \in Nat
  BY QuotasAre, FS_CardinalityType DEF Candidates, Named
<1>2. m \in Nat /\ m <= BatchSize /\ m <= Cardinality(S)
  BY <1>1, LesserOf
<1>3. PICK n \in 0 .. m : a \in [1 .. n -> S] /\ IsInjective(a)
  BY DEF Arrangements
<1> HIDE DEF m
<1>4. n \in Nat /\ a \in Seq(S) /\ Len(a) = n /\ DOMAIN a = 1 .. n
  BY <1>2, <1>3
<1>5. \A i, j \in 1 .. n : a[i] = a[j] => i = j
  BY <1>3, <1>4 DEF IsInjective
<1>6. IsAllowed(a, state)
  BY DEF Arrangements
<1>7. \A k \in 1 .. n : /\ new(k) \in ItemsOf(S) /\ new(k).id = a[k].id
                        /\ a[k].topic = new(k).topic /\ a[k].entity = new(k).entity
  <2> TAKE k \in 1 .. n
  <2>1. a[k] \in S
    BY <1>4
  <2>2. LowestType(a[k].types) \in a[k].types
    BY <2>1, LowestIsIn DEF Candidates
  <2> QED
    BY <2>1, <2>2, ItemsOfAre
<1>8. o \in Seq(ItemsOf(S)) /\ Len(o) = n /\ \A k \in 1 .. n : o[k] = new(k)
  <2> HIDE DEF new
  <2> QED
    BY <1>4, <1>7
<1> HIDE DEF o, new
<1>9. Single(o)
  <2> SUFFICES ASSUME NEW j \in 1 .. n, NEW k \in 1 .. n, o[j].id = o[k].id PROVE j = k
    BY <1>8 DEF Single
  <2>1. a[j].id = a[k].id /\ a[j] \in S /\ a[k] \in S
    BY <1>4, <1>7, <1>8
  <2>2. a[j] = a[k]
    BY <2>1 DEF Candidates, Named
  <2> QED
    BY <1>5, <2>2
<1>10. IsAllowed(o, state)
  <2>1. Len(a) = Len(o) /\ \A k \in 1 .. Len(a) : a[k].topic = o[k].topic /\ a[k].entity = o[k].entity
    BY <1>4, <1>7, <1>8
  <2> QED
    BY <1>4, <1>6, <1>8, <2>1, AllowedAlike
<1>11. Len(o) <= BatchSize /\ Len(a) <= BatchSize /\ Len(a) <= Cardinality(S)
  BY <1>1, <1>2, <1>3, <1>4, <1>8
<1>12. o \in AllowedUpTo(S, state, BatchSize)
  BY <1>8, <1>9, <1>10, <1>11 DEF AllowedUpTo, Allowed, Picks
<1> QED
  BY <1>4, <1>6, <1>11, <1>12 DEF o, new

\* Of one topic only, an order is over when two of it came in a row.
LEMMA RoomOfTopic ==
    ASSUME NEW E, NEW o \in Seq(E), NEW state, IsState(state), IsAllowed(o, state),
           NEW v, v # Null, \A k \in 1 .. Len(o) : o[k].topic = v
    PROVE  Len(o) <= IF state.topic # v THEN 2 ELSE IF state.topicRun >= 2 THEN 0
                     ELSE 2 - state.topicRun
<1> DEFINE n == Len(o)
           b == IF state.topic = v THEN state.topicRun ELSE 0
           counted == Runs(o, state)
<1>1. n \in Nat /\ DOMAIN o = 1 .. n /\ b \in Nat
  BY DEF IsState
<1>2. counted[0] = state /\ \A k \in 1 .. n : counted[k] = AdvanceRun(o[k], counted[k - 1])
  BY RunsAre
<1>3. \A k \in 1 .. n : CanAppend(o[k], counted[k - 1])
  BY <1>1 DEF IsAllowed
<1> HIDE DEF counted
<1>4. \A k \in 1 .. n : counted[k].topicRun <= 2
  BY <1>2, <1>3 DEF CanAppend
<1>5. \A k \in 1 .. n : /\ counted[k].topic = v
                        /\ counted[k].topicRun = RunOf(v, counted[k - 1].topic, counted[k - 1].topicRun)
  <2> TAKE k \in 1 .. n
  <2>1. counted[k] = AdvanceRun(o[k], counted[k - 1]) /\ o[k].topic = v
    BY <1>2
  <2>2. \A x, s : /\ AdvanceRun(x, s).topic = x.topic
                  /\ AdvanceRun(x, s).topicRun = RunOf(x.topic, s.topic, s.topicRun)
    BY DEF AdvanceRun
  <2> QED
    BY <2>1, <2>2
<1>6. n >= 1 => counted[1].topicRun = b + 1
  <2> SUFFICES ASSUME n >= 1 PROVE counted[1].topicRun = b + 1
    OBVIOUS
  <2>1. 1 \in 1 .. n /\ 1 - 1 = 0
    BY <1>1
  <2>2. counted[1].topicRun = RunOf(v, state.topic, state.topicRun)
    BY <1>2, <1>5, <2>1
  <2>3. CASE state.topic = v
    BY <2>2, <2>3 DEF RunOf
  <2>4. CASE state.topic # v
    BY <2>2, <2>4 DEF RunOf
  <2> QED
    BY <2>3, <2>4
<1>7. n >= 2 => counted[2].topicRun = b + 2
  <2> SUFFICES ASSUME n >= 2 PROVE counted[2].topicRun = b + 2
    OBVIOUS
  <2>1. 1 \in 1 .. n /\ 2 \in 1 .. n /\ 2 - 1 = 1
    BY <1>1
  <2>2. counted[2].topicRun = RunOf(v, counted[1].topic, counted[1].topicRun)
    BY <1>5, <2>1
  <2>3. counted[2].topicRun = (b + 1) + 1
    BY <1>5, <1>6, <2>1, <2>2 DEF RunOf
  <2> HIDE DEF b
  <2> QED
    BY <1>1, <2>3
<1>8. n >= 3 => counted[3].topicRun = b + 3
  <2> SUFFICES ASSUME n >= 3 PROVE counted[3].topicRun = b + 3
    OBVIOUS
  <2>1. 2 \in 1 .. n /\ 3 \in 1 .. n /\ 3 - 1 = 2 /\ n >= 2
    BY <1>1
  <2>2. counted[3].topicRun = RunOf(v, counted[2].topic, counted[2].topicRun)
    BY <1>5, <2>1
  <2>3. counted[3].topicRun = (b + 2) + 1
    BY <1>5, <1>7, <2>1, <2>2 DEF RunOf
  <2> HIDE DEF b
  <2> QED
    BY <1>1, <2>3
<1> HIDE DEF b, n
<1>9. n = 0 \/ n + b <= 2
  <2>1. CASE n >= 3
    BY <1>1, <1>4, <1>8, <2>1, 3 \in 1 .. n
  <2>2. CASE n = 2
    BY <1>1, <1>4, <1>7, <2>2, 2 \in 1 .. n
  <2>3. CASE n = 1
    BY <1>1, <1>4, <1>6, <2>3, 1 \in 1 .. n
  <2> QED
    BY <1>1, <2>1, <2>2, <2>3
<1>10. CASE state.topic # v
  <2>1. b = 0
    BY <1>10 DEF b
  <2>2. n <= 2
    BY <1>1, <1>9, <2>1
  <2> QED
    BY <1>10, <2>2 DEF n
<1>11. CASE state.topic = v
  <2>1. b = state.topicRun
    BY <1>11 DEF b
  <2>2. CASE b >= 2
    <3>1. n <= 0
      BY <1>1, <1>9, <2>2
    <3> QED
      BY <1>11, <2>1, <2>2, <3>1 DEF n
  <2>3. CASE ~(b >= 2)
    <3>1. n <= 2 - b
      BY <1>1, <1>9, <2>3
    <3> QED
      BY <1>11, <2>1, <2>3, <3>1 DEF n
  <2> QED
    BY <2>2, <2>3
<1> QED
  BY <1>10, <1>11

\* Of one entity only, an order is over when two of it came in a row.
LEMMA RoomOfEntity ==
    ASSUME NEW E, NEW o \in Seq(E), NEW state, IsState(state), IsAllowed(o, state),
           NEW v, v # Null, \A k \in 1 .. Len(o) : o[k].entity = v
    PROVE  Len(o) <= IF state.entity # v THEN 2 ELSE IF state.entityRun >= 2 THEN 0
                     ELSE 2 - state.entityRun
<1> DEFINE n == Len(o)
           b == IF state.entity = v THEN state.entityRun ELSE 0
           counted == Runs(o, state)
<1>1. n \in Nat /\ DOMAIN o = 1 .. n /\ b \in Nat
  BY DEF IsState
<1>2. counted[0] = state /\ \A k \in 1 .. n : counted[k] = AdvanceRun(o[k], counted[k - 1])
  BY RunsAre
<1>3. \A k \in 1 .. n : CanAppend(o[k], counted[k - 1])
  BY <1>1 DEF IsAllowed
<1> HIDE DEF counted
<1>4. \A k \in 1 .. n : counted[k].entityRun <= 2
  BY <1>2, <1>3 DEF CanAppend
<1>5. \A k \in 1 .. n : /\ counted[k].entity = v
                        /\ counted[k].entityRun = RunOf(v, counted[k - 1].entity, counted[k - 1].entityRun)
  <2> TAKE k \in 1 .. n
  <2>1. counted[k] = AdvanceRun(o[k], counted[k - 1]) /\ o[k].entity = v
    BY <1>2
  <2>2. \A x, s : /\ AdvanceRun(x, s).entity = x.entity
                  /\ AdvanceRun(x, s).entityRun = RunOf(x.entity, s.entity, s.entityRun)
    BY DEF AdvanceRun
  <2> QED
    BY <2>1, <2>2
<1>6. n >= 1 => counted[1].entityRun = b + 1
  <2> SUFFICES ASSUME n >= 1 PROVE counted[1].entityRun = b + 1
    OBVIOUS
  <2>1. 1 \in 1 .. n /\ 1 - 1 = 0
    BY <1>1
  <2>2. counted[1].entityRun = RunOf(v, state.entity, state.entityRun)
    BY <1>2, <1>5, <2>1
  <2>3. CASE state.entity = v
    BY <2>2, <2>3 DEF RunOf
  <2>4. CASE state.entity # v
    BY <2>2, <2>4 DEF RunOf
  <2> QED
    BY <2>3, <2>4
<1>7. n >= 2 => counted[2].entityRun = b + 2
  <2> SUFFICES ASSUME n >= 2 PROVE counted[2].entityRun = b + 2
    OBVIOUS
  <2>1. 1 \in 1 .. n /\ 2 \in 1 .. n /\ 2 - 1 = 1
    BY <1>1
  <2>2. counted[2].entityRun = RunOf(v, counted[1].entity, counted[1].entityRun)
    BY <1>5, <2>1
  <2>3. counted[2].entityRun = (b + 1) + 1
    BY <1>5, <1>6, <2>1, <2>2 DEF RunOf
  <2> HIDE DEF b
  <2> QED
    BY <1>1, <2>3
<1>8. n >= 3 => counted[3].entityRun = b + 3
  <2> SUFFICES ASSUME n >= 3 PROVE counted[3].entityRun = b + 3
    OBVIOUS
  <2>1. 2 \in 1 .. n /\ 3 \in 1 .. n /\ 3 - 1 = 2 /\ n >= 2
    BY <1>1
  <2>2. counted[3].entityRun = RunOf(v, counted[2].entity, counted[2].entityRun)
    BY <1>5, <2>1
  <2>3. counted[3].entityRun = (b + 2) + 1
    BY <1>5, <1>7, <2>1, <2>2 DEF RunOf
  <2> HIDE DEF b
  <2> QED
    BY <1>1, <2>3
<1> HIDE DEF b, n
<1>9. n = 0 \/ n + b <= 2
  <2>1. CASE n >= 3
    BY <1>1, <1>4, <1>8, <2>1, 3 \in 1 .. n
  <2>2. CASE n = 2
    BY <1>1, <1>4, <1>7, <2>2, 2 \in 1 .. n
  <2>3. CASE n = 1
    BY <1>1, <1>4, <1>6, <2>3, 1 \in 1 .. n
  <2> QED
    BY <1>1, <2>1, <2>2, <2>3
<1>10. CASE state.entity # v
  <2>1. b = 0
    BY <1>10 DEF b
  <2>2. n <= 2
    BY <1>1, <1>9, <2>1
  <2> QED
    BY <1>10, <2>2 DEF n
<1>11. CASE state.entity = v
  <2>1. b = state.entityRun
    BY <1>11 DEF b
  <2>2. CASE b >= 2
    <3>1. n <= 0
      BY <1>1, <1>9, <2>2
    <3> QED
      BY <1>11, <2>1, <2>2, <3>1 DEF n
  <2>3. CASE ~(b >= 2)
    <3>1. n <= 2 - b
      BY <1>1, <1>9, <2>3
    <3> QED
      BY <1>11, <2>1, <2>3, <3>1 DEF n
  <2> QED
    BY <2>2, <2>3
<1> QED
  BY <1>10, <1>11

\* When one topic, or one entity, leaves no more room, no order is longer.
LEMMA NoRoomLeft ==
    ASSUME NEW S, Candidates(S), NEW state, IsState(state), NEW items,
           ProvablyLimited(S, items, state), Len(items) \in Nat, NEW o \in Arrangements(S, state)
    PROVE  Len(o) <= Len(items)
<1>1. /\ o \in Seq(S) /\ Len(o) \in Nat /\ Len(o) <= BatchSize /\ Len(o) <= Cardinality(S)
      /\ IsAllowed(o, state)
  BY StoppedAre
<1>2. Cardinality(S) \in Nat /\ BatchSize \in Nat
  BY QuotasAre, FS_CardinalityType DEF Candidates, Named
<1>3. state.topicRun \in Nat /\ state.entityRun \in Nat
  BY DEF IsState
<1> DEFINE v == (CHOOSE c \in S : TRUE)["topic"]
           w == (CHOOSE c \in S : TRUE)["entity"]
           t == IF v = Null \/ \E c \in S : c["topic"] # v THEN BatchSize
                ELSE IF state["topic"] # v THEN 2
                ELSE IF state["topicRun"] >= 2 THEN 0 ELSE 2 - state["topicRun"]
           e == IF w = Null \/ \E c \in S : c["entity"] # w THEN BatchSize
                ELSE IF state["entity"] # w THEN 2
                ELSE IF state["entityRun"] >= 2 THEN 0 ELSE 2 - state["entityRun"]
<1>4. Len(items) >= Min({Cardinality(S), t, e})
  BY DEF ProvablyLimited
<1>5. t \in Nat /\ e \in Nat
  <2>1. t \in Nat
    <3> HIDE DEF v
    <3> QED
      BY <1>2, <1>3
  <2>2. e \in Nat
    <3> HIDE DEF w
    <3> QED
      BY <1>2, <1>3
  <2> QED
    BY <2>1, <2>2
<1>6. \A k \in 1 .. Len(o) : o[k] \in S
  BY <1>1
<1>7. Len(o) <= t
  <2> HIDE DEF v, e
  <2>1. CASE v = Null \/ \E c \in S : c["topic"] # v
    BY <1>1, <2>1
  <2>2. CASE ~(v = Null \/ \E c \in S : c["topic"] # v)
    <3>1. v # Null /\ \A k \in 1 .. Len(o) : o[k].topic = v
      BY <1>6, <2>2
    <3>2. Len(o) <= IF state.topic # v THEN 2 ELSE IF state.topicRun >= 2 THEN 0
                    ELSE 2 - state.topicRun
      BY <1>1, <3>1, RoomOfTopic
    <3> QED
      BY <2>2, <3>2
  <2> QED
    BY <2>1, <2>2
<1>8. Len(o) <= e
  <2> HIDE DEF w, t
  <2>1. CASE w = Null \/ \E c \in S : c["entity"] # w
    BY <1>1, <2>1
  <2>2. CASE ~(w = Null \/ \E c \in S : c["entity"] # w)
    <3>1. w # Null /\ \A k \in 1 .. Len(o) : o[k].entity = w
      BY <1>6, <2>2
    <3>2. Len(o) <= IF state.entity # w THEN 2 ELSE IF state.entityRun >= 2 THEN 0
                    ELSE 2 - state.entityRun
      BY <1>1, <3>1, RoomOfEntity
    <3> QED
      BY <2>2, <3>2
  <2> QED
    BY <2>1, <2>2
<1> HIDE DEF t, e
<1> DEFINE X == {Cardinality(S), t, e}
<1>9. Min(X) \in X
  <2>1. X \in SUBSET Nat /\ X # {}
    BY <1>2, <1>5
  <2> HIDE DEF X
  <2> QED
    BY <2>1, LeastIsIn
<1>10. \A x \in X : x \in Nat /\ Len(o) <= x
  BY <1>1, <1>2, <1>5, <1>7, <1>8
<1> DEFINE low == Min(X)
<1>11. low \in Nat /\ Len(o) <= low /\ Len(items) >= low
  BY <1>4, <1>9, <1>10
<1> HIDE DEF low
<1> QED
  BY <1>1, <1>11

\* A batch that is allowed and a verdict that is true.
GoodBatch(p, state, batch) ==
    LET S == Scored(p) IN
    /\ batch.items \in Allowed(S, state) /\ Len(batch.items) <= BatchSize
    /\ batch.continuation = "CONTINUE" <=> Len(batch.items) = BatchSize
    /\ batch.continuation = "EXHAUSTED" =>
          Len(p) <= CandidateBudget /\ Ids(batch.items) = {c.id : c \in S}

\* A verdict of version 2: where the runs are said to limit
\* the batch, no order is longer.
FinalBatch(S, state, batch) ==
    batch.continuation = "CONSTRAINT_LIMITED" =>
        \A o \in Arrangements(S, state) : Len(o) <= Len(batch.items)

\* A verdict of version 2.
LEMMA VerdictIs ==
    ASSUME NEW p, p \in Seq(Range(p)), NEW state, IsState(state),
           NEW items \in AllowedUpTo(Scored(p), state, BatchSize), NEW longest,
           longest = {} \/ longest = MaxRunLength(Scored(p), state) .. BatchSize
    PROVE  LET given == [items |-> items,
                          continuation |-> ContinuationV2(p, Scored(p), items, state, longest)]
           IN  GoodBatch(p, state, given) /\ FinalBatch(Scored(p), state, given)
<1> DEFINE S == Scored(p)
           x == ContinuationV2(p, S, items, state, longest)
           given == [items |-> items, continuation |-> x]
<1>1. Candidates(S) /\ Len(p) \in Nat
  BY ScoredAre
<1> HIDE DEF S
<1>2. items \in Allowed(S, state) /\ Len(items) <= BatchSize /\ items \in Picks(S)
  BY DEF AllowedUpTo, Allowed, S
<1>3. /\ Len(items) \in Nat /\ (Len(items) = Cardinality(S) => Ids(items) = {c.id : c \in S})
      /\ BatchSize \in Nat /\ CandidateBudget \in Nat
  BY <1>1, <1>2, PicksAre, QuotasAre, RecommendationAssumption
<1>4. x = IF Len(items) >= BatchSize THEN "CONTINUE"
          ELSE IF Len(p) > CandidateBudget THEN "SEARCH_LIMITED"
          ELSE IF Len(items) = Cardinality(S) THEN "EXHAUSTED"
          ELSE IF Len(items) \in longest \/ ProvablyLimited(S, items, state)
               THEN "CONSTRAINT_LIMITED"
          ELSE "SEARCH_LIMITED"
  BY DEF ContinuationV2
<1> HIDE DEF x
<1>5. x = "CONTINUE" <=> Len(items) = BatchSize
  BY <1>2, <1>3, <1>4
<1>6. ASSUME x = "EXHAUSTED"
      PROVE  Len(p) <= CandidateBudget /\ Ids(items) = {c.id : c \in S}
  <2>1. ~(Len(p) > CandidateBudget) /\ Len(items) = Cardinality(S)
    BY <1>4, <1>6
  <2> QED
    BY <1>1, <1>3, <2>1
<1>7. ASSUME x = "CONSTRAINT_LIMITED", NEW o \in Arrangements(S, state)
      PROVE  Len(o) <= Len(items)
  <2>1. Len(items) \in longest \/ ProvablyLimited(S, items, state)
    BY <1>4, <1>7
  <2>2. CASE Len(items) \in longest
    <3>1. Len(items) \in MaxRunLength(S, state) .. BatchSize
      BY <2>2 DEF S
    <3>2. MaxRunLength(S, state) \in Nat /\ Len(o) <= MaxRunLength(S, state)
      BY <1>1, LongestIs DEF Candidates
    <3>3. Len(o) \in Nat
      BY <1>1, StoppedAre
    <3> QED
      BY <1>3, <3>1, <3>2, <3>3
  <2>3. CASE ProvablyLimited(S, items, state)
    BY <1>1, <1>3, <2>3, NoRoomLeft
  <2> QED
    BY <2>1, <2>2, <2>3
<1>8. given.items = items /\ given.continuation = x
  OBVIOUS
<1> HIDE DEF given
<1>9. GoodBatch(p, state, given)
  BY <1>2, <1>5, <1>6, <1>8 DEF GoodBatch, S
<1>10. FinalBatch(S, state, given)
  BY <1>7, <1>8 DEF FinalBatch
<1> QED
  BY <1>9, <1>10 DEF given, x, S

\* The answers with an order found and those that are better.
LEMMA AnswersFromAre ==
    ASSUME NEW p, p \in Seq(Range(p)), NEW state, IsState(state), NEW short,
           NEW proven \in AllowedUpTo(Scored(p), state, BatchSize), NEW longest,
           longest = {} \/ longest = MaxRunLength(Scored(p), state) .. BatchSize,
           NEW given \in AnswersFrom(p, Scored(p), short, proven, longest, state)
    PROVE  GoodBatch(p, state, given) /\ FinalBatch(Scored(p), state, given)
<1> DEFINE S == Scored(p)
           new(a) == [k \in DOMAIN a |-> As(a[k], LowestType(a[k].types))]
           stopped == {new(a) : a \in Arrangements(S, state)}
           orders == IF short THEN {Alternatives(proven, S, state)}
                                     \cup {o \in stopped : Better(o, proven)}
                     ELSE {}
           verdict(o) == [items |-> o, continuation |-> ContinuationV2(p, S, o, state, longest)]
<1>1. Candidates(S)
  BY ScoredAre
<1>2. given \in {verdict(o) : o \in orders \cup {proven}}
  BY DEF AnswersFrom
<1>3. \A o \in stopped : o \in AllowedUpTo(S, state, BatchSize)
  BY <1>1, StoppedAre
<1>4. Alternatives(proven, S, state) \in AllowedUpTo(S, state, BatchSize)
  BY <1>1, ProposalsAre
<1> HIDE DEF stopped
<1>5. \A o \in orders \cup {proven} : o \in AllowedUpTo(S, state, BatchSize)
  BY <1>3, <1>4
<1> HIDE DEF orders
<1>6. PICK o \in orders \cup {proven} : given = verdict(o)
  <2> HIDE DEF verdict
  <2> QED
    BY <1>2
<1>7. o \in AllowedUpTo(S, state, BatchSize)
  BY <1>5
<1>8. GoodBatch(p, state, verdict(o)) /\ FinalBatch(S, state, verdict(o))
  BY <1>7, VerdictIs
<1> QED
  BY <1>6, <1>8

\* What version 2 answers, wherever the searches stop: items of candidates, each
\* once, as the runs allow; a full batch goes on, all candidates exhaust the feed,
\* and where the runs are said to limit it no order is longer.
LEMMA VersionTwoIs ==
    ASSUME NEW p, p \in Seq(Range(p)), NEW state, IsState(state),
           NEW given \in RecommendFeedV2(p, state)
    PROVE  GoodBatch(p, state, given) /\ FinalBatch(Scored(p), state, given)
<1> DEFINE S == Scored(p)
           X == AllowedUpTo(S, state, BatchSize)
           seed == SelectByTarget(S)
           slice == {c \in S : c.id \in Ids(seed)}
           fromSeed == GreedyOrder(slice, seed, state)
           fromAll == GreedyOrder(S, seed, state)
           greedy == BetterOf(fromAll, fromSeed)
           short == Len(fromSeed) < BatchSize /\ Len(fromAll) < BatchSize
           longest == MaxRunLength(S, state)
           proven == ProvenOrder(S, seed, state)
           found == IF Len(greedy) < longest THEN BetterOf(proven, greedy) ELSE greedy
<1>1. Candidates(S)
  BY ScoredAre
<1>2. given \in AnswersAfter(p, S, seed, short, greedy, state)
  BY DEF RecommendFeedV2, AnswersOf
<1>0. \A a, b : BetterOf(a, b) = a \/ BetterOf(a, b) = b
  BY DEF BetterOf
<1> HIDE DEF S
<1>3. seed \in Picks(S)
  BY <1>1, SelectionIs
<1> HIDE DEF seed
<1>4. slice \in SUBSET S /\ S \in SUBSET S
  OBVIOUS
<1> HIDE DEF slice
<1>5. fromSeed \in X /\ fromAll \in X
  BY <1>1, <1>3, <1>4, GreedyIs
<1> HIDE DEF fromSeed, fromAll
<1>6. greedy \in X
  BY <1>0, <1>5
<1> HIDE DEF greedy, short
<1>7. CASE ~Provable(p, S, greedy)
  <2>1. given \in AnswersFrom(p, S, short, greedy, {}, state)
    BY <1>2, <1>7 DEF AnswersAfter
  <2> QED
    BY <1>6, <2>1, AnswersFromAre DEF S
<1>8. CASE Provable(p, S, greedy)
  <2>1. longest \in Nat /\ Cardinality(S) \in Nat /\ Cardinality(S) <= BatchSize /\ BatchSize \in Nat
    BY <1>1, <1>8, LongestIs, QuotasAre, FS_CardinalityType DEF Provable, Candidates, Named
  <2>2. proven \in X
    <3>1. proven \in Allowed(S, state)
      BY <1>1, <1>3, ProvenIs
    <3>2. Len(proven) \in Nat /\ Len(proven) <= Cardinality(S)
      BY <1>1, <3>1, PicksAre DEF Allowed
    <3>3. Len(proven) <= BatchSize
      BY <2>1, <3>2
    <3> QED
      BY <3>1, <3>3 DEF AllowedUpTo
  <2> HIDE DEF proven
  <2>3. found \in X
    BY <1>0, <1>6, <2>2
  <2>4. \/ given \in AnswersFrom(p, S, short, found, longest .. BatchSize, state)
        \/ given = [items |-> greedy, continuation |-> ContinuationV2(p, S, greedy, state, {})]
    BY <1>2, <1>8 DEF AnswersAfter, proven
  <2> HIDE DEF found
  <2>5. CASE given \in AnswersFrom(p, S, short, found, longest .. BatchSize, state)
    BY <2>3, <2>5, AnswersFromAre DEF S
  <2>6. CASE given = [items |-> greedy, continuation |-> ContinuationV2(p, S, greedy, state, {})]
    BY <1>6, <2>6, VerdictIs DEF S
  <2> QED
    BY <2>4, <2>5, <2>6
<1> QED
  BY <1>7, <1>8

-----------------------------------------------------------------------------
(* The recommendation.                                                     *)

\* The inductive invariant: a batch was made of the pool and the state read.
RecommendationInv ==
    /\ pool \in Pools /\ previous \in Before
    /\ output.version # "none" => GoodBatch(pool, previous, output.batch)
    /\ output.version = "v2" => FinalBatch(Scored(pool), previous, output.batch)

\* Before the first batch there is nothing to say.
LEMMA InitialRecommendation == RecommendationInit => RecommendationInv
  BY DEF RecommendationInit, RecommendationInv

\* Both versions answer with good batches only.
LEMMA RecommendationKeeps ==
    RecommendationInv /\ [RecommendationNext]_recommendationVars => RecommendationInv'
<1> SUFFICES ASSUME RecommendationInv, [RecommendationNext]_recommendationVars
             PROVE  RecommendationInv'
  OBVIOUS
<1>1. pool \in Pools /\ previous \in Before /\ pool \in Seq(Range(pool)) /\ IsState(previous)
  BY RecommendationAssumption DEF RecommendationInv, IsState
<1>2. CASE UNCHANGED recommendationVars
  BY <1>2 DEF RecommendationInv, recommendationVars, GoodBatch, FinalBatch
<1>3. CASE RecommendV1
  <2>1. /\ pool' = pool /\ previous' = previous
        /\ output'.version = "v1" /\ output'.batch = RecommendFeedV1(pool, previous)
    BY <1>3 DEF RecommendV1
  <2>2. GoodBatch(pool, previous, RecommendFeedV1(pool, previous))
    BY <1>1, VersionOneIs DEF GoodBatch
  <2> QED
    BY <1>1, <2>1, <2>2 DEF RecommendationInv
<1>4. CASE RecommendV2
  <2>1. PICK given \in RecommendFeedV2(pool, previous) : output' = [version |-> "v2", batch |-> given]
    BY <1>4 DEF RecommendV2
  <2>2. /\ pool' = pool /\ previous' = previous
        /\ output'.version = "v2" /\ output'.batch = given
    BY <1>4, <2>1 DEF RecommendV2
  <2>3. GoodBatch(pool, previous, given) /\ FinalBatch(Scored(pool), previous, given)
    BY <1>1, VersionTwoIs
  <2> QED
    BY <1>1, <2>2, <2>3 DEF RecommendationInv
<1> QED
  BY <1>2, <1>3, <1>4 DEF RecommendationNext

\* Good batches and the fullest selection are what is promised.
LEMMA RecommendationIsSound == RecommendationInv => RecommendationSound
<1> SUFFICES ASSUME RecommendationInv, output.version # "none"
             PROVE  LET S == Scored(pool) IN
                    FillsMost(S) /\ BatchIsAllowed(S, output.batch.items) /\ VerdictIsTrue(S, output.batch)
  BY DEF RecommendationSound
<1> DEFINE S == Scored(pool)
           items == output.batch.items
<1>1. pool \in Seq(Range(pool)) /\ IsState(previous)
  BY RecommendationAssumption DEF RecommendationInv, IsState
<1>2. Candidates(S)
  BY <1>1, ScoredAre
<1>3. FillsMost(S)
  BY <1>2, SelectionFillsMost
<1>4. GoodBatch(pool, previous, output.batch)
  BY DEF RecommendationInv
<1>5. items \in Picks(S) /\ IsAllowed(items, previous) /\ Len(items) <= BatchSize
  BY <1>4 DEF GoodBatch, Allowed
<1>6. DOMAIN items = 1 .. Len(items)
  BY <1>5 DEF Picks
<1> HIDE DEF S, items
<1>7. BatchIsAllowed(S, items)
  BY <1>2, <1>5, <1>6, PicksAre DEF BatchIsAllowed
<1>8. VerdictIsTrue(S, output.batch)
  <2>1. output.version = "v2" => FinalBatch(S, previous, output.batch)
    BY DEF RecommendationInv, S
  <2> QED
    BY <1>4, <2>1 DEF VerdictIsTrue, GoodBatch, FinalBatch, S
<1> QED
  BY <1>3, <1>7, <1>8 DEF S, items

\* For every pool, every state and every quota: whatever version made a batch and
\* wherever its searches stopped, the selection fills as many of the wanted places
\* as any could, the batch is of candidates, each once, as a type it is of and with
\* no third in a row, and what is said of what is left is true (recommendFeed,
\* recommendFeedV2).
THEOREM RecommendationSoundCorrect == RecommendationSpec => []RecommendationSound
<1>1. RecommendationSpec => []RecommendationInv
  BY InitialRecommendation, RecommendationKeeps, PTL DEF RecommendationSpec
<1> QED
  BY <1>1, RecommendationIsSound, PTL

-----------------------------------------------------------------------------
(* All the services.                                                       *)

\* The invariant of the part that runs.
ReadsInv ==
    /\ part = "pool" => PoolInv
    /\ part = "recommendation" => RecommendationInv
    /\ part = "likes" => LikesInv
    /\ part = "content" => ContentInv

\* It holds at the start, whichever part was chosen.
LEMMA ReadsStart == ASSUME Init PROVE ReadsInv
<1>1. /\ part = "pool" => PoolInit
      /\ part = "recommendation" => RecommendationInit
      /\ LikesInit /\ ContentInit
  BY DEF Init
<1>2. QED
  BY <1>1, PoolInvInit, InitialRecommendation, LikesInvInit, ContentStarts DEF ReadsInv

\* A step is one of the part that runs, or none of it.
LEMMA ReadsSteps ==
    ASSUME [Next]_servicesVars
    PROVE  /\ part' = part
           /\ part = "pool" => [PoolNext]_poolVars
           /\ part = "recommendation" => [RecommendationNext]_recommendationVars
           /\ part = "likes" => [LikesNext]_likesVars
           /\ part = "content" => [ContentNext]_contentVars
<1>1. CASE UNCHANGED servicesVars
  BY <1>1 DEF servicesVars
<1>2. CASE Next
  <2>1. CASE part \notin {"pool", "recommendation", "likes", "content"}
    <3>1. part' = part
      BY <1>2, <2>1 DEF Next
    <3>2. QED
      BY <2>1, <3>1
  <2>2. CASE part = "pool"
    BY <1>2, <2>2 DEF Next
  <2>3. CASE part = "recommendation"
    BY <1>2, <2>3 DEF Next
  <2>4. CASE part = "likes"
    BY <1>2, <2>4 DEF Next
  <2>5. CASE part = "content"
    BY <1>2, <2>5 DEF Next
  <2>6. QED
    BY <2>1, <2>2, <2>3, <2>4, <2>5
<1>3. QED
  BY <1>1, <1>2

\* So each step keeps the invariant of the part that runs.
LEMMA ReadsKeep == ASSUME ReadsInv, [Next]_servicesVars PROVE ReadsInv'
<1>1. /\ part' = part
      /\ part = "pool" => [PoolNext]_poolVars
      /\ part = "recommendation" => [RecommendationNext]_recommendationVars
      /\ part = "likes" => [LikesNext]_likesVars
      /\ part = "content" => [ContentNext]_contentVars
  BY ReadsSteps
<1>2. part = "pool" => PoolInv'
  BY <1>1, PoolStep DEF ReadsInv
<1>3. part = "recommendation" => RecommendationInv'
  BY <1>1, RecommendationKeeps DEF ReadsInv
<1>4. part = "likes" => LikesInv'
  BY <1>1, LikesStep DEF ReadsInv
<1>5. part = "content" => ContentInv'
  BY <1>1, ContentStep DEF ReadsInv
<1>6. QED
  BY <1>1, <1>2, <1>3, <1>4, <1>5 DEF ReadsInv

\* Whatever is written between the queries of a read, its answer is sound: the pool
\* (findCandidateIssueIds), the batch from it (recommendFeedV2), the pages of liked
\* issues and what a report is made from and says.
THEOREM ReadsSoundCorrect == Spec => []ReadsSound
<1>1. Init => ReadsInv
  BY ReadsStart
<1>2. ReadsInv /\ [Next]_servicesVars => ReadsInv'
  BY ReadsKeep
<1>3. ReadsInv => ReadsSound
  BY PoolInvHolds, RecommendationIsSound, LikesInvHolds, ContentInvImplies
     DEF ReadsInv, ReadsSound
<1>4. QED
  BY <1>1, <1>2, <1>3, PTL DEF Spec
=============================================================================
