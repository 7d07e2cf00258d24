----------------------------- MODULE SetLemmas -----------------------------
(***************************************************************************)
(* What the proofs keep needing about sets of numbers, finite sets, sums,  *)
(* loops and recursive functions, and the library cannot give them: its    *)
(* induction theorems take an operator.  Here an induction is on the least *)
(* counterexample.                                                         *)
(***************************************************************************)
EXTENDS Integers, Sequences, FiniteSets, FiniteSetsExt, SequencesExt, Ranked,
        TLAPS, FiniteSetTheorems, SequenceTheorems

-----------------------------------------------------------------------------
(* Least and greatest elements.                                            *)

\* A set of numbers has a least element.
LEMMA LeastNumber ==
    ASSUME NEW T \in SUBSET Nat, T # {}
    PROVE  \E n \in T : \A m \in T : n <= m
<1>1. PICK n \in T : \A m \in T : ~ (<<m, n>> \in OpToRel(<, Nat))
  BY WFMin, NatLessThanWellFounded
<1>2. \A m \in T : m < n => <<m, n>> \in OpToRel(<, Nat)
  BY DEF OpToRel
<1>3. \A m \in T : n <= m
  <2> SUFFICES ASSUME NEW m \in T PROVE n <= m
    OBVIOUS
  <2>1. ~ (m < n)
    BY <1>1, <1>2
  <2>2. QED
    BY <2>1
<1>4. QED
  BY <1>3

\* So has Min.
LEMMA LeastIsIn ==
    ASSUME NEW S \in SUBSET Nat, S # {}
    PROVE  Min(S) \in S
<1>1. PICK u \in S : \A v \in S : ~ (<<v, u>> \in OpToRel(<, Nat))
  BY WFMin, NatLessThanWellFounded
<1>2. \A v \in S : u <= v
  <2> SUFFICES ASSUME NEW v \in S PROVE u <= v
    OBVIOUS
  <2>1. v < u => <<v, u>> \in OpToRel(<, Nat)
    BY DEF OpToRel
  <2>2. ~ (v < u)
    BY <1>1, <2>1
  <2>3. QED
    BY <2>2
<1>3. QED
  BY <1>2 DEF Min

\* A set of numbers that is bounded has a greatest element: the least bound.
LEMMA GreatestIsIn ==
    ASSUME NEW n \in Nat, NEW S \in SUBSET (0 .. n), S # {}
    PROVE  Max(S) \in S /\ \A y \in S : y <= Max(S)
<1> DEFINE bounds == {u \in Nat : \A s \in S : s <= u}
<1>1. n \in bounds
  OBVIOUS
<1>2. PICK u \in bounds : \A v \in bounds : ~ (<<v, u>> \in OpToRel(<, Nat))
  BY <1>1, WFMin, NatLessThanWellFounded
<1>3. \A v \in bounds : u <= v
  <2> SUFFICES ASSUME NEW v \in bounds PROVE u <= v
    OBVIOUS
  <2>1. v < u => <<v, u>> \in OpToRel(<, Nat)
    BY DEF OpToRel
  <2>2. ~ (v < u)
    BY <1>2, <2>1
  <2>3. QED
    BY <2>2
<1>4. u \in S
  <2> SUFFICES ASSUME u \notin S PROVE FALSE
    OBVIOUS
  <2>1. \A s \in S : s < u
    OBVIOUS
  <2>2. u - 1 \in bounds
    <3>1. u > 0 /\ u - 1 \in Nat
      <4>1. PICK s \in S : TRUE
        OBVIOUS
      <4>2. s < u /\ s \in Nat /\ u \in Nat
        BY <2>1
      <4>3. QED
        BY <4>2
    <3>2. \A s \in S : s <= u - 1
      BY <2>1
    <3>3. QED
      BY <3>1, <3>2
  <2>3. QED
    BY <1>3, <2>2
<1>5. \A y \in S : u >= y
  OBVIOUS
<1>6. QED
  BY <1>4, <1>5 DEF Max

\* A greatest element is the greatest.
LEMMA GreatestIs ==
    ASSUME NEW S \in SUBSET Nat, NEW m \in S, \A y \in S : y <= m
    PROVE  Max(S) = m
<1>1. \A x \in S : (\A y \in S : x >= y) => x = m
  OBVIOUS
<1>2. \A y \in S : m >= y
  OBVIOUS
<1>3. QED
  BY <1>1, <1>2 DEF Max

-----------------------------------------------------------------------------
(* Sums over finite sets.                                                  *)

\* The recursion of MapThenSumSet: an element is taken out, the rest is summed.
OneOf(s) == CHOOSE x \in s : TRUE

SumsUp(g, f, S) ==
    g = [s \in SUBSET S |-> IF s = {} THEN 0 ELSE f[OneOf(s)] + g[s \ {OneOf(s)}]]

SumOver(f, S) == (CHOOSE g : SumsUp(g, f, S))[S]

\* What is taken out of a set leaves a smaller one.
LEMMA TakenOut ==
    ASSUME NEW S, IsFiniteSet(S), NEW x \in S
    PROVE  /\ IsFiniteSet(S \ {x}) /\ Cardinality(S \ {x}) \in Nat
           /\ Cardinality(S) \in Nat /\ Cardinality(S) = Cardinality(S \ {x}) + 1
<1>1. IsFiniteSet(S \ {x}) /\ Cardinality(S \ {x}) = Cardinality(S) - 1
  BY FS_RemoveElement
<1>2. Cardinality(S \ {x}) \in Nat /\ Cardinality(S) \in Nat
  BY <1>1, FS_CardinalityType
<1>3. QED
  BY <1>1, <1>2

\* The element taken first out of a set is one of it.
LEMMA TakenIsIn == ASSUME NEW s, s # {} PROVE OneOf(s) \in s
BY DEF OneOf

\* The recursion has a solution: by the size of the sets.
LEMMA SumExists ==
    ASSUME NEW S, IsFiniteSet(S), NEW f, \A x \in S : f[x] \in Int
    PROVE  \E g : SumsUp(g, f, S) /\ g \in [SUBSET S -> Int]
<1> DEFINE Level(n) == {s \in SUBSET S : Cardinality(s) <= n}
           Solves(n, g) == /\ g \in [Level(n) -> Int]
                           /\ \A s \in Level(n) :
                                 g[s] = IF s = {} THEN 0 ELSE f[OneOf(s)] + g[s \ {OneOf(s)}]
           bad == {n \in Nat : ~ \E g : Solves(n, g)}
<1>1. \A s \in SUBSET S : IsFiniteSet(s) /\ Cardinality(s) \in Nat
  BY FS_Subset, FS_CardinalityType
<1>2. \A s \in SUBSET S : s # {} =>
          /\ OneOf(s) \in S /\ s \ {OneOf(s)} \in SUBSET S
          /\ Cardinality(s) = Cardinality(s \ {OneOf(s)}) + 1
  BY <1>1, TakenIsIn, TakenOut
<1>3. bad = {}
  <2> SUFFICES ASSUME bad # {} PROVE FALSE
    OBVIOUS
  <2>1. PICK n \in bad : \A m \in bad : n <= m
    BY LeastNumber
  <2>2. CASE n = 0
    <3>1. \A s \in Level(0) : s = {}
      <4> SUFFICES ASSUME NEW s \in SUBSET S, Cardinality(s) <= 0, s # {} PROVE FALSE
        OBVIOUS
      <4>1. PICK n1 \in Nat : Cardinality(s) = n1 + 1
        BY <1>1, <1>2
      <4>2. QED
        BY <4>1
    <3>2. Solves(0, [s \in Level(0) |-> 0])
      BY <3>1
    <3>3. QED
      BY <2>1, <2>2, <3>2
  <2>3. CASE n # 0
    <3>1. n - 1 \in Nat /\ n - 1 \notin bad
      <4>1. n - 1 \in Nat /\ ~ (n <= n - 1)
        BY <2>3
      <4>2. QED
        BY <2>1, <4>1
    <3>2. PICK g : Solves(n - 1, g)
      BY <3>1
    <3> DEFINE value(s) == IF s = {} THEN 0 ELSE f[OneOf(s)] + g[s \ {OneOf(s)}]
               h == [s \in Level(n) |-> value(s)]
    <3>3. \A s \in Level(n) : s # {} => s \ {OneOf(s)} \in Level(n - 1) /\ s \ {OneOf(s)} \in Level(n)
      BY <1>1, <1>2, <3>1
    <3>4. \A s \in Level(n) : value(s) \in Int
      BY <1>2, <3>2, <3>3
    <3>5. \A s \in Level(n - 1) : s \in Level(n) /\ h[s] = g[s]
      BY <1>1, <3>1, <3>2
    <3>6. \A s \in Level(n) : h[s] = IF s = {} THEN 0 ELSE f[OneOf(s)] + h[s \ {OneOf(s)}]
      BY <3>3, <3>5
    <3>7. Solves(n, h)
      BY <3>4, <3>6
    <3>8. QED
      BY <2>1, <3>7
  <2>4. QED
    BY <2>2, <2>3
<1>4. Cardinality(S) \in Nat
  BY <1>1
<1>5. PICK g : Solves(Cardinality(S), g)
  BY <1>3, <1>4
<1>6. Level(Cardinality(S)) = SUBSET S
  <2>1. \A s \in SUBSET S : Cardinality(s) <= Cardinality(S)
    BY FS_Subset
  <2>2. QED
    BY <2>1
<1>7. g \in [SUBSET S -> Int]
  BY <1>5, <1>6
<1>8. \A s \in SUBSET S : g[s] = IF s = {} THEN 0 ELSE f[OneOf(s)] + g[s \ {OneOf(s)}]
  BY <1>5, <1>6
<1>9. SumsUp(g, f, S)
  BY <1>7, <1>8 DEF SumsUp
<1>10. QED
  BY <1>7, <1>9

\* Two solutions agree where they sum the same values.
LEMMA SumAgrees ==
    ASSUME NEW S, NEW T, NEW R, R \subseteq S, R \subseteq T, IsFiniteSet(R), NEW f, NEW e,
           \A x \in R : f[x] = e[x], NEW g, NEW h, SumsUp(g, f, S), SumsUp(h, e, T)
    PROVE  g[R] = h[R]
<1> DEFINE bad == {n \in Nat : \E s \in SUBSET R : Cardinality(s) = n /\ g[s] # h[s]}
<1>1. \A s \in SUBSET R : IsFiniteSet(s) /\ Cardinality(s) \in Nat
  BY FS_Subset, FS_CardinalityType
<1>2. \A s \in SUBSET R :
          /\ g[s] = IF s = {} THEN 0 ELSE f[OneOf(s)] + g[s \ {OneOf(s)}]
          /\ h[s] = IF s = {} THEN 0 ELSE e[OneOf(s)] + h[s \ {OneOf(s)}]
  BY DEF SumsUp
<1>3. bad = {}
  <2> SUFFICES ASSUME bad # {} PROVE FALSE
    OBVIOUS
  <2>1. PICK n \in bad : \A m \in bad : n <= m
    BY LeastNumber
  <2>2. PICK s \in SUBSET R : Cardinality(s) = n /\ g[s] # h[s]
    BY <2>1
  <2>3. s # {}
    BY <1>2, <2>2
  <2> DEFINE rest == s \ {OneOf(s)}
  <2>4. OneOf(s) \in s /\ rest \in SUBSET R /\ Cardinality(s) = Cardinality(rest) + 1
    BY <1>1, <2>3, TakenIsIn, TakenOut
  <2>5. g[rest] = h[rest]
    <3>1. Cardinality(rest) \in Nat /\ Cardinality(rest) < n
      BY <1>1, <2>2, <2>4
    <3>2. Cardinality(rest) \notin bad
      <4>1. ~ (n <= Cardinality(rest))
        BY <3>1
      <4>2. QED
        BY <2>1, <4>1
    <3>3. QED
      BY <2>4, <3>1, <3>2
  <2>6. f[OneOf(s)] = e[OneOf(s)]
    BY <2>4
  <2>7. QED
    BY <1>2, <2>2, <2>3, <2>5, <2>6
<1>4. QED
  BY <1>1, <1>3

-----------------------------------------------------------------------------
(* What a sum is.                                                          *)

\* The sum over nothing is 0.
LEMMA SumEmpty == ASSUME NEW f PROVE SumOver(f, {}) = 0
<1>1. \E g : SumsUp(g, f, {})
  BY SumExists, FS_EmptySet
<1>2. PICK g : g = CHOOSE h : SumsUp(h, f, {})
  OBVIOUS
<1>3. SumsUp(g, f, {})
  BY <1>1, <1>2
<1>4. g[{}] = 0
  BY <1>3 DEF SumsUp
<1>5. QED
  BY <1>2, <1>4 DEF SumOver

\* A sum depends on the values that are summed, and on nothing else.
LEMMA SumSame ==
    ASSUME NEW S, IsFiniteSet(S), NEW f, NEW e, \A x \in S : f[x] \in Int /\ f[x] = e[x]
    PROVE  SumOver(f, S) = SumOver(e, S)
<1>1. PICK g : SumsUp(g, f, S) /\ g = CHOOSE u : SumsUp(u, f, S)
  BY SumExists
<1>2. PICK h : SumsUp(h, e, S) /\ h = CHOOSE u : SumsUp(u, e, S)
  <2>1. \A x \in S : e[x] \in Int
    OBVIOUS
  <2>2. QED
    BY <2>1, SumExists
<1>3. g[S] = h[S]
  <2>1. S \subseteq S /\ \A x \in S : f[x] = e[x]
    OBVIOUS
  <2>2. SumsUp(g, f, S) /\ SumsUp(h, e, S)
    BY <1>1, <1>2
  <2> HIDE <1>1, <1>2
  <2>3. QED
    BY <2>1, <2>2, SumAgrees
<1>4. QED
  BY <1>1, <1>2, <1>3 DEF SumOver

\* The sum over a set is that of the element that is taken out and the rest.
LEMMA SumTaken ==
    ASSUME NEW S, IsFiniteSet(S), S # {}, NEW f, \A x \in S : f[x] \in Int
    PROVE  /\ SumOver(f, S) = f[OneOf(S)] + SumOver(f, S \ {OneOf(S)})
           /\ SumOver(f, S) \in Int
<1> DEFINE R == S \ {OneOf(S)}
<1>1. PICK g : SumsUp(g, f, S) /\ g = CHOOSE u : SumsUp(u, f, S)
  BY SumExists
<1>2. IsFiniteSet(R) /\ \A x \in R : f[x] \in Int
  BY FS_Subset
<1>3. PICK h : SumsUp(h, f, R) /\ h = CHOOSE u : SumsUp(u, f, R)
  BY <1>2, SumExists
<1>4. g[R] = h[R]
  <2>1. R \subseteq S
    OBVIOUS
  <2> HIDE DEF R
  <2>2. QED
    BY <1>1, <1>2, <1>3, <2>1, SumAgrees
<1>5. g[S] = f[OneOf(S)] + g[R]
  BY <1>1 DEF SumsUp
<1>6. g[S] \in Int
  <2>1. PICK k : SumsUp(k, f, S) /\ k \in [SUBSET S -> Int]
    BY SumExists
  <2>2. g[S] = k[S]
    BY <1>1, <2>1, SumAgrees
  <2>3. QED
    BY <2>1, <2>2
<1>7. QED
  BY <1>1, <1>3, <1>4, <1>5, <1>6 DEF SumOver

\* A sum of integers over a finite set is an integer.
LEMMA SumIsInteger ==
    ASSUME NEW S, IsFiniteSet(S), NEW f, \A x \in S : f[x] \in Int
    PROVE  SumOver(f, S) \in Int
<1>1. CASE S = {}
  BY <1>1, SumEmpty
<1>2. CASE S # {}
  BY <1>2, SumTaken
<1>3. QED
  BY <1>1, <1>2

\* It does not matter which element is taken out first.
LEMMA SumRemove ==
    ASSUME NEW S, IsFiniteSet(S), NEW f, \A x \in S : f[x] \in Int, NEW y \in S
    PROVE  SumOver(f, S) = f[y] + SumOver(f, S \ {y})
<1> DEFINE Right(s) == \A z \in s : SumOver(f, s) = f[z] + SumOver(f, s \ {z})
           bad == {n \in Nat : \E s \in SUBSET S : Cardinality(s) = n /\ ~Right(s)}
<1>1. \A s \in SUBSET S : /\ IsFiniteSet(s) /\ Cardinality(s) \in Nat
                          /\ \A x \in s : f[x] \in Int
  BY FS_Subset, FS_CardinalityType
<1>2. bad = {}
  <2> SUFFICES ASSUME bad # {} PROVE FALSE
    OBVIOUS
  <2>1. PICK n \in bad : \A m \in bad : n <= m
    BY LeastNumber
  <2>2. PICK s \in SUBSET S : Cardinality(s) = n /\ ~Right(s)
    BY <2>1
  <2>3. PICK z \in s : SumOver(f, s) # f[z] + SumOver(f, s \ {z})
    BY <2>2
  <2> DEFINE x == OneOf(s)
  <2>4. x \in s /\ SumOver(f, s) = f[x] + SumOver(f, s \ {x})
    BY <1>1, <2>3, TakenIsIn, SumTaken
  <2>5. x # z
    BY <2>3, <2>4
  <2> HIDE DEF x
  <2>6. \A w \in s : /\ s \ {w} \in SUBSET S /\ Cardinality(s \ {w}) \in Nat
                     /\ Cardinality(s \ {w}) < n
    BY <1>1, <2>2, TakenOut
  <2>7. \A w \in s : Right(s \ {w})
    BY <2>1, <2>6
  <2>8. SumOver(f, s \ {x}) = f[z] + SumOver(f, (s \ {x}) \ {z})
    BY <2>4, <2>5, <2>7
  <2>9. SumOver(f, s \ {z}) = f[x] + SumOver(f, (s \ {z}) \ {x})
    BY <2>4, <2>5, <2>7
  <2>10. (s \ {x}) \ {z} = (s \ {z}) \ {x} /\ (s \ {x}) \ {z} \in SUBSET S
    OBVIOUS
  <2>11. SumOver(f, (s \ {x}) \ {z}) \in Int /\ f[x] \in Int /\ f[z] \in Int
    BY <1>1, <2>4, <2>10, SumIsInteger
  <2>12. QED
    BY <2>3, <2>4, <2>8, <2>9, <2>10, <2>11
<1>3. Right(S)
  BY <1>1, <1>2
<1>4. QED
  BY <1>3

\* One value changes, and the sum by as much.
LEMMA SumChanges ==
    ASSUME NEW S, IsFiniteSet(S), NEW f, NEW e, NEW y \in S,
           \A x \in S : f[x] \in Int /\ e[x] \in Int,
           \A x \in S \ {y} : f[x] = e[x]
    PROVE  SumOver(e, S) = SumOver(f, S) + (e[y] - f[y])
<1> DEFINE R == S \ {y}
<1>1. SumOver(f, S) = f[y] + SumOver(f, R) /\ SumOver(e, S) = e[y] + SumOver(e, R)
  BY SumRemove
<1>2. IsFiniteSet(R) /\ SumOver(f, R) = SumOver(e, R) /\ SumOver(f, R) \in Int
  BY FS_Subset, SumSame, SumIsInteger
<1>3. f[y] \in Int /\ e[y] \in Int
  OBVIOUS
<1> HIDE DEF R
<1>4. QED
  BY <1>1, <1>2, <1>3

\* A finite set is as large as the classes it falls into together.
Classes(g, P) == {g[e] : e \in P}
ClassSizes(g, P) == [c \in Classes(g, P) |-> Cardinality({e \in P : g[e] = c})]
LEMMA SumOfClasses ==
    ASSUME NEW P, IsFiniteSet(P), NEW g
    PROVE  SumOver(ClassSizes(g, P), Classes(g, P)) = Cardinality(P)
<1> DEFINE C == Classes(g, P)
           f == ClassSizes(g, P)
           With(D) == {e \in P : g[e] \in D}
           class(c) == {e \in P : g[e] = c}
           bad == {n \in Nat : \E D \in SUBSET C :
                      Cardinality(D) = n /\ SumOver(f, D) # Cardinality(With(D))}
<1>1. IsFiniteSet(C)
  <2> DEFINE h == [e \in P |-> g[e]]
  <2>1. h \in Surjection(P, C)
    BY DEF Surjection, Classes
  <2> HIDE DEF h, C
  <2>2. QED
    BY <2>1, FS_Surjection
<1>2. /\ \A D \in SUBSET C : IsFiniteSet(D) /\ Cardinality(D) \in Nat
      /\ \A D : IsFiniteSet(With(D)) /\ Cardinality(With(D)) \in Nat
      /\ \A c : IsFiniteSet(class(c)) /\ Cardinality(class(c)) \in Nat
  <2>1. \A D : With(D) \in SUBSET P
    OBVIOUS
  <2>2. \A c : class(c) \in SUBSET P
    OBVIOUS
  <2> HIDE DEF With, class
  <2>3. QED
    BY <1>1, <2>1, <2>2, FS_Subset, FS_CardinalityType
<1>3. \A c \in C : f[c] = Cardinality(class(c)) /\ f[c] \in Int
  <2>1. \A c \in C : f[c] = Cardinality(class(c))
    BY DEF ClassSizes
  <2> HIDE DEF class
  <2>2. QED
    BY <1>2, <2>1
<1> HIDE DEF C, f
<1>4. bad = {}
  <2> SUFFICES ASSUME bad # {} PROVE FALSE
    OBVIOUS
  <2>1. PICK n \in bad : \A m \in bad : n <= m
    BY LeastNumber
  <2>2. PICK D \in SUBSET C : Cardinality(D) = n /\ SumOver(f, D) # Cardinality(With(D))
    BY <2>1
  <2>3. D # {}
    <3>1. With({}) = {}
      OBVIOUS
    <3>2. QED
      BY <2>2, <3>1, SumEmpty, FS_EmptySet
  <2> DEFINE x == OneOf(D)
             R == D \ {x}
  <2>4. /\ x \in D /\ R \in SUBSET C /\ Cardinality(R) \in Nat /\ n \in Nat /\ Cardinality(R) < n
    BY <1>2, <2>2, <2>3, TakenIsIn, TakenOut
  <2>5. SumOver(f, D) = f[x] + SumOver(f, R)
    <3>1. \A c \in D : f[c] \in Int
      BY <1>3
    <3>2. QED
      BY <1>2, <2>3, <3>1, SumTaken
  <2> HIDE DEF x, R
  <2>6. SumOver(f, R) = Cardinality(With(R))
    <3>1. Cardinality(R) \notin bad
      <4>1. ~ (n <= Cardinality(R))
        BY <2>4
      <4>2. QED
        BY <2>1, <4>1
    <3>2. QED
      BY <2>4, <3>1
  <2>7. Cardinality(With(D)) = Cardinality(With(R)) + Cardinality(class(x))
    <3>1. With(D) = With(R) \cup class(x) /\ With(R) \cap class(x) = {}
      BY <2>4 DEF R
    <3>2. Cardinality({}) = 0
      BY FS_EmptySet
    <3> HIDE DEF With, class
    <3>3. Cardinality(With(R) \cup class(x))
             = Cardinality(With(R)) + Cardinality(class(x)) - Cardinality(With(R) \cap class(x))
      BY <1>2, FS_Union
    <3>4. /\ Cardinality(With(R)) \in Nat /\ Cardinality(class(x)) \in Nat
      BY <1>2
    <3>5. Cardinality(With(R) \cap class(x)) = 0
      BY <3>1, <3>2
    <3>6. Cardinality(With(D)) = Cardinality(With(R) \cup class(x))
      BY <3>1
    <3>7. QED
      BY <3>3, <3>4, <3>5, <3>6
  <2>8. f[x] = Cardinality(class(x))
    BY <1>3, <2>4
  <2> HIDE DEF With, class
  <2>9. Cardinality(With(R)) \in Nat /\ Cardinality(class(x)) \in Nat
    BY <1>2
  <2>10. QED
    BY <2>2, <2>5, <2>6, <2>7, <2>8, <2>9
<1>5. With(C) = P
  BY DEF C, Classes
<1>6. SumOver(f, C) = Cardinality(With(C))
  BY <1>2, <1>4
<1>7. QED
  BY <1>5, <1>6 DEF C, f

-----------------------------------------------------------------------------
(* Finite sets in order.  An order is a set of pairs, since a theorem that  *)
(* is cited can be given no operator.                                      *)

Orders(R, S) ==
    /\ \A x \in S : <<x, x>> \notin R
    /\ \A x, y, z \in S : <<x, y>> \in R /\ <<y, z>> \in R => <<x, z>> \in R
    /\ \A x, y \in S : x # y => <<x, y>> \in R \/ <<y, x>> \in R

Below(R, S, x) == {y \in S : <<y, x>> \in R}

\* Every element has its own number of elements below it, and every number occurs.
LEMMA Ranks ==
    ASSUME NEW S, IsFiniteSet(S), NEW R, Orders(R, S)
    PROVE  /\ Cardinality(S) \in Nat
           /\ \A x \in S : Cardinality(Below(R, S, x)) \in 0 .. (Cardinality(S) - 1)
           /\ \A x, y \in S : <<x, y>> \in R =>
                 Cardinality(Below(R, S, x)) < Cardinality(Below(R, S, y))
           /\ \A k \in 0 .. (Cardinality(S) - 1) :
                 \E x \in S : Cardinality(Below(R, S, x)) = k
<1> DEFINE rank == [x \in S |-> Cardinality(Below(R, S, x))]
           n == Cardinality(S)
<1>1. /\ n \in Nat
      /\ \A x \in S : /\ Below(R, S, x) \in SUBSET S /\ IsFiniteSet(Below(R, S, x))
                      /\ rank[x] \in Nat
  <2>1. \A x \in S : Below(R, S, x) \in SUBSET S
    BY DEF Below
  <2>2. QED
    BY <2>1, FS_Subset, FS_CardinalityType
<1>2. \A x, y \in S : <<x, y>> \in R => rank[x] < rank[y]
  <2> SUFFICES ASSUME NEW x \in S, NEW y \in S, <<x, y>> \in R
               PROVE  rank[x] < rank[y]
    OBVIOUS
  <2>1. /\ Below(R, S, x) \in SUBSET Below(R, S, y)
        /\ x \in Below(R, S, y) /\ x \notin Below(R, S, x)
    BY DEF Below, Orders
  <2>2. rank[x] <= rank[y] /\ rank[x] # rank[y]
    BY <1>1, <2>1, FS_Subset
  <2>3. QED
    BY <1>1, <2>2
<1>3. \A x \in S : rank[x] \in 0 .. (n - 1)
  <2> SUFFICES ASSUME NEW x \in S PROVE rank[x] \in 0 .. (n - 1)
    OBVIOUS
  <2>1. x \notin Below(R, S, x)
    BY DEF Below, Orders
  <2>2. rank[x] <= n /\ rank[x] # n
    BY <1>1, <2>1, FS_Subset
  <2>3. QED
    BY <1>1, <2>2
<1>4. rank \in Injection(S, 0 .. (n - 1))
  <2>1. \A x, y \in S : rank[x] = rank[y] => x = y
    <3> SUFFICES ASSUME NEW x \in S, NEW y \in S, rank[x] = rank[y], x # y
                 PROVE  FALSE
      OBVIOUS
    <3>1. <<x, y>> \in R \/ <<y, x>> \in R
      BY DEF Orders
    <3>2. rank[x] < rank[y] \/ rank[y] < rank[x]
      BY <1>2, <3>1
    <3>3. QED
      BY <1>1, <3>2
  <2>2. rank \in [S -> 0 .. (n - 1)]
    BY <1>3
  <2> HIDE DEF rank
  <2>3. QED
    BY <2>1, <2>2 DEF Injection, IsInjective
<1>5. rank \in Surjection(S, 0 .. (n - 1))
  <2>1. 0 \in Int /\ n - 1 \in Int
    BY <1>1
  <2>2. IsFiniteSet(0 .. (n - 1)) /\ Cardinality(0 .. (n - 1)) = n
    <3>1. Cardinality(0 .. (n - 1)) = IF 0 > n - 1 THEN 0 ELSE n - 1 - 0 + 1
      BY <2>1, FS_Interval
    <3>2. QED
      BY <1>1, <2>1, <3>1, FS_Interval
  <2> HIDE DEF rank, n
  <2>3. QED
    BY <1>4, <2>2, FS_Injection DEF n
<1>6. \A k \in 0 .. (n - 1) : \E x \in S : rank[x] = k
  BY <1>5 DEF Surjection
<1>7. QED
  BY <1>1, <1>2, <1>3, <1>6

AllNumbers(R, S) ==
    \A k \in 0 .. (Cardinality(S) - 1) : \E x \in S : Cardinality(Below(R, S, x)) = k
\* Every number below the size of the set is the number of elements below some
\* element: the fact of Ranks that selections by rank need.
LEMMA NumbersAreTaken ==
    ASSUME NEW S, IsFiniteSet(S), NEW R, Orders(R, S)
    PROVE  AllNumbers(R, S)
BY Ranks DEF AllNumbers

\* The first n of a finite set.
LEMMA FirstInOrder ==
    ASSUME NEW S, IsFiniteSet(S), NEW R, Orders(R, S),
           NEW n \in 0 .. Cardinality(S), NEW f,
           f = [k \in 1 .. n |-> f[k]],
           \A k \in 1 .. n : f[k] \in S /\ Cardinality(Below(R, S, f[k])) = k - 1
    PROVE  /\ \A j, k \in 1 .. n : j < k => <<f[j], f[k]>> \in R
           /\ \A j, k \in 1 .. n : f[j] = f[k] => j = k
           /\ \A x \in S : \/ \E k \in 1 .. n : f[k] = x
                           \/ \A k \in 1 .. n : <<f[k], x>> \in R
           /\ n = Cardinality(S) => \A x \in S : \E k \in 1 .. n : f[k] = x
<1> DEFINE rank(x) == Cardinality(Below(R, S, x))
<1>0. /\ Cardinality(S) \in Nat /\ n \in Nat
      /\ \A x \in S : rank(x) \in 0 .. (Cardinality(S) - 1)
      /\ \A x, y \in S : <<x, y>> \in R => rank(x) < rank(y)
  BY Ranks
<1> HIDE DEF rank
<1>1. \A k \in 1 .. n : f[k] \in S /\ rank(f[k]) = k - 1
  BY DEF rank
<1>2. \A x, y \in S : rank(x) < rank(y) => <<x, y>> \in R
  <2> SUFFICES ASSUME NEW x \in S, NEW y \in S, rank(x) < rank(y)
               PROVE  <<x, y>> \in R
    OBVIOUS
  <2>1. x # y /\ ~(rank(y) < rank(x))
    BY <1>0
  <2>2. QED
    BY <1>0, <2>1 DEF Orders
<1>3. \A x, y \in S : rank(x) = rank(y) => x = y
  <2> SUFFICES ASSUME NEW x \in S, NEW y \in S, rank(x) = rank(y), x # y
               PROVE  FALSE
    OBVIOUS
  <2>1. rank(x) < rank(y) \/ rank(y) < rank(x)
    BY <1>0 DEF Orders
  <2>2. QED
    BY <1>0, <2>1
<1>4. \A j, k \in 1 .. n : j < k => <<f[j], f[k]>> \in R
  <2> SUFFICES ASSUME NEW j \in 1 .. n, NEW k \in 1 .. n, j < k
               PROVE  <<f[j], f[k]>> \in R
    OBVIOUS
  <2>1. rank(f[j]) < rank(f[k])
    BY <1>0, <1>1
  <2>2. QED
    BY <1>1, <1>2, <2>1
<1>5. \A j, k \in 1 .. n : f[j] = f[k] => j = k
  <2> SUFFICES ASSUME NEW j \in 1 .. n, NEW k \in 1 .. n, f[j] = f[k]
               PROVE  j = k
    OBVIOUS
  <2>1. j - 1 = k - 1
    BY <1>1
  <2>2. QED
    BY <1>0, <2>1
<1>6. ASSUME NEW x \in S, rank(x) < n
      PROVE  \E k \in 1 .. n : f[k] = x
  <2>1. rank(x) + 1 \in 1 .. n
    BY <1>0, <1>6
  <2>2. rank(f[rank(x) + 1]) = rank(x) /\ f[rank(x) + 1] \in S
    BY <1>0, <1>1, <2>1
  <2>3. QED
    BY <1>3, <2>1, <2>2
<1>7. ASSUME NEW x \in S, ~(rank(x) < n), NEW k \in 1 .. n
      PROVE  <<f[k], x>> \in R
  <2>1. rank(f[k]) < rank(x)
    BY <1>0, <1>1, <1>7
  <2>2. QED
    BY <1>1, <1>2, <2>1
<1>8. n = Cardinality(S) => \A x \in S : rank(x) < n
  BY <1>0
<1>9. QED
  BY <1>4, <1>5, <1>6, <1>7, <1>8

\* Numbers in their order.
Smaller(S) == {p \in S \X S : p[1] < p[2]}
LEMMA NumbersOrdered ==
    ASSUME NEW S \in SUBSET Nat
    PROVE  /\ Orders(Smaller(S), S)
           /\ \A x \in S : Below(Smaller(S), S, x) = {y \in S : y < x}
           /\ \A x, y \in S : <<x, y>> \in Smaller(S) <=> x < y
<1>1. \A x, y \in S : <<x, y>> \in Smaller(S) <=> x < y
  BY DEF Smaller
<1>2. \A x \in S : Below(Smaller(S), S, x) = {y \in S : y < x}
  BY <1>1 DEF Below
<1>3. Orders(Smaller(S), S)
  <2>1. \A x \in S : <<x, x>> \notin Smaller(S)
    BY <1>1
  <2>2. \A x, y, z \in S :
          <<x, y>> \in Smaller(S) /\ <<y, z>> \in Smaller(S) => <<x, z>> \in Smaller(S)
    <3> SUFFICES ASSUME NEW x \in S, NEW y \in S, NEW z \in S, x < y, y < z
                 PROVE  x < z
      BY <1>1
    <3>1. QED
      OBVIOUS
  <2>3. \A x, y \in S : x # y => <<x, y>> \in Smaller(S) \/ <<y, x>> \in Smaller(S)
    <3> SUFFICES ASSUME NEW x \in S, NEW y \in S, x # y
                 PROVE  x < y \/ y < x
      BY <1>1
    <3>1. QED
      OBVIOUS
  <2>4. QED
    BY <2>1, <2>2, <2>3 DEF Orders
<1>4. QED
  BY <1>1, <1>2, <1>3

-----------------------------------------------------------------------------
(* Sequences by rank.                                                      *)

\* The lesser of two numbers.
LEMMA LesserOf ==
    ASSUME NEW x \in Nat, NEW y \in Nat
    PROVE  Min({x, y}) = IF x <= y THEN x ELSE y
<1>1. \E z \in {x, y} : \A v \in {x, y} : z <= v
  OBVIOUS
<1>2. Min({x, y}) \in {x, y} /\ \A v \in {x, y} : Min({x, y}) <= v
  BY <1>1 DEF Min
<1>3. QED
  BY <1>2

InTheirOrder(s, places) ==
    \E from \in [1 .. Cardinality(places) -> places] :
        /\ \A k \in 1 .. Cardinality(places) : Entries(s, places)[k] = s[from[k]]
        /\ \A j, k \in 1 .. Cardinality(places) : j < k => from[j] < from[k]
        /\ \A p \in places : \E k \in 1 .. Cardinality(places) : from[k] = p

\* What is kept of a sequence is in its order.
LEMMA EntriesAre ==
    ASSUME NEW E, NEW s \in Seq(E), NEW places \in SUBSET (1 .. Len(s))
    PROVE  /\ IsFiniteSet(places) /\ Cardinality(places) \in Nat
           /\ Cardinality(places) <= Len(s)
           /\ (\E p \in 1 .. Len(s) : p \notin places) => Cardinality(places) < Len(s)
           /\ Entries(s, places) \in Seq(E) /\ Len(Entries(s, places)) = Cardinality(places)
           /\ InTheirOrder(s, places)
<1> DEFINE n == Cardinality(places)
           number(p) == Cardinality({q \in places : q < p})
           from == [k \in 1 .. n |-> CHOOSE p \in places : number(p) = k - 1]
<1>1. /\ Len(s) \in Nat /\ IsFiniteSet(1 .. Len(s)) /\ Cardinality(1 .. Len(s)) = Len(s)
      /\ DOMAIN s = 1 .. Len(s) /\ s \in [1 .. Len(s) -> E]
  <2>1. Len(s) \in Nat /\ DOMAIN s = 1 .. Len(s) /\ s \in [1 .. Len(s) -> E]
    BY LenProperties
  <2> DEFINE l == Len(s)
  <2> HIDE DEF l
  <2>2. l \in Nat => IsFiniteSet(1 .. l) /\ Cardinality(1 .. l) = IF 1 > l THEN 0 ELSE l - 1 + 1
    BY FS_Interval
  <2>3. l \in Nat => IsFiniteSet(1 .. l) /\ Cardinality(1 .. l) = l
    BY <2>2
  <2>4. QED
    BY <2>1, <2>3 DEF l
<1>2. IsFiniteSet(places) /\ n \in Nat /\ n <= Len(s)
  <2>1. IsFiniteSet(places) /\ n <= Cardinality(1 .. Len(s))
    BY <1>1, FS_Subset
  <2>2. QED
    BY <1>1, <2>1, FS_CardinalityType
<1>3. (\E p \in 1 .. Len(s) : p \notin places) => n < Len(s)
  <2>1. n = Len(s) => places = 1 .. Len(s)
    BY <1>1, FS_Subset
  <2>2. QED
    BY <1>1, <1>2, <2>1
<1>4. places \in SUBSET Nat
  OBVIOUS
<1>5. /\ Orders(Smaller(places), places)
      /\ \A p \in places : Cardinality(Below(Smaller(places), places, p)) = number(p)
      /\ \A p, q \in places : <<p, q>> \in Smaller(places) <=> p < q
  BY <1>4, NumbersOrdered
<1>6. \A k \in 1 .. n : \E p \in places : number(p) = k - 1
  <2> SUFFICES ASSUME NEW k \in 1 .. n PROVE \E p \in places : number(p) = k - 1
    OBVIOUS
  <2>1. k - 1 \in 0 .. (n - 1)
    BY <1>2
  <2> HIDE DEF n, number
  <2>2. \E p \in places : Cardinality(Below(Smaller(places), places, p)) = k - 1
    <3>1. Orders(Smaller(places), places)
      BY <1>5
    <3>2. QED
      <4>1. AllNumbers(Smaller(places), places)
        BY <1>2, <3>1, NumbersAreTaken
      <4>2. \A i \in 0 .. (n - 1) :
              \E p \in places : Cardinality(Below(Smaller(places), places, p)) = i
        BY <4>1 DEF AllNumbers, n
      <4>3. QED
        BY <2>1, <4>2
  <2>3. QED
    BY <1>5, <2>2
<1>7. \A k \in 1 .. n : from[k] \in places /\ number(from[k]) = k - 1
  BY <1>6
<1>8. Entries(s, places) = [k \in 1 .. n |-> s[from[k]]]
  BY DEF Entries
<1> HIDE DEF number, from
<1>9. from \in [1 .. n -> places]
  BY <1>7 DEF from
<1>10. /\ \A j, k \in 1 .. n : j < k => from[j] < from[k]
       /\ \A p \in places : \E k \in 1 .. n : from[k] = p
  <2>1. \A k \in 1 .. n : /\ from[k] \in places
                          /\ Cardinality(Below(Smaller(places), places, from[k])) = k - 1
    BY <1>5, <1>7
  <2>2. n \in 0 .. Cardinality(places) /\ from = [k \in 1 .. n |-> from[k]]
    BY <1>2, <1>9
  <2> HIDE DEF n
  <2>3. /\ \A j, k \in 1 .. n : j < k => <<from[j], from[k]>> \in Smaller(places)
        /\ \A p \in places : \E k \in 1 .. n : from[k] = p
    <3>1. n = Cardinality(places)
      BY DEF n
    <3> DEFINE R == Smaller(places)
    <3>2. IsFiniteSet(places) /\ Orders(R, places)
      BY <1>2, <1>5
    <3>3. \A k \in 1 .. n : from[k] \in places /\ Cardinality(Below(R, places, from[k])) = k - 1
      BY <2>1
    <3> HIDE DEF R
    <3>4. /\ \A j, k \in 1 .. n : j < k => <<from[j], from[k]>> \in R
          /\ n = Cardinality(places) => \A p \in places : \E k \in 1 .. n : from[k] = p
      BY <2>2, <3>2, <3>3, FirstInOrder
    <3>5. QED
      BY <3>1, <3>4 DEF R
  <2>4. QED
    BY <1>5, <1>9, <2>3
<1>11. Entries(s, places) \in Seq(E) /\ Len(Entries(s, places)) = n
  <2>1. \A k \in 1 .. n : s[from[k]] \in E
    BY <1>1, <1>9
  <2> HIDE DEF n
  <2>2. [k \in 1 .. n |-> s[from[k]]] \in Seq(E)
    BY <1>2, <2>1, IsASeq
  <2>3. Len([k \in 1 .. n |-> s[from[k]]]) = n
    BY <1>2, <2>2, LenProperties
  <2>4. QED
    BY <1>8, <2>2, <2>3
<1>12. InTheirOrder(s, places)
  <2>1. \A k \in 1 .. n : Entries(s, places)[k] = s[from[k]]
    BY <1>8
  <2>2. QED
    BY <1>9, <1>10, <2>1 DEF InTheirOrder
<1>13. QED
  BY <1>2, <1>3, <1>11, <1>12

\* A finite set of numbers that has one has a greatest.
LEMMA GreatestOfFinite ==
    ASSUME NEW S \in SUBSET Nat, IsFiniteSet(S), S # {}
    PROVE  Max(S) \in S /\ \A y \in S : y <= Max(S)
<1> DEFINE R == Smaller(S)
<1>1. Orders(R, S) /\ \A x, y \in S : <<x, y>> \in R <=> x < y
  BY NumbersOrdered
<1>2. Cardinality(S) \in Nat /\ Cardinality(S) > 0
  BY FS_CardinalityType, FS_EmptySet
<1> HIDE DEF R
<1>3. PICK x \in S : Cardinality(Below(R, S, x)) = Cardinality(S) - 1
  <2>1. Cardinality(S) - 1 \in 0 .. (Cardinality(S) - 1)
    BY <1>2
  <2>2. AllNumbers(R, S)
    BY <1>1, NumbersAreTaken
  <2>3. QED
    BY <2>1, <2>2 DEF AllNumbers
<1>4. /\ \A y \in S : Cardinality(Below(R, S, y)) \in 0 .. (Cardinality(S) - 1)
      /\ \A u, v \in S : <<u, v>> \in R =>
            Cardinality(Below(R, S, u)) < Cardinality(Below(R, S, v))
  BY <1>1, Ranks
<1>5. \A y \in S : y <= x
  <2> SUFFICES ASSUME NEW y \in S, x < y PROVE FALSE
    OBVIOUS
  <2>1. Cardinality(Below(R, S, x)) < Cardinality(Below(R, S, y))
    BY <1>1, <1>4
  <2>2. Cardinality(Below(R, S, y)) \in 0 .. (Cardinality(S) - 1)
    BY <1>4
  <2>3. QED
    BY <1>2, <1>3, <2>1, <2>2
<1>6. Max(S) = x
  BY <1>5, GreatestIs
<1>7. QED
  BY <1>5, <1>6

\* The first n of a set in an order, by their ranks.
IsFirst(f, S, n, R) ==
    /\ f = [k \in 1 .. Min({n, Cardinality(S)}) |-> f[k]]
    /\ \A k \in 1 .. Min({n, Cardinality(S)}) :
          f[k] \in S /\ Cardinality(Below(R, S, f[k])) = k - 1

\* Each place of the first n is taken by an element.
LEMMA PlaceIsTaken ==
    ASSUME NEW S, IsFiniteSet(S), NEW R, Orders(R, S), NEW n \in Nat,
           NEW k \in 1 .. Min({n, Cardinality(S)})
    PROVE  \E x \in S : Cardinality(Below(R, S, x)) = k - 1
<1>1. Cardinality(S) \in Nat
  BY FS_CardinalityType
<1>2. Min({n, Cardinality(S)}) \in Nat /\ Min({n, Cardinality(S)}) <= Cardinality(S)
  BY <1>1, LesserOf
<1>3. k - 1 \in 0 .. (Cardinality(S) - 1)
  BY <1>1, <1>2
<1>4. AllNumbers(R, S)
  BY NumbersAreTaken
<1>5. QED
  BY <1>3, <1>4 DEF AllNumbers

\* Ranks tell the elements apart and follow the order.
LEMMA RankIsOrder ==
    ASSUME NEW S, IsFiniteSet(S), NEW R, Orders(R, S)
    PROVE  /\ \A x \in S : Cardinality(Below(R, S, x)) \in Nat
           /\ \A x, y \in S : Cardinality(Below(R, S, x)) = Cardinality(Below(R, S, y)) => x = y
           /\ \A x, y \in S :
                <<x, y>> \in R <=> Cardinality(Below(R, S, x)) < Cardinality(Below(R, S, y))
<1> DEFINE rank(x) == Cardinality(Below(R, S, x))
<1>1. /\ Cardinality(S) \in Nat
      /\ \A x \in S : rank(x) \in 0 .. (Cardinality(S) - 1)
      /\ \A x, y \in S : <<x, y>> \in R => rank(x) < rank(y)
  BY Ranks
<1> HIDE DEF rank
<1>2. \A x, y \in S : rank(x) < rank(y) => <<x, y>> \in R
  <2> SUFFICES ASSUME NEW x \in S, NEW y \in S, rank(x) < rank(y)
               PROVE  <<x, y>> \in R
    OBVIOUS
  <2>1. x # y /\ ~(rank(y) < rank(x))
    BY <1>1
  <2>2. QED
    BY <1>1, <2>1 DEF Orders
<1>3. \A x, y \in S : rank(x) = rank(y) => x = y
  <2> SUFFICES ASSUME NEW x \in S, NEW y \in S, rank(x) = rank(y), x # y
               PROVE  FALSE
    OBVIOUS
  <2>1. rank(x) < rank(y) \/ rank(y) < rank(x)
    BY <1>1 DEF Orders
  <2>2. QED
    BY <1>1, <2>1
<1>4. \A x \in S : rank(x) \in Nat
  BY <1>1
<1>5. QED
  BY <1>1, <1>2, <1>3, <1>4 DEF rank

\* The first n: a sequence without repetition, with all of lower rank than n.
LEMMA FirstFacts ==
    ASSUME NEW S, IsFiniteSet(S), NEW R, Orders(R, S), NEW n \in Nat,
           NEW f, IsFirst(f, S, n, R)
    PROVE  /\ f \in Seq(S) /\ Len(f) \in Nat /\ DOMAIN f = 1 .. Len(f)
           /\ Len(f) = IF n <= Cardinality(S) THEN n ELSE Cardinality(S)
           /\ \A k \in 1 .. Len(f) : f[k] \in S /\ Cardinality(Below(R, S, f[k])) = k - 1
           /\ \A j, k \in 1 .. Len(f) : f[j] = f[k] => j = k
           /\ \A x \in S : Cardinality(Below(R, S, x)) < n => \E k \in 1 .. Len(f) : f[k] = x
<1> DEFINE m == Min({n, Cardinality(S)})
<1>1. /\ Cardinality(S) \in Nat /\ m \in Nat
      /\ m = IF n <= Cardinality(S) THEN n ELSE Cardinality(S)
  BY FS_CardinalityType, LesserOf
<1>2. /\ f = [k \in 1 .. m |-> f[k]]
      /\ \A k \in 1 .. m : f[k] \in S /\ Cardinality(Below(R, S, f[k])) = k - 1
  BY DEF IsFirst
<1> HIDE DEF m
<1>3. [k \in 1 .. m |-> f[k]] \in Seq(S)
  <2>1. m \in Nat /\ \A k \in 1 .. m : f[k] \in S
    BY <1>1, <1>2
  <2>2. QED
    BY <2>1, IsASeq
<1>4. f \in Seq(S) /\ DOMAIN f = 1 .. m
  BY <1>2, <1>3
<1>5. Len(f) = m
  BY <1>1, <1>4, LenProperties
<1>6. /\ \A x \in S : Cardinality(Below(R, S, x)) \in 0 .. (Cardinality(S) - 1)
      /\ \A x, y \in S : Cardinality(Below(R, S, x)) = Cardinality(Below(R, S, y)) => x = y
  BY Ranks, RankIsOrder
<1>7. \A x \in S : Cardinality(Below(R, S, x)) < n => \E k \in 1 .. m : f[k] = x
  <2> SUFFICES ASSUME NEW x \in S, Cardinality(Below(R, S, x)) < n
               PROVE  \E k \in 1 .. m : f[k] = x
    OBVIOUS
  <2>1. PICK k \in 1 .. m : k - 1 = Cardinality(Below(R, S, x))
    <3>1. Cardinality(Below(R, S, x)) \in 0 .. (Cardinality(S) - 1)
      BY <1>6
    <3>2. Cardinality(Below(R, S, x)) + 1 \in 1 .. m
      BY <1>1, <3>1
    <3>3. QED
      BY <3>1, <3>2
  <2>2. f[k] = x
    BY <1>2, <1>6, <2>1
  <2>3. QED
    BY <2>2
<1>8. \A j, k \in 1 .. m : f[j] = f[k] => j = k
  <2> SUFFICES ASSUME NEW j \in 1 .. m, NEW k \in 1 .. m, f[j] = f[k] PROVE j = k
    OBVIOUS
  <2>1. j - 1 = k - 1
    BY <1>2
  <2>2. QED
    BY <1>1, <2>1
<1>9. QED
  BY <1>1, <1>2, <1>4, <1>5, <1>7, <1>8

\* The first n of a set are those of a part of it, in another order perhaps, if
\* the part has them all and nothing comes before them that did not.
LEMMA SameFirst ==
    ASSUME NEW S, IsFiniteSet(S), NEW R, Orders(R, S), NEW n \in Nat,
           NEW T \in SUBSET S, NEW U, Orders(U, T),
           \A x \in S : Cardinality(Below(R, S, x)) < n =>
               x \in T /\ Below(U, T, x) = Below(R, S, x),
           NEW f, IsFirst(f, S, n, R), NEW g, IsFirst(g, T, n, U)
    PROVE  f = g
<1>1. IsFiniteSet(T) /\ Cardinality(T) <= Cardinality(S)
  BY FS_Subset
<1>2. Cardinality(S) \in Nat /\ Cardinality(T) \in Nat
  BY <1>1, FS_CardinalityType
<1>3. /\ f \in Seq(S) /\ Len(f) \in Nat /\ DOMAIN f = 1 .. Len(f)
      /\ Len(f) = IF n <= Cardinality(S) THEN n ELSE Cardinality(S)
      /\ \A k \in 1 .. Len(f) : f[k] \in S /\ Cardinality(Below(R, S, f[k])) = k - 1
  BY FirstFacts
<1>4. /\ g \in Seq(T) /\ Len(g) \in Nat /\ DOMAIN g = 1 .. Len(g)
      /\ Len(g) = IF n <= Cardinality(T) THEN n ELSE Cardinality(T)
      /\ \A k \in 1 .. Len(g) : g[k] \in T /\ Cardinality(Below(U, T, g[k])) = k - 1
  BY <1>1, FirstFacts
<1>5. \A k \in 1 .. Len(f) : f[k] \in T /\ Cardinality(Below(U, T, f[k])) = k - 1
  BY <1>2, <1>3
<1>6. /\ \A x \in T : Cardinality(Below(U, T, x)) \in 0 .. (Cardinality(T) - 1)
      /\ \A x, y \in T : Cardinality(Below(U, T, x)) = Cardinality(Below(U, T, y)) => x = y
  BY <1>1, Ranks, RankIsOrder
<1>7. Len(f) <= Cardinality(T)
  <2>1. CASE Len(f) = 0
    BY <1>2, <2>1
  <2>2. CASE Len(f) # 0
    <3>1. Len(f) \in 1 .. Len(f)
      BY <1>3, <2>2
    <3>2. Len(f) - 1 \in 0 .. (Cardinality(T) - 1)
      BY <1>5, <1>6, <3>1
    <3>3. QED
      BY <1>2, <1>3, <3>2
  <2>3. QED
    BY <2>1, <2>2
<1>8. Len(f) = Len(g)
  BY <1>1, <1>2, <1>3, <1>4, <1>7
<1>9. \A k \in 1 .. Len(f) : f[k] = g[k]
  <2> SUFFICES ASSUME NEW k \in 1 .. Len(f) PROVE f[k] = g[k]
    OBVIOUS
  <2>1. f[k] \in T /\ g[k] \in T
    BY <1>4, <1>5, <1>8
  <2>2. Cardinality(Below(U, T, f[k])) = Cardinality(Below(U, T, g[k]))
    BY <1>4, <1>5, <1>8
  <2>3. QED
    BY <1>6, <2>1, <2>2
<1>10. f \in Seq(S) /\ g \in Seq(S)
  <2>1. \A k \in 1 .. Len(g) : g[k] \in S
    BY <1>4
  <2>2. g = [k \in 1 .. Len(g) |-> g[k]]
    BY <1>4, LenProperties
  <2>3. [k \in 1 .. Len(g) |-> g[k]] \in Seq(S)
    BY <1>4, <2>1, IsASeq
  <2>4. QED
    BY <1>3, <2>2, <2>3
<1>11. QED
  BY <1>8, <1>9, <1>10, SeqEqual

\* The image of a finite set is finite, and as large when nothing is mapped twice.
LEMMA ImageOf ==
    ASSUME NEW S, IsFiniteSet(S), NEW f
    PROVE  /\ IsFiniteSet({f[x] : x \in S})
           /\ Cardinality({f[x] : x \in S}) = Cardinality(S)
                <=> \A x, y \in S : f[x] = f[y] => x = y
<1> DEFINE T == {f[x] : x \in S}
           g == [x \in S |-> f[x]]
<1>1. g \in Surjection(S, T)
  BY DEF Surjection
<1>2. IsFiniteSet(T) /\ (Cardinality(T) = Cardinality(S) <=> g \in Injection(S, T))
  BY <1>1, FS_Surjection
<1>3. g \in Injection(S, T) <=> \A x, y \in S : f[x] = f[y] => x = y
  BY DEF Injection, IsInjective
<1>4. QED
  BY <1>2, <1>3

-----------------------------------------------------------------------------
(* Loops and recursive functions.                                          *)

\* What holds before a loop and is kept by each pass holds after each pass.
LEMMA LoopStays ==
    ASSUME NEW n \in Nat, NEW V, NEW after, after[0] \in V[0],
           \A k \in 1 .. n : after[k - 1] \in V[k - 1] => after[k] \in V[k]
    PROVE  \A k \in 0 .. n : after[k] \in V[k]
<1> DEFINE bad == {k \in 0 .. n : after[k] \notin V[k]}
<1> SUFFICES ASSUME bad # {} PROVE FALSE
  OBVIOUS
<1>1. bad \in SUBSET Nat
  OBVIOUS
<1>2. PICK k \in bad : \A m \in bad : k <= m
  BY <1>1, LeastNumber
<1>3. k # 0 /\ k \in 1 .. n /\ k - 1 \in 0 .. n /\ k - 1 \notin bad
  BY <1>2
<1> QED
  BY <1>2, <1>3

\* The states between the passes of a loop.
IsLoop(f, start, G, n) ==
    f = [k \in 0 .. n |-> IF k = 0 THEN start ELSE G[<<f[k - 1], k>>]]

\* A loop has a run: each pass starts from where the one before left off.
LEMMA LoopExists ==
    ASSUME NEW n \in Nat, NEW V, NEW start \in V[0], NEW G,
           \A k \in 1 .. n : \A v \in V[k - 1] : G[<<v, k>>] \in V[k]
    PROVE  \E f : IsLoop(f, start, G, n) /\ \A k \in 0 .. n : f[k] \in V[k]
<1> DEFINE Right(f, m) == IsLoop(f, start, G, m) /\ \A k \in 0 .. m : f[k] \in V[k]
           bad == {m \in 0 .. n : ~ \E f : Right(f, m)}
<1> SUFFICES ASSUME bad # {} PROVE FALSE
  OBVIOUS
<1>1. bad \in SUBSET Nat
  OBVIOUS
<1>2. PICK m \in bad : \A j \in bad : m <= j
  BY <1>1, LeastNumber
<1>3. m \in 0 .. n /\ ~ \E f : Right(f, m)
  BY <1>2
<1>4. Right([k \in 0 .. 0 |-> start], 0)
  BY DEF IsLoop
<1>5. m \in 1 .. n /\ m - 1 \in 0 .. n /\ m - 1 \notin bad
  BY <1>2, <1>3, <1>4
<1>6. PICK f : Right(f, m - 1)
  BY <1>5
<1> DEFINE g == [k \in 0 .. m |-> IF k = m THEN G[<<f[m - 1], m>>] ELSE f[k]]
<1>7. f[m - 1] \in V[m - 1] /\ G[<<f[m - 1], m>>] \in V[m]
  BY <1>5, <1>6
<1>8. \A k \in 0 .. (m - 1) : g[k] = f[k] /\ f[k] \in V[k]
                              /\ f[k] = IF k = 0 THEN start ELSE G[<<f[k - 1], k>>]
  BY <1>5, <1>6 DEF IsLoop
<1>9. \A k \in 0 .. m : g[k] \in V[k]
  <2> TAKE k \in 0 .. m
  <2>1. CASE k = m
    BY <2>1, <1>7
  <2>2. CASE k # m
    <3>1. k \in 0 .. (m - 1)
      BY <2>2, <1>5
    <3>2. g[k] = f[k] /\ f[k] \in V[k]
      BY <3>1, <1>8
    <3> QED
      BY <3>2
  <2> QED
    BY <2>1, <2>2
<1>10. \A k \in 0 .. m : g[k] = IF k = 0 THEN start ELSE G[<<g[k - 1], k>>]
  <2> TAKE k \in 0 .. m
  <2>1. CASE k = m
    <3>1. m # 0 /\ m - 1 \in 0 .. (m - 1) /\ m \in 0 .. m
      BY <1>5
    <3>2. g[m] = G[<<f[m - 1], m>>] /\ g[m - 1] = f[m - 1]
      BY <3>1, <1>8
    <3> HIDE DEF g
    <3> QED
      BY <2>1, <3>1, <3>2
  <2>2. CASE k # m
    <3>1. k \in 0 .. (m - 1) /\ (k # 0 => k - 1 \in 0 .. (m - 1))
      BY <2>2, <1>5
    <3> QED
      BY <3>1, <1>8
  <2> QED
    BY <2>1, <2>2
<1>11. IsLoop(g, start, G, m)
  <2>1. g = [k \in 0 .. m |-> g[k]]
    OBVIOUS
  <2> HIDE DEF g
  <2> QED
    BY <2>1, <1>10 DEF IsLoop
<1> QED
  BY <1>3, <1>9, <1>11

\* The functions whose values are where they should be.
FitsIn(f, D, B) == f = [x \in D |-> f[x]] /\ \A x \in D : f[x] \in B[x]

\* G makes values of functions that fit, of the values of lower rank only.
MakesFit(G, D, B) == \A x \in D : \A f : FitsIn(f, D, B) => G[<<x, f>>] \in B[x]
LooksDown(G, D, B, rank) ==
    \A x \in D : \A f, g :
       /\ FitsIn(f, D, B) /\ FitsIn(g, D, B)
       /\ \A y \in D : rank[y] < rank[x] => f[y] = g[y]
       => G[<<x, f>>] = G[<<x, g>>]

\* Each value is what G makes of the others.
SolvesFor(f, G, D, B) == FitsIn(f, D, B) /\ \A x \in D : f[x] = G[<<x, f>>]

\* A function of which each value depends on those of lower rank only exists.
LEMMA RecursionExists ==
    ASSUME NEW D, NEW B, NEW rank, NEW n \in Nat, rank \in [D -> 0 .. n],
           NEW f0, FitsIn(f0, D, B), NEW G, MakesFit(G, D, B), LooksDown(G, D, B, rank)
    PROVE  \E f : SolvesFor(f, G, D, B)
<1> DEFINE Right(f, m) == FitsIn(f, D, B) /\ \A x \in D : rank[x] < m => f[x] = G[<<x, f>>]
           bad == {m \in 0 .. (n + 1) : ~ \E f : Right(f, m)}
<1> USE DEF MakesFit, LooksDown, SolvesFor
<1>0. CASE bad = {}
  <2>1. PICK f : Right(f, n + 1)
    <3>1. n + 1 \in 0 .. (n + 1)
      OBVIOUS
    <3>2. n + 1 \notin bad
      BY <1>0
    <3> QED
      BY <3>1, <3>2
  <2>2. \A x \in D : rank[x] < n + 1
    OBVIOUS
  <2> QED
    BY <2>1, <2>2
<1>1. CASE bad # {}
  <2>1. PICK m \in bad : \A j \in bad : m <= j
    BY <1>1, LeastNumber, bad \in SUBSET Nat
  <2>2. m \in 0 .. (n + 1) /\ ~ \E f : Right(f, m)
    BY <2>1
  <2>3. Right(f0, 0)
    OBVIOUS
  <2>4. m # 0 /\ m - 1 \in 0 .. (n + 1) /\ m - 1 \notin bad
    BY <2>1, <2>2, <2>3
  <2>5. PICK f : Right(f, m - 1)
    BY <2>4
  <2> DEFINE g == [x \in D |-> IF rank[x] = m - 1 THEN G[<<x, f>>] ELSE f[x]]
  <2>6. \A x \in D : g[x] \in B[x]
    BY <2>5 DEF FitsIn
  <2>7. FitsIn(g, D, B)
    BY <2>6 DEF FitsIn
  <2>8. \A x \in D : rank[x] < m => g[x] = G[<<x, f>>]
    BY <2>2, <2>4, <2>5
  <2>9. \A y \in D : rank[y] < m - 1 => f[y] = g[y]
    BY <2>4
  <2> HIDE DEF g
  <2>10. \A x \in D : rank[x] < m => G[<<x, f>>] = G[<<x, g>>]
    <3> SUFFICES ASSUME NEW x \in D, rank[x] < m PROVE G[<<x, f>>] = G[<<x, g>>]
      OBVIOUS
    <3>1. \A y \in D : rank[y] < rank[x] => f[y] = g[y]
      BY <2>9, <2>2
    <3> QED
      BY <3>1, <2>5, <2>7
  <2> QED
    BY <2>2, <2>7, <2>8, <2>10
<1> QED
  BY <1>0, <1>1

\* A value is where it should be if those of lower rank are.
StaysIn(f, D, B, rank) ==
    \A x \in D : (\A y \in D : rank[y] < rank[x] => f[y] \in B[y]) => f[x] \in B[x]

\* Then all are.
LEMMA RecursionStays ==
    ASSUME NEW D, NEW B, NEW n \in Nat, NEW rank \in [D -> 0 .. n], NEW f, StaysIn(f, D, B, rank)
    PROVE  \A x \in D : f[x] \in B[x]
<1> DEFINE bad == {rank[x] : x \in {y \in D : f[y] \notin B[y]}}
<1> SUFFICES ASSUME bad # {} PROVE FALSE
  OBVIOUS
<1>1. bad \in SUBSET Nat
  OBVIOUS
<1>2. PICK m \in bad : \A j \in bad : m <= j
  BY <1>1, LeastNumber
<1>3. PICK x \in D : rank[x] = m /\ f[x] \notin B[x]
  BY <1>2
<1>4. \A y \in D : rank[y] < rank[x] => f[y] \in B[y]
  <2> SUFFICES ASSUME NEW y \in D, rank[y] < rank[x], f[y] \notin B[y] PROVE FALSE
    OBVIOUS
  <2>1. rank[y] \in bad
    OBVIOUS
  <2> HIDE DEF bad
  <2> QED
    BY <2>1, <1>1, <1>2, <1>3
<1> QED
  BY <1>3, <1>4 DEF StaysIn

\* A run of a loop within a set.
RunsIn(f, start, G, n, X) ==
    /\ f = [k \in 0 .. n |-> f[k]] /\ f[0] = start
    /\ \A k \in 1 .. n : f[k - 1] \in X /\ f[k] = G[<<f[k - 1], k>>]

\* A loop that never leaves a set has a run.
LEMMA LoopRuns ==
    ASSUME NEW n \in Nat, NEW X, NEW start \in X, NEW G,
           \A k \in 1 .. n : \A v \in X : G[<<v, k>>] \in X
    PROVE  \E f : RunsIn(f, start, G, n, X)
<1> DEFINE V == [k \in 0 .. n |-> X]
<1>1. start \in V[0] /\ \A k \in 1 .. n : V[k - 1] = X /\ V[k] = X
  OBVIOUS
<1>2. \A k \in 0 .. n : V[k] = X
  OBVIOUS
<1> HIDE DEF V
<1>3. \A k \in 1 .. n : \A v \in V[k - 1] : G[<<v, k>>] \in V[k]
  BY <1>1
<1>4. PICK f : IsLoop(f, start, G, n) /\ \A k \in 0 .. n : f[k] \in V[k]
  BY <1>1, <1>3, LoopExists
<1>5. /\ f = [k \in 0 .. n |-> f[k]]
      /\ \A k \in 0 .. n : f[k] = IF k = 0 THEN start ELSE G[<<f[k - 1], k>>]
  BY <1>4 DEF IsLoop
<1>6. 0 \in 0 .. n /\ \A k \in 1 .. n : k \in 0 .. n /\ k - 1 \in 0 .. n /\ k # 0
  OBVIOUS
<1>7. RunsIn(f, start, G, n, X)
  <2>1. f = [k \in 0 .. n |-> f[k]]
    BY <1>5
  <2>2. f[0] = start /\ \A k \in 1 .. n : f[k - 1] \in X /\ f[k] = G[<<f[k - 1], k>>]
    <3>1. f[0] = start
      BY <1>5, <1>6
    <3>2. ASSUME NEW k \in 1 .. n PROVE f[k - 1] \in X /\ f[k] = G[<<f[k - 1], k>>]
      <4>1. k \in 0 .. n /\ k - 1 \in 0 .. n /\ k # 0
        BY <1>6
      <4>2. f[k] = IF k = 0 THEN start ELSE G[<<f[k - 1], k>>]
        BY <1>5, <4>1
      <4> QED
        BY <1>2, <1>4, <4>1, <4>2
    <3> QED
      BY <3>1, <3>2
  <2> QED
    BY <2>1, <2>2 DEF RunsIn
<1> QED
  BY <1>7

\* It ends in that set.
LEMMA LoopEnds ==
    ASSUME NEW n \in Nat, NEW X, NEW after, after[0] \in X,
           \A k \in 1 .. n : after[k - 1] \in X => after[k] \in X
    PROVE  after[n] \in X
<1> DEFINE V == [k \in 0 .. n |-> X]
<1>1. \A k \in 0 .. n : V[k] = X
  OBVIOUS
<1> HIDE DEF V
<1>2. \A k \in 1 .. n : k \in 0 .. n /\ k - 1 \in 0 .. n
  OBVIOUS
<1>3. after[0] \in V[0] /\ \A k \in 1 .. n : after[k - 1] \in V[k - 1] => after[k] \in V[k]
  BY <1>1, <1>2
<1>4. \A k \in 0 .. n : after[k] \in V[k]
  BY <1>3, LoopStays
<1> QED
  BY <1>1, <1>4
=============================================================================
