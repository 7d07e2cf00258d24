------------------------------- MODULE Ranked -------------------------------
(***************************************************************************)
(* Sequences by rank: an element is at place k when k - 1 elements come    *)
(* before it.  What a Map, an ORDER BY with a LIMIT, a sort with a slice   *)
(* and a filter give, in a form that can be reasoned about without an      *)
(* induction over the data; and loops, as functions of the pass.           *)
(***************************************************************************)
EXTENDS Naturals, Sequences, FiniteSets, FiniteSetsExt

\* The entries at some places of a sequence, in their order.
Entries(s, places) ==
    [k \in 1..Cardinality(places) |->
        s[CHOOSE p \in places : Cardinality({q \in places : q < p}) = k - 1]]

\* The first n of a set, in order.
First(S, n, before(_, _)) ==
    [k \in 1..Min({n, Cardinality(S)}) |->
        CHOOSE x \in S : Cardinality({y \in S : before(y, x)}) = k - 1]

\* What a loop leaves after n passes.
Loop(pass(_, _), start, n) ==
    LET after[k \in 0..n] == IF k = 0 THEN start ELSE pass(after[k - 1], k)
    IN  after[n]
=============================================================================
