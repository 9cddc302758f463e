------------------------------- MODULE Lists -------------------------------
(***************************************************************************)
(* What the bridge does to lists, and lets SQL Server do to rows: it sorts *)
(* them by keys and filters them.                                          *)
(***************************************************************************)
EXTENDS Naturals, Sequences, FiniteSets, SequencesExt

\* The keys in s sort before those in t.
Precedes(s, t) ==
  \E i \in DOMAIN s : s[i] < t[i] /\ \A j \in 1..(i - 1) : s[j] = t[j]

Ahead(S, Order, x) == {y \in S : <<y, x>> \in Order}

\* S sorted: each element where the number of those ahead of it puts it.
Sorted(S, Order) ==
  [k \in 1..Cardinality(S) |-> CHOOSE x \in S : Cardinality(Ahead(S, Order, x)) = k - 1]

\* [x for x in s if x in T]
Kept(s, T) == FlattenSeq([i \in DOMAIN s |-> IF s[i] \in T THEN <<s[i]>> ELSE <<>>])
=============================================================================
