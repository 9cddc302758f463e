---------------------------- MODULE ListsProofs ----------------------------
(***************************************************************************)
(* What sorting, filtering and joining lists keeps, whatever is in them:   *)
(* the facts about Lists that the proofs about queries and drafts rest on. *)
(***************************************************************************)
EXTENDS Lists, SequenceTheorems, FunctionTheorems, FiniteSetTheorems, TLAPS

-----------------------------------------------------------------------------
(* What holds of 0 and passes from each number to the next holds up to n:  *)
(* else there would be a least number of which it does not hold.           *)

LEMMA Climb ==
  ASSUME NEW n \in Nat, NEW Good, 0 \in Good,
         \A i \in 0..(n - 1) : i \in Good => i + 1 \in Good
  PROVE  \A i \in 0..n : i \in Good
<1> SUFFICES ASSUME ~ \A i \in 0..n : i \in Good
             PROVE  FALSE
  OBVIOUS
<1> DEFINE bad == {i \in 0..n : i \notin Good}
<1>1. bad \subseteq Nat /\ bad # {}
  OBVIOUS
<1>2. PICK i \in bad : \A k \in bad : ~(<<k, i>> \in OpToRel(<, Nat))
  BY <1>1, NatLessThanWellFounded, WFMin
<1>3. \A k \in bad : ~(k < i)
  BY <1>1, <1>2 DEF OpToRel
<1>4. i - 1 \in 0..(n - 1) /\ i - 1 \notin bad
  BY <1>1, <1>3
<1> QED BY <1>4

\* A set of numbers that is not empty has a least one.
LEMMA Least ==
  ASSUME NEW T, T \subseteq Nat, T # {}
  PROVE  \E i \in T : \A k \in T : i <= k
<1>1. PICK i \in T : \A k \in T : ~(<<k, i>> \in OpToRel(<, Nat))
  BY NatLessThanWellFounded, WFMin
<1>2. \A k \in T : ~(k < i)
  BY <1>1 DEF OpToRel
<1> QED BY <1>2

LEMMA LesserOf ==
  ASSUME NEW a \in Int, NEW b \in Int
  PROVE  Min({a, b}) = IF a <= b THEN a ELSE b
BY DEF Min

LEMMA GreaterOf ==
  ASSUME NEW a \in Int, NEW b \in Int
  PROVE  Max({a, b}) = IF a >= b THEN a ELSE b
BY DEF Max

-----------------------------------------------------------------------------
(* What is in a list.                                                      *)

LEMMA InList ==
  ASSUME NEW S, NEW s \in Seq(S)
  PROVE  /\ Len(s) \in Nat /\ DOMAIN s = 1..Len(s)
         /\ \A i \in 1..Len(s) : s[i] \in S
         /\ ToSet(s) \subseteq S
         /\ \A x : x \in ToSet(s) <=> \E i \in 1..Len(s) : s[i] = x
         /\ ToSet(s) = {} <=> s = <<>>
<1>1. Len(s) \in Nat /\ DOMAIN s = 1..Len(s) /\ \A i \in 1..Len(s) : s[i] \in S
  BY LenProperties, ElementOfSeq
<1>2. \A x : x \in ToSet(s) <=> \E i \in 1..Len(s) : s[i] = x
  BY <1>1 DEF ToSet
<1>3. s = <<>> <=> Len(s) = 0
  BY EmptySeq
<1> QED BY <1>1, <1>2, <1>3

LEMMA EmptyList ==
  ASSUME NEW S
  PROVE  <<>> \in Seq(S) /\ Len(<<>>) = 0 /\ ToSet(<<>>) = {} /\ IsInjective(<<>>)
<1>1. <<>> \in Seq(S) /\ Len(<<>>) = 0
  BY EmptySeq
<1>2. DOMAIN <<>> = {}
  OBVIOUS
<1> QED BY <1>1, <1>2 DEF ToSet, IsInjective

LEMMA InBoth ==
  ASSUME NEW S, NEW s \in Seq(S), NEW t \in Seq(S)
  PROVE  /\ s \o t \in Seq(S)
         /\ Len(s \o t) = Len(s) + Len(t)
         /\ ToSet(s \o t) = ToSet(s) \cup ToSet(t)
<1>1. /\ s \o t \in Seq(S) /\ Len(s \o t) = Len(s) + Len(t)
      /\ \A i \in 1..(Len(s) + Len(t)) : (s \o t)[i] = IF i <= Len(s) THEN s[i] ELSE t[i - Len(s)]
  BY ConcatProperties
<1>2. Len(s) \in Nat /\ Len(t) \in Nat
  BY InList
<1>3. ASSUME NEW x \in ToSet(s \o t) PROVE x \in ToSet(s) \cup ToSet(t)
  <2>1. PICK i \in 1..(Len(s) + Len(t)) : (s \o t)[i] = x
    BY <1>1, InList
  <2>2. CASE i <= Len(s)
    <3>1. i \in 1..Len(s) /\ s[i] = x
      BY <1>1, <1>2, <2>1, <2>2
    <3> QED BY <3>1, InList
  <2>3. CASE ~(i <= Len(s))
    <3>1. i - Len(s) \in 1..Len(t) /\ t[i - Len(s)] = x
      BY <1>1, <1>2, <2>1, <2>3
    <3> QED BY <3>1, InList
  <2> QED BY <2>2, <2>3
<1>4. ASSUME NEW x \in ToSet(s) PROVE x \in ToSet(s \o t)
  <2>1. PICK i \in 1..Len(s) : s[i] = x
    BY InList
  <2>2. i \in 1..(Len(s) + Len(t)) /\ (s \o t)[i] = x
    BY <1>1, <1>2, <2>1
  <2> QED BY <1>1, <2>2, InList
<1>5. ASSUME NEW x \in ToSet(t) PROVE x \in ToSet(s \o t)
  <2>1. PICK i \in 1..Len(t) : t[i] = x
    BY InList
  <2>2. i + Len(s) \in 1..(Len(s) + Len(t)) /\ (s \o t)[i + Len(s)] = x
    BY <1>1, <1>2, <2>1
  <2>3. \E j \in 1..Len(s \o t) : (s \o t)[j] = x
    BY <1>1, <2>2
  <2> QED BY <1>1, <2>3, InList
<1> QED BY <1>1, <1>3, <1>4, <1>5

\* The places in a list that is joined of two.
LEMMA PlacesInBoth ==
  ASSUME NEW S, NEW a \in Nat, NEW b \in Nat, NEW s \in [1..a -> S], NEW t \in [1..b -> S]
  PROVE  /\ s \o t \in [1..(a + b) -> S]
         /\ \A i \in 1..a : (s \o t)[i] = s[i]
         /\ \A i \in 1..b : (s \o t)[a + i] = t[i]
<1>1. s \in Seq(S) /\ t \in Seq(S) /\ Len(s) = a /\ Len(t) = b
  OBVIOUS
<1>2. /\ s \o t \in Seq(S) /\ Len(s \o t) = a + b
      /\ \A i \in 1..(a + b) : (s \o t)[i] = IF i <= a THEN s[i] ELSE t[i - a]
  BY <1>1, ConcatProperties
<1>3. s \o t \in [1..(a + b) -> S]
  BY <1>2, LenProperties
<1>4. ASSUME NEW i \in 1..a PROVE (s \o t)[i] = s[i]
  <2>1. i \in 1..(a + b) /\ i <= a
    OBVIOUS
  <2> QED BY <1>2, <2>1
<1>5. ASSUME NEW i \in 1..b PROVE (s \o t)[a + i] = t[i]
  <2> DEFINE j == a + i
  <2>1. j \in 1..(a + b) /\ ~(j <= a) /\ j - a = i
    OBVIOUS
  <2> HIDE DEF j
  <2>2. (s \o t)[j] = t[j - a]
    BY <1>2, <2>1
  <2>3. (s \o t)[j] = t[i]
    BY <2>1, <2>2
  <2> QED BY <2>3 DEF j
<1> QED BY <1>3, <1>4, <1>5

LEMMA PlaceInSecond ==
  ASSUME NEW S, NEW a \in Nat, NEW b \in Nat, NEW s \in [1..a -> S], NEW t \in [1..b -> S]
  PROVE  \A i \in 1..b : (s \o t)[a + i] = t[i]
BY PlacesInBoth

LEMMA InjectiveJoin ==
  ASSUME NEW S, NEW s \in Seq(S), NEW t \in Seq(S), IsInjective(s), IsInjective(t),
         ToSet(s) \cap ToSet(t) = {}
  PROVE  IsInjective(s \o t)
<1>1. /\ DOMAIN (s \o t) = 1..(Len(s) + Len(t))
      /\ \A i \in 1..(Len(s) + Len(t)) : (s \o t)[i] = IF i <= Len(s) THEN s[i] ELSE t[i - Len(s)]
  BY ConcatProperties, InList
<1>2. Len(s) \in Nat /\ Len(t) \in Nat /\ DOMAIN s = 1..Len(s) /\ DOMAIN t = 1..Len(t)
  BY InList
<1> DEFINE u == s \o t
<1>3. ASSUME NEW i \in DOMAIN u, NEW j \in DOMAIN u, u[i] = u[j], i < j PROVE FALSE
  <2>1. i \in 1..(Len(s) + Len(t)) /\ j \in 1..(Len(s) + Len(t))
    BY <1>1
  <2>2. CASE j <= Len(s)
    <3>1. i \in 1..Len(s) /\ j \in 1..Len(s) /\ s[i] = s[j]
      BY <1>1, <1>2, <1>3, <2>1, <2>2
    <3> QED BY <1>2, <1>3, <3>1 DEF IsInjective
  <2>3. CASE i <= Len(s) /\ ~(j <= Len(s))
    <3>1. i \in 1..Len(s) /\ j - Len(s) \in 1..Len(t) /\ s[i] = t[j - Len(s)]
      BY <1>1, <1>2, <1>3, <2>1, <2>3
    <3>2. s[i] \in ToSet(s) /\ s[i] \in ToSet(t)
      BY <3>1, InList
    <3> QED BY <3>2
  <2>4. CASE ~(i <= Len(s))
    <3>1. /\ i - Len(s) \in 1..Len(t) /\ j - Len(s) \in 1..Len(t)
          /\ t[i - Len(s)] = t[j - Len(s)]
      BY <1>1, <1>2, <1>3, <2>1, <2>4
    <3>2. i - Len(s) = j - Len(s)
      BY <1>2, <3>1 DEF IsInjective
    <3> QED BY <1>2, <1>3, <2>1, <3>2
  <2> QED BY <1>2, <1>3, <2>1, <2>2, <2>3, <2>4
<1>4. DOMAIN u \subseteq Nat
  BY <1>1, <1>2
<1> HIDE DEF u
<1>5. \A i, j \in DOMAIN u : u[i] = u[j] => i = j
  <2> TAKE i, j \in DOMAIN u
  <2> QED BY <1>3, <1>4
<1> QED BY <1>5 DEF IsInjective, u

-----------------------------------------------------------------------------
(* FlattenSeq, which joins lists: a fold that exists for every list.       *)

Partial(ss, f) ==
  /\ DOMAIN f = 0..Len(ss)
  /\ f[0] = <<>>
  /\ \A i \in 0..(Len(ss) - 1) : f[i + 1] = f[i] \o ss[i + 1]

LEMMA Flattening ==
  ASSUME NEW S, NEW ss \in Seq(Seq(S))
  PROVE  \E f : Partial(ss, f) /\ FlattenSeq(ss) = f[Len(ss)]
<1> DEFINE n == Len(ss)
           Fold(m, g) == g = [i \in 1..m |-> IF i = 1 THEN ss[i] ELSE g[i - 1] \o ss[i]]
           Good == {m \in 0..n : \E g : Fold(m, g)}
<1>1. n \in Nat /\ \A i \in 1..n : ss[i] \in Seq(S)
  BY LenProperties, ElementOfSeq
<1>2. 0 \in Good
  <2> DEFINE g == [i \in 1..0 |-> <<>>]
  <2>1. Fold(0, g)
    OBVIOUS
  <2>2. 0 \in 0..n
    BY <1>1
  <2> HIDE DEF g, Fold
  <2> QED BY <2>1, <2>2
<1>3. ASSUME NEW m \in 0..(n - 1), m \in Good PROVE m + 1 \in Good
  <2>1. PICK g : Fold(m, g)
    BY <1>3
  <2> DEFINE h == [i \in 1..(m + 1) |-> IF i = 1 THEN ss[i] ELSE g[i - 1] \o ss[i]]
  <2>2. ASSUME NEW i \in 1..(m + 1), i # 1 PROVE h[i - 1] = g[i - 1]
    <3>1. i - 1 \in 1..m /\ i - 1 \in 1..(m + 1)
      BY <1>1, <2>2
    <3>2. g[i - 1] = IF i - 1 = 1 THEN ss[i - 1] ELSE g[i - 1 - 1] \o ss[i - 1]
      BY <2>1, <3>1
    <3> QED BY <3>1, <3>2
  <2>3. Fold(m + 1, h)
    BY <2>2
  <2>4. m + 1 \in 0..n
    BY <1>1
  <2> HIDE DEF h, Fold
  <2> QED BY <2>3, <2>4
<1>4. PICK g : Fold(n, g)
  <2> HIDE DEF Good
  <2>1. \A m \in 0..n : m \in Good
    BY <1>1, <1>2, <1>3, Climb
  <2>2. n \in Good
    BY <1>1, <2>1
  <2> QED BY <2>2 DEF Good
<1>5. CASE n = 0
  <2> DEFINE f == [i \in 0..0 |-> <<>>]
  <2>1. ss = <<>>
    BY <1>5, EmptySeq
  <2>2. FlattenSeq(ss) = <<>>
    BY <2>1, <1>5 DEF FlattenSeq
  <2>3. Partial(ss, f)
    BY <1>5 DEF Partial
  <2> QED BY <2>2, <2>3, <1>5
<1>6. CASE n # 0
  <2>1. PICK c : Fold(n, c) /\ FlattenSeq(ss) = c[n]
    BY <1>4, <1>6 DEF FlattenSeq
  <2> DEFINE f == [i \in 0..n |-> IF i = 0 THEN <<>> ELSE c[i]]
  <2>2. ASSUME NEW i \in 0..(n - 1) PROVE f[i + 1] = f[i] \o ss[i + 1]
    <3>1. i + 1 \in 1..n /\ (i = 0 <=> i + 1 = 1) /\ i + 1 - 1 = i
      BY <1>1
    <3>2. c[i + 1] = IF i = 0 THEN ss[i + 1] ELSE c[i] \o ss[i + 1]
      <4>1. \A j \in 1..n : c[j] = IF j = 1 THEN ss[j] ELSE c[j - 1] \o ss[j]
        BY <2>1
      <4>2. c[i + 1] = IF i + 1 = 1 THEN ss[i + 1] ELSE c[i + 1 - 1] \o ss[i + 1]
        BY <3>1, <4>1
      <4> QED BY <3>1, <4>2
    <3>3. <<>> \o ss[i + 1] = ss[i + 1]
      BY <1>1, <3>1, ConcatEmptySeq
    <3>4. f[i + 1] = c[i + 1] /\ f[i] = IF i = 0 THEN <<>> ELSE c[i]
      BY <1>1
    <3> HIDE DEF f
    <3> QED BY <3>2, <3>3, <3>4
  <2>3. DOMAIN f = 0..n /\ f[0] = <<>> /\ f[n] = c[n]
    BY <1>1, <1>6
  <2> HIDE DEF f
  <2>4. Partial(ss, f)
    BY <2>2, <2>3 DEF Partial
  <2> QED BY <2>1, <2>3, <2>4
<1> QED BY <1>5, <1>6

\* Joined lists hold what the lists hold.
LEMMA FlattenHolds ==
  ASSUME NEW S, NEW ss \in Seq(Seq(S))
  PROVE  /\ FlattenSeq(ss) \in Seq(S)
         /\ \A x : x \in ToSet(FlattenSeq(ss)) <=> \E k \in 1..Len(ss) : x \in ToSet(ss[k])
<1> DEFINE n == Len(ss)
<1>1. n \in Nat /\ \A i \in 1..n : ss[i] \in Seq(S)
  BY LenProperties, ElementOfSeq
<1>2. PICK f : Partial(ss, f) /\ FlattenSeq(ss) = f[n]
  BY Flattening
<1> DEFINE Holds(i) == /\ f[i] \in Seq(S)
                       /\ \A x : x \in ToSet(f[i]) <=> \E k \in 1..i : x \in ToSet(ss[k])
           Good == {i \in 0..n : Holds(i)}
<1>3. 0 \in Good
  <2>1. f[0] \in Seq(S) /\ ToSet(f[0]) = {}
    BY <1>2, EmptyList DEF Partial
  <2> QED BY <1>1, <2>1
<1>4. ASSUME NEW i \in 0..(n - 1), i \in Good PROVE i + 1 \in Good
  <2>1. i + 1 \in 1..n /\ i + 1 \in 0..n /\ i + 1 - 1 = i
    BY <1>1
  <2>2. f[i + 1] = f[i] \o ss[i + 1]
    BY <1>2 DEF Partial
  <2>3. f[i + 1] \in Seq(S) /\ ToSet(f[i + 1]) = ToSet(f[i]) \cup ToSet(ss[i + 1])
    BY <1>1, <1>4, <2>1, <2>2, InBoth
  <2>4. ASSUME NEW x PROVE x \in ToSet(f[i + 1]) <=> \E k \in 1..(i + 1) : x \in ToSet(ss[k])
    <3>1. x \in ToSet(f[i]) <=> \E k \in 1..i : x \in ToSet(ss[k])
      BY <1>4
    <3>2. \A k : k \in 1..(i + 1) <=> k \in 1..i \/ k = i + 1
      BY <1>1
    <3> QED BY <2>3, <3>1, <3>2
  <2> QED BY <2>1, <2>3, <2>4
<1> HIDE DEF Good
<1>5. \A i \in 0..n : i \in Good
  BY <1>1, <1>3, <1>4, Climb
<1>6. n \in Good
  BY <1>1, <1>5
<1> QED BY <1>2, <1>6 DEF Good

\* Lists of the same length.
LEMMA FlattenLength ==
  ASSUME NEW S, NEW ss \in Seq(Seq(S)), NEW h \in Nat, \A k \in 1..Len(ss) : Len(ss[k]) = h
  PROVE  Len(FlattenSeq(ss)) = h * Len(ss)
<1> DEFINE n == Len(ss)
<1>1. n \in Nat /\ \A i \in 1..n : ss[i] \in Seq(S)
  BY LenProperties, ElementOfSeq
<1>2. PICK f : Partial(ss, f) /\ FlattenSeq(ss) = f[n]
  BY Flattening
<1> DEFINE Good == {i \in 0..n : f[i] \in Seq(S) /\ Len(f[i]) = h * i}
<1>3. 0 \in Good
  <2>1. f[0] \in Seq(S) /\ Len(f[0]) = 0
    BY <1>2, EmptyList DEF Partial
  <2>2. h * 0 = 0
    OBVIOUS
  <2> QED BY <1>1, <2>1, <2>2
<1>4. ASSUME NEW i \in 0..(n - 1), i \in Good PROVE i + 1 \in Good
  <2>1. i + 1 \in 1..n /\ i + 1 \in 0..n /\ i + 1 - 1 = i
    BY <1>1
  <2>2. f[i + 1] = f[i] \o ss[i + 1]
    BY <1>2 DEF Partial
  <2>3. f[i + 1] \in Seq(S) /\ Len(f[i + 1]) = h * i + h
    <3>1. /\ f[i] \in Seq(S) /\ ss[i + 1] \in Seq(S)
          /\ Len(f[i]) = h * i /\ Len(ss[i + 1]) = h
      BY <1>1, <1>4, <2>1
    <3>2. f[i + 1] \in Seq(S) /\ Len(f[i + 1]) = Len(f[i]) + Len(ss[i + 1])
      BY <2>2, <3>1, InBoth
    <3> QED BY <3>1, <3>2
  <2>4. h * i + h = h * (i + 1)
    BY <1>1
  <2> QED BY <2>1, <2>3, <2>4
<1> HIDE DEF Good
<1>5. \A i \in 0..n : i \in Good
  BY <1>1, <1>3, <1>4, Climb
<1>6. n \in Good
  BY <1>1, <1>5
<1> QED BY <1>2, <1>6 DEF Good

LEMMA FlattenBound ==
  ASSUME NEW S, NEW ss \in Seq(Seq(S)), NEW h \in Nat, \A k \in 1..Len(ss) : Len(ss[k]) <= h
  PROVE  Len(FlattenSeq(ss)) <= h * Len(ss)
<1> DEFINE n == Len(ss)
<1>1. n \in Nat /\ \A i \in 1..n : ss[i] \in Seq(S)
  BY LenProperties, ElementOfSeq
<1>2. PICK f : Partial(ss, f) /\ FlattenSeq(ss) = f[n]
  BY Flattening
<1> DEFINE Good == {i \in 0..n : f[i] \in Seq(S) /\ Len(f[i]) <= h * i}
<1>3. 0 \in Good
  <2>1. f[0] \in Seq(S) /\ Len(f[0]) = 0
    BY <1>2, EmptyList DEF Partial
  <2>2. h * 0 = 0
    OBVIOUS
  <2> QED BY <1>1, <2>1, <2>2
<1>4. ASSUME NEW i \in 0..(n - 1), i \in Good PROVE i + 1 \in Good
  <2>1. i + 1 \in 1..n /\ i + 1 \in 0..n /\ i + 1 - 1 = i
    BY <1>1
  <2>2. f[i + 1] = f[i] \o ss[i + 1]
    BY <1>2 DEF Partial
  <2>3. f[i + 1] \in Seq(S) /\ Len(f[i + 1]) <= h * i + h
    <3>1. /\ f[i] \in Seq(S) /\ ss[i + 1] \in Seq(S)
          /\ Len(f[i]) <= h * i /\ Len(ss[i + 1]) <= h
      BY <1>1, <1>4, <2>1
    <3>2. f[i + 1] \in Seq(S) /\ Len(f[i + 1]) = Len(f[i]) + Len(ss[i + 1])
      BY <2>2, <3>1, InBoth
    <3>3. Len(f[i]) \in Nat /\ Len(ss[i + 1]) \in Nat
      BY <3>1, LenProperties
    <3>4. h * i \in Nat
      BY <1>1
    <3>5. \A a, b, c \in Nat : a <= c /\ b <= h => a + b <= c + h
      OBVIOUS
    <3>6. Len(f[i]) + Len(ss[i + 1]) <= h * i + h
      BY <3>1, <3>3, <3>4, <3>5
    <3> QED BY <3>1, <3>2, <3>6
  <2>4. h * i + h = h * (i + 1)
    BY <1>1
  <2> QED BY <2>1, <2>3, <2>4
<1> HIDE DEF Good
<1>5. \A i \in 0..n : i \in Good
  BY <1>1, <1>3, <1>4, Climb
<1>6. n \in Good
  BY <1>1, <1>5
<1> QED BY <1>2, <1>6 DEF Good

\* Lists without repetition that have nothing in common.
LEMMA FlattenInjective ==
  ASSUME NEW S, NEW ss \in Seq(Seq(S)),
         \A k \in 1..Len(ss) : IsInjective(ss[k]),
         \A k, l \in 1..Len(ss) : k # l => ToSet(ss[k]) \cap ToSet(ss[l]) = {}
  PROVE  IsInjective(FlattenSeq(ss))
<1> DEFINE n == Len(ss)
<1>1. n \in Nat /\ \A i \in 1..n : ss[i] \in Seq(S)
  BY LenProperties, ElementOfSeq
<1>2. PICK f : Partial(ss, f) /\ FlattenSeq(ss) = f[n]
  BY Flattening
<1> DEFINE Holds(i) == /\ f[i] \in Seq(S) /\ IsInjective(f[i])
                       /\ \A x \in ToSet(f[i]) : \E k \in 1..i : x \in ToSet(ss[k])
           Good == {i \in 0..n : Holds(i)}
<1>3. 0 \in Good
  <2>1. f[0] \in Seq(S) /\ ToSet(f[0]) = {} /\ IsInjective(f[0])
    BY <1>2, EmptyList DEF Partial
  <2> QED BY <1>1, <2>1
<1>4. ASSUME NEW i \in 0..(n - 1), i \in Good PROVE i + 1 \in Good
  <2>1. i + 1 \in 1..n /\ i + 1 \in 0..n /\ i + 1 - 1 = i
    BY <1>1
  <2>2. f[i + 1] = f[i] \o ss[i + 1]
    BY <1>2 DEF Partial
  <2>3. f[i + 1] \in Seq(S) /\ ToSet(f[i + 1]) = ToSet(f[i]) \cup ToSet(ss[i + 1])
    BY <1>1, <1>4, <2>1, <2>2, InBoth
  <2>4. ASSUME NEW x \in ToSet(f[i]), x \in ToSet(ss[i + 1]) PROVE FALSE
    <3>1. PICK k \in 1..i : x \in ToSet(ss[k])
      BY <1>4
    <3>2. k \in 1..n /\ k # i + 1
      BY <1>1
    <3> QED BY <2>1, <2>4, <3>1, <3>2
  <2>5. IsInjective(f[i + 1])
    BY <1>1, <1>4, <2>1, <2>2, <2>4, InjectiveJoin
  <2>6. ASSUME NEW x \in ToSet(f[i + 1]) PROVE \E k \in 1..(i + 1) : x \in ToSet(ss[k])
    <3>1. x \in ToSet(f[i]) => \E k \in 1..i : x \in ToSet(ss[k])
      BY <1>4
    <3>2. \A k : k \in 1..i \/ k = i + 1 => k \in 1..(i + 1)
      BY <1>1
    <3> QED BY <2>3, <3>1, <3>2
  <2> QED BY <2>1, <2>3, <2>5, <2>6
<1> HIDE DEF Good
<1>5. \A i \in 0..n : i \in Good
  BY <1>1, <1>3, <1>4, Climb
<1>6. n \in Good
  BY <1>1, <1>5
<1> QED BY <1>2, <1>6 DEF Good

\* Where each of the joined lists is in the whole.
Offsets(off, ss, whole) ==
  /\ off \in [0..Len(ss) -> Nat] /\ off[0] = 0 /\ off[Len(ss)] = Len(whole)
  /\ \A k \in 1..Len(ss) :
       /\ off[k] = off[k - 1] + Len(ss[k]) /\ off[k] <= Len(whole)
       /\ \A i \in 1..Len(ss[k]) : whole[off[k - 1] + i] = ss[k][i]

LEMMA BothPlaces ==
  ASSUME NEW S, NEW s \in Seq(S), NEW t \in Seq(S)
  PROVE  /\ Len(s) \in Nat /\ Len(t) \in Nat
         /\ s \o t \in Seq(S) /\ Len(s \o t) = Len(s) + Len(t)
         /\ \A i \in 1..Len(s) : (s \o t)[i] = s[i]
         /\ \A i \in 1..Len(t) : (s \o t)[Len(s) + i] = t[i]
<1> DEFINE a == Len(s)
           b == Len(t)
<1>1. a \in Nat /\ b \in Nat /\ s \in [1..a -> S] /\ t \in [1..b -> S]
  BY LenProperties
<1> HIDE DEF a, b
<1>2. /\ \A i \in 1..a : (s \o t)[i] = s[i]
      /\ \A i \in 1..b : (s \o t)[a + i] = t[i]
  BY <1>1, PlacesInBoth
<1> QED BY <1>1, <1>2, InBoth DEF a, b

LEMMA FlattenPlaces ==
  ASSUME NEW S, NEW ss \in Seq(Seq(S))
  PROVE  \E off : Offsets(off, ss, FlattenSeq(ss))
<1> DEFINE n == Len(ss)
<1>1. n \in Nat /\ \A i \in 1..n : ss[i] \in Seq(S) /\ Len(ss[i]) \in Nat
  BY LenProperties, ElementOfSeq
<1>2. PICK f : Partial(ss, f) /\ FlattenSeq(ss) = f[n]
  BY Flattening
<1> DEFINE off == [k \in 0..n |-> Len(f[k])]
           Placed(m, k) == /\ off[k] <= off[m] /\ off[k] = off[k - 1] + Len(ss[k])
                           /\ \A i \in 1..Len(ss[k]) : f[m][off[k - 1] + i] = ss[k][i]
           Holds(m) == /\ f[m] \in Seq(S) /\ \A k \in 0..m : off[k] \in Nat
                       /\ \A k \in 1..m : Placed(m, k)
           Good == {m \in 0..n : Holds(m)}
<1>3. \A k \in 0..n : off[k] = Len(f[k])
  OBVIOUS
<1>4. off[0] = 0 /\ f[0] \in Seq(S) /\ 0 \in 0..n /\ n \in 0..n
  BY <1>1, <1>2, <1>3, EmptyList DEF Partial
<1>5. DOMAIN off = 0..n /\ off = [k \in 0..n |-> off[k]]
  OBVIOUS
<1> HIDE DEF n, off
<1>6. 0 \in Good
  <2>1. Holds(0)
    BY <1>4
  <2> HIDE DEF Holds
  <2> QED BY <1>4, <2>1
<1>7. ASSUME NEW m \in 0..(n - 1), m \in Good PROVE m + 1 \in Good
  <2>1. m + 1 \in 1..n /\ m + 1 \in 0..n /\ m \in 0..n /\ m + 1 - 1 = m /\ m \in 0..m
    BY <1>1
  <2>2. /\ f[m] \in Seq(S) /\ off[m] \in Nat
        /\ \A k \in 0..m : off[k] \in Nat
        /\ \A k \in 1..m : Placed(m, k)
    BY <1>7, <2>1
  <2>3. f[m + 1] = f[m] \o ss[m + 1] /\ off[m] = Len(f[m]) /\ off[m + 1] = Len(f[m + 1])
    BY <1>2, <1>3, <2>1 DEF Partial, n
  <2>4. PICK c \in Nat : c = Len(ss[m + 1])
    BY <1>1, <2>1
  <2>5. /\ f[m + 1] \in Seq(S) /\ off[m + 1] = off[m] + c
        /\ \A i \in 1..off[m] : f[m + 1][i] = f[m][i]
        /\ \A i \in 1..c : f[m + 1][off[m] + i] = ss[m + 1][i]
    <3>1. f[m] \in Seq(S) /\ ss[m + 1] \in Seq(S)
      BY <1>1, <2>1, <2>2
    <3> DEFINE u == f[m]
               v == ss[m + 1]
    <3>2. u \in Seq(S) /\ v \in Seq(S) /\ f[m + 1] = u \o v
      BY <2>3, <3>1
    <3> HIDE DEF u, v
    <3>3. /\ u \o v \in Seq(S) /\ Len(u \o v) = Len(u) + Len(v)
          /\ \A i \in 1..Len(u) : (u \o v)[i] = u[i]
          /\ \A i \in 1..Len(v) : (u \o v)[Len(u) + i] = v[i]
      BY <3>2, BothPlaces
    <3>4. Len(u) = off[m] /\ Len(v) = c
      BY <2>3, <2>4 DEF u, v
    <3>5. /\ f[m + 1] \in Seq(S) /\ off[m + 1] = off[m] + c
          /\ \A i \in 1..off[m] : f[m + 1][i] = u[i]
          /\ \A i \in 1..c : f[m + 1][off[m] + i] = v[i]
      BY <2>3, <3>2, <3>3, <3>4
    <3> QED BY <3>5 DEF u, v
  <2> HIDE DEF Placed
  <2>6. ASSUME NEW k \in 1..(m + 1) PROVE Placed(m + 1, k)
    <3>1. CASE k = m + 1
      BY <2>1, <2>2, <2>4, <2>5, <3>1 DEF Placed
    <3>2. CASE k # m + 1
      <4>1. k \in 1..m /\ k \in 1..n /\ k \in 0..m /\ k - 1 \in 0..m
        BY <1>1, <2>1, <3>2
      <4>2. PICK r \in Nat : r = Len(ss[k])
        BY <1>1, <4>1
      <4>3. /\ off[k] <= off[m] /\ off[k] = off[k - 1] + r /\ off[k] \in Nat /\ off[k - 1] \in Nat
            /\ \A i \in 1..r : f[m][off[k - 1] + i] = ss[k][i]
        BY <2>2, <4>1, <4>2 DEF Placed
      <4>4. ASSUME NEW i \in 1..r PROVE f[m + 1][off[k - 1] + i] = ss[k][i]
        <5>1. PICK a \in Nat, q \in Nat : a = off[m] /\ q = off[k - 1] /\ q + r <= a
          BY <2>2, <4>3
        <5>2. q + i \in 1..a
          BY <5>1
        <5> QED BY <2>5, <4>3, <5>1, <5>2
      <4>5. off[k] <= off[m + 1]
        BY <2>2, <2>5, <4>3
      <4> QED BY <4>2, <4>3, <4>4, <4>5 DEF Placed
    <3> QED BY <3>1, <3>2
  <2>7. ASSUME NEW k \in 0..(m + 1) PROVE off[k] \in Nat
    <3>1. k \in 0..m \/ k = m + 1
      BY <2>1
    <3> QED BY <2>2, <2>5, <3>1
  <2>8. Holds(m + 1)
    BY <2>5, <2>6, <2>7
  <2> HIDE DEF Holds
  <2> QED BY <2>1, <2>8
<1> HIDE DEF Good
<1>8. \A m \in 0..n : m \in Good
  BY <1>1, <1>6, <1>7, Climb
<1>9. Holds(n)
  <2>1. n \in Good
    BY <1>4, <1>8
  <2> HIDE DEF Holds
  <2> QED BY <2>1 DEF Good
<1>10. off \in [0..n -> Nat] /\ off[n] = Len(f[n])
  BY <1>3, <1>4, <1>5, <1>9
<1>11. \A k \in 1..n :
         /\ off[k] = off[k - 1] + Len(ss[k]) /\ off[k] <= Len(f[n])
         /\ \A i \in 1..Len(ss[k]) : f[n][off[k - 1] + i] = ss[k][i]
  BY <1>9, <1>10
<1>12. Offsets(off, ss, f[n])
  BY <1>4, <1>10, <1>11 DEF Offsets, n
<1> QED BY <1>2, <1>12

\* Lists that are no longer than others, each by a factor and a constant.
Weighed(ss, tt, h, b) ==
  /\ Len(ss) = Len(tt) /\ h \in Nat /\ b \in Nat
  /\ \A k \in 1..Len(ss) : Len(ss[k]) <= h * Len(tt[k]) + b

LEMMA FlattenWeighed ==
  ASSUME NEW S, NEW ss \in Seq(Seq(S)), NEW T, NEW tt \in Seq(Seq(T)),
         NEW h, NEW b, Weighed(ss, tt, h, b)
  PROVE  Len(FlattenSeq(ss)) <= h * Len(FlattenSeq(tt)) + b * Len(ss)
<1> DEFINE n == Len(ss)
<1>0. /\ Len(ss) = Len(tt) /\ h \in Nat /\ b \in Nat
      /\ \A k \in 1..n : Len(ss[k]) <= h * Len(tt[k]) + b
  BY DEF Weighed
<1>1. n \in Nat /\ \A i \in 1..n : ss[i] \in Seq(S) /\ tt[i] \in Seq(T)
  BY <1>0, LenProperties, ElementOfSeq
<1>2. PICK f : Partial(ss, f) /\ FlattenSeq(ss) = f[n]
  BY Flattening
<1>3. PICK g : Partial(tt, g) /\ FlattenSeq(tt) = g[n]
  BY <1>0, Flattening
<1> DEFINE Good == {i \in 0..n : /\ f[i] \in Seq(S) /\ g[i] \in Seq(T)
                                 /\ Len(f[i]) <= h * Len(g[i]) + b * i}
<1>4. 0 \in Good
  <2>1. f[0] \in Seq(S) /\ Len(f[0]) = 0 /\ g[0] \in Seq(T) /\ Len(g[0]) = 0
    BY <1>0, <1>2, <1>3, EmptyList DEF Partial
  <2>2. h * Len(g[0]) = 0 /\ b * 0 = 0
    BY <1>0, <2>1
  <2>3. Len(f[0]) <= h * Len(g[0]) + b * 0
    BY <2>1, <2>2
  <2>4. 0 \in 0..n
    BY <1>1
  <2> QED BY <2>1, <2>3, <2>4
<1>5. ASSUME NEW i \in 0..(n - 1), i \in Good PROVE i + 1 \in Good
  <2>1. i + 1 \in 1..n /\ i + 1 \in 0..n
    BY <1>1
  <2>2. f[i + 1] = f[i] \o ss[i + 1] /\ g[i + 1] = g[i] \o tt[i + 1]
    BY <1>0, <1>2, <1>3 DEF Partial
  <2> DEFINE p == Len(f[i])
             q == Len(g[i])
             r == Len(ss[i + 1])
             t == Len(tt[i + 1])
  <2>3. /\ f[i + 1] \in Seq(S) /\ Len(f[i + 1]) = p + r
        /\ g[i + 1] \in Seq(T) /\ Len(g[i + 1]) = q + t
    BY <1>1, <1>5, <2>1, <2>2, InBoth
  <2>4. p \in Nat /\ q \in Nat /\ r \in Nat /\ t \in Nat
    BY <1>1, <1>5, <2>1, LenProperties
  <2>5. p <= h * q + b * i /\ r <= h * t + b
    BY <1>0, <1>5, <2>1
  <2> HIDE DEF p, q, r, t
  <2>6. h * q \in Nat /\ h * t \in Nat /\ b * i \in Nat
    BY <1>0, <1>1, <2>4
  <2>7. h * (q + t) = h * q + h * t /\ b * (i + 1) = b * i + b
    BY <1>0, <1>1, <2>4
  <2>8. p + r <= h * (q + t) + b * (i + 1)
    BY <1>0, <2>4, <2>5, <2>6, <2>7
  <2> QED BY <2>1, <2>3, <2>8
<1> HIDE DEF Good
<1>6. \A i \in 0..n : i \in Good
  BY <1>1, <1>4, <1>5, Climb
<1>7. n \in Good
  BY <1>1, <1>6
<1> QED BY <1>2, <1>3, <1>7 DEF Good

LEMMA FlattenSameLength ==
  ASSUME NEW S, NEW ss \in Seq(Seq(S)), NEW T, NEW tt \in Seq(Seq(T)), Len(ss) = Len(tt),
         \A k \in 1..Len(ss) : Len(ss[k]) = Len(tt[k])
  PROVE  Len(FlattenSeq(ss)) = Len(FlattenSeq(tt))
<1> DEFINE n == Len(ss)
<1>1. n \in Nat /\ \A i \in 1..n : ss[i] \in Seq(S) /\ tt[i] \in Seq(T)
  BY LenProperties, ElementOfSeq
<1>2. PICK f : Partial(ss, f) /\ FlattenSeq(ss) = f[n]
  BY Flattening
<1>3. PICK g : Partial(tt, g) /\ FlattenSeq(tt) = g[n]
  BY Flattening
<1> DEFINE Good == {i \in 0..n : /\ f[i] \in Seq(S) /\ g[i] \in Seq(T)
                                 /\ Len(f[i]) = Len(g[i])}
<1>4. 0 \in Good
  <2>1. f[0] \in Seq(S) /\ Len(f[0]) = 0 /\ g[0] \in Seq(T) /\ Len(g[0]) = 0
    BY <1>2, <1>3, EmptyList DEF Partial
  <2> QED BY <1>1, <2>1
<1>5. ASSUME NEW i \in 0..(n - 1), i \in Good PROVE i + 1 \in Good
  <2>1. i + 1 \in 1..n /\ i + 1 \in 0..n
    BY <1>1
  <2>2. f[i + 1] = f[i] \o ss[i + 1] /\ g[i + 1] = g[i] \o tt[i + 1]
    BY <1>2, <1>3 DEF Partial
  <2>3. /\ f[i + 1] \in Seq(S) /\ Len(f[i + 1]) = Len(f[i]) + Len(ss[i + 1])
        /\ g[i + 1] \in Seq(T) /\ Len(g[i + 1]) = Len(g[i]) + Len(tt[i + 1])
    BY <1>1, <1>5, <2>1, <2>2, InBoth
  <2> QED BY <1>5, <2>1, <2>3
<1> HIDE DEF Good
<1>6. \A i \in 0..n : i \in Good
  BY <1>1, <1>4, <1>5, Climb
<1>7. n \in Good
  BY <1>1, <1>6
<1> QED BY <1>2, <1>3, <1>7 DEF Good

\* Pairs joined one after the other, and all firsts before all seconds: as long,
\* and the same if nothing first comes after something second.
Paired(S, n, ff, pp, both) ==
  /\ n \in Nat
  /\ ff \in [1..n -> Seq(S)] /\ pp \in [1..n -> Seq(S)] /\ both \in [1..n -> Seq(S)]
  /\ \A i \in 1..n : both[i] = ff[i] \o pp[i]
Apart(n, ff, pp) == \A i, j \in 1..n : i < j => ff[j] = <<>> \/ pp[i] = <<>>

LEMMA FlattenPairs ==
  ASSUME NEW S, NEW n, NEW ff, NEW pp, NEW both, Paired(S, n, ff, pp, both)
  PROVE  /\ FlattenSeq(both) \in Seq(S)
         /\ FlattenSeq(ff) \in Seq(S) /\ FlattenSeq(pp) \in Seq(S)
         /\ Len(FlattenSeq(both)) = Len(FlattenSeq(ff) \o FlattenSeq(pp))
         /\ Apart(n, ff, pp) => FlattenSeq(both) = FlattenSeq(ff) \o FlattenSeq(pp)
<1>0. \A x, y, z \in Seq(S) : (x \o y) \o z = x \o (y \o z)
  BY ConcatAssociative
<1>12. /\ n \in Nat
       /\ ff \in [1..n -> Seq(S)] /\ pp \in [1..n -> Seq(S)] /\ both \in [1..n -> Seq(S)]
       /\ \A i \in 1..n : both[i] = ff[i] \o pp[i]
  BY DEF Paired
<1>1. /\ ff \in Seq(Seq(S)) /\ pp \in Seq(Seq(S)) /\ both \in Seq(Seq(S))
      /\ Len(ff) = n /\ Len(pp) = n /\ Len(both) = n
  BY <1>12, IsASeq
<1>2. PICK f : Partial(ff, f) /\ FlattenSeq(ff) = f[n]
  BY <1>1, Flattening
<1>3. PICK p : Partial(pp, p) /\ FlattenSeq(pp) = p[n]
  BY <1>1, Flattening
<1>4. PICK m : Partial(both, m) /\ FlattenSeq(both) = m[n]
  BY <1>1, Flattening
<1> DEFINE Holds(i) == /\ m[i] \in Seq(S) /\ f[i] \in Seq(S) /\ p[i] \in Seq(S)
                       /\ Len(m[i]) = Len(f[i]) + Len(p[i])
                       /\ Apart(n, ff, pp) => m[i] = f[i] \o p[i]
                       /\ p[i] = <<>> \/ \E k \in 1..i : pp[k] # <<>>
           Good == {i \in 0..n : Holds(i)}
<1>5. 0 \in Good
  <2>1. m[0] = <<>> /\ f[0] = <<>> /\ p[0] = <<>> /\ <<>> \in Seq(S) /\ Len(<<>>) = 0
    BY <1>2, <1>3, <1>4, EmptyList DEF Partial
  <2>2. <<>> \o <<>> = <<>>
    BY <2>1, ConcatEmptySeq
  <2>3. m[0] = f[0] \o p[0]
    BY <2>1, <2>2
  <2>4. Len(m[0]) = Len(f[0]) + Len(p[0])
    BY <2>1
  <2>5. 0 \in 0..n
    BY <1>12
  <2> QED BY <2>1, <2>3, <2>4, <2>5
<1>6. ASSUME NEW i \in 0..(n - 1), i \in Good PROVE i + 1 \in Good
  <2>1. i + 1 \in 1..n /\ i + 1 \in 0..n
    BY <1>12
  <2>3. PICK a \in Seq(S), b \in Seq(S) : a = ff[i + 1] /\ b = pp[i + 1]
    BY <1>12, <2>1
  <2>2. /\ f[i + 1] = f[i] \o a /\ p[i + 1] = p[i] \o b
        /\ m[i + 1] = m[i] \o (a \o b)
    BY <1>1, <1>2, <1>3, <1>4, <1>12, <2>1, <2>3 DEF Partial
  <2>4. /\ f[i + 1] \in Seq(S) /\ Len(f[i + 1]) = Len(f[i]) + Len(a)
        /\ p[i + 1] \in Seq(S) /\ Len(p[i + 1]) = Len(p[i]) + Len(b)
        /\ m[i + 1] \in Seq(S) /\ Len(m[i + 1]) = Len(m[i]) + (Len(a) + Len(b))
    BY <1>6, <2>2, <2>3, InBoth
  <2>5. Len(m[i + 1]) = Len(f[i + 1]) + Len(p[i + 1])
    <3>1. Len(m[i]) = Len(f[i]) + Len(p[i])
      BY <1>6
    <3>2. Len(f[i]) \in Nat /\ Len(p[i]) \in Nat /\ Len(a) \in Nat /\ Len(b) \in Nat
      BY <1>6, <2>3, LenProperties
    <3>3. PICK x \in Nat, y \in Nat, u \in Nat, v \in Nat :
            x = Len(f[i]) /\ y = Len(p[i]) /\ u = Len(a) /\ v = Len(b)
      BY <3>2
    <3>4. Len(m[i + 1]) = (x + y) + (u + v)
      BY <2>4, <3>1, <3>3
    <3>5. Len(f[i + 1]) = x + u /\ Len(p[i + 1]) = y + v
      BY <2>4, <3>3
    <3>6. (x + y) + (u + v) = (x + u) + (y + v)
      OBVIOUS
    <3> QED BY <3>4, <3>5, <3>6
  <2>6. ASSUME Apart(n, ff, pp) PROVE m[i + 1] = f[i + 1] \o p[i + 1]
    <3>1. m[i] = f[i] \o p[i] /\ (p[i] = <<>> \/ \E k \in 1..i : pp[k] # <<>>)
      BY <1>6, <2>6
    <3>2. a = <<>> \/ p[i] = <<>>
      <4>1. ASSUME NEW k \in 1..i, pp[k] # <<>> PROVE a = <<>>
        <5>1. k \in 1..n /\ k < i + 1
          BY <1>12, <2>1
        <5> QED BY <1>12, <2>1, <2>3, <2>6, <4>1, <5>1 DEF Apart
      <4> QED BY <3>1, <4>1
    <3>3. f[i] \in Seq(S) /\ p[i] \in Seq(S)
      BY <1>6
    <3>4. (f[i] \o p[i]) \o (a \o b) = (f[i] \o a) \o (p[i] \o b)
      <4>1. CASE a = <<>>
        <5>1. a \o b = b /\ f[i] \o a = f[i]
          BY <2>3, <3>3, <4>1, ConcatEmptySeq
        <5>2. (f[i] \o p[i]) \o b = f[i] \o (p[i] \o b)
          <6>1. b \in Seq(S)
            BY <2>3
          <6> QED BY ONLY <1>0, <3>3, <6>1
        <5> QED BY <5>1, <5>2
      <4>2. CASE p[i] = <<>>
        <5>1. f[i] \o p[i] = f[i] /\ p[i] \o b = b
          BY <2>3, <3>3, <4>2, ConcatEmptySeq
        <5>2. f[i] \o (a \o b) = (f[i] \o a) \o b
          BY <1>0, <2>3, <3>3
        <5> QED BY <5>1, <5>2
      <4> QED BY <3>2, <4>1, <4>2
    <3> QED BY <2>2, <3>1, <3>4
  <2>7. p[i + 1] = <<>> \/ \E k \in 1..(i + 1) : pp[k] # <<>>
    <3>1. p[i] = <<>> \/ \E k \in 1..i : pp[k] # <<>>
      BY <1>6
    <3>2. CASE b = <<>>
      <4>1. p[i + 1] = p[i]
        BY <1>6, <2>2, <3>2, ConcatEmptySeq
      <4>2. \A k \in 1..i : k \in 1..(i + 1)
        OBVIOUS
      <4> QED BY <3>1, <4>1, <4>2
    <3>3. CASE b # <<>>
      <4>1. i + 1 \in 1..(i + 1)
        OBVIOUS
      <4> QED BY <2>3, <3>3, <4>1
    <3> QED BY <3>2, <3>3
  <2>8. Holds(i + 1)
    BY <1>0, <2>4, <2>5, <2>6, <2>7
  <2> QED BY <2>1, <2>8
<1> HIDE DEF Good
<1>7. \A i \in 0..n : i \in Good
  BY <1>5, <1>6, <1>12, Climb
<1>8. n \in Good
  BY <1>7, <1>12
<1>9. /\ m[n] \in Seq(S) /\ f[n] \in Seq(S) /\ p[n] \in Seq(S)
      /\ Len(m[n]) = Len(f[n]) + Len(p[n])
      /\ Apart(n, ff, pp) => m[n] = f[n] \o p[n]
  BY <1>8 DEF Good
<1>10. Len(f[n] \o p[n]) = Len(f[n]) + Len(p[n])
  BY <1>9, InBoth
<1> QED BY <1>2, <1>3, <1>4, <1>9, <1>10

-----------------------------------------------------------------------------
(* A list filtered: what was in it and may stay, once if it was in it once.*)

LEMMA KeptHolds ==
  ASSUME NEW S, NEW s \in Seq(S), NEW T
  PROVE  /\ Kept(s, T) \in Seq(S)
         /\ ToSet(Kept(s, T)) = ToSet(s) \cap T
         /\ IsInjective(s) => IsInjective(Kept(s, T))
<1> DEFINE n == Len(s)
           ss == [i \in DOMAIN s |-> IF s[i] \in T THEN <<s[i]>> ELSE <<>>]
<1>1. n \in Nat /\ DOMAIN s = 1..n /\ \A i \in 1..n : s[i] \in S
  BY InList
<1>2. \A x \in S : <<x>> \in Seq(S) /\ ToSet(<<x>>) = {x} /\ IsInjective(<<x>>)
  <2> TAKE x \in S
  <2>1. <<x>> \in Seq(S) /\ Len(<<x>>) = 1 /\ <<x>>[1] = x /\ DOMAIN <<x>> = 1..1
    OBVIOUS
  <2> QED BY <2>1 DEF ToSet, IsInjective
<1>3. <<>> \in Seq(S) /\ ToSet(<<>>) = {} /\ IsInjective(<<>>)
  BY EmptyList
<1>4. \A i \in 1..n : /\ ss[i] \in Seq(S) /\ IsInjective(ss[i])
                     /\ \A x : x \in ToSet(ss[i]) <=> x = s[i] /\ x \in T
  BY <1>1, <1>2, <1>3
<1>5. ss \in Seq(Seq(S)) /\ Len(ss) = n
  <2>1. ss \in [1..n -> Seq(S)]
    BY <1>1, <1>4
  <2> HIDE DEF ss
  <2> QED BY <1>1, <2>1, IsASeq
<1>6. Kept(s, T) = FlattenSeq(ss)
  BY DEF Kept
<1> HIDE DEF ss
<1>7. Kept(s, T) \in Seq(S)
  BY <1>5, <1>6, FlattenHolds
<1>8. \A x : x \in ToSet(Kept(s, T)) <=> \E k \in 1..n : x \in ToSet(ss[k])
  BY <1>5, <1>6, FlattenHolds
<1>9. \A x : x \in ToSet(Kept(s, T)) <=> x \in ToSet(s) /\ x \in T
  <2> TAKE x
  <2>1. x \in ToSet(s) <=> \E i \in 1..n : s[i] = x
    BY InList
  <2> QED BY <1>4, <1>8, <2>1
<1>10. ASSUME IsInjective(s) PROVE IsInjective(Kept(s, T))
  <2>1. \A k, l \in 1..n : s[k] = s[l] => k = l
    BY <1>1, <1>10 DEF IsInjective
  <2>2. \A k, l \in 1..Len(ss) : k # l => ToSet(ss[k]) \cap ToSet(ss[l]) = {}
    <3>1. ASSUME NEW k \in 1..n, NEW l \in 1..n, NEW x \in ToSet(ss[k]), x \in ToSet(ss[l])
          PROVE  k = l
      <4>1. x = s[k] /\ x = s[l]
        BY <1>4, <3>1
      <4> QED BY <2>1, <4>1
    <3>2. \A k, l \in 1..n : k # l => ~ \E x : x \in ToSet(ss[k]) /\ x \in ToSet(ss[l])
      BY <3>1
    <3> QED BY <1>5, <3>2
  <2>3. \A k \in 1..Len(ss) : IsInjective(ss[k])
    BY <1>4, <1>5
  <2>4. IsInjective(FlattenSeq(ss))
    BY <1>5, <2>2, <2>3, FlattenInjective
  <2> QED BY <1>6, <2>4
<1> QED BY <1>7, <1>9, <1>10

-----------------------------------------------------------------------------
(* A finite set as a list, in any order.                                   *)

LEMMA ListedOnce ==
  ASSUME NEW S, IsFiniteSet(S)
  PROVE  /\ SetToSeq(S) \in Seq(S) /\ Len(SetToSeq(S)) = Cardinality(S)
         /\ IsInjective(SetToSeq(S)) /\ ToSet(SetToSeq(S)) = S
<1>1. PICK n \in Nat : n = Cardinality(S)
  BY FS_CardinalityType
<1>2. PICK g \in Bijection(1..n, S) : TRUE
  BY <1>1, FS_CardinalityType DEF ExistsBijection
<1>3. g \in [1..n -> S] /\ IsInjective(g)
  <2>1. g \in [1..n -> S] /\ \A i, j \in 1..n : g[i] = g[j] => i = j
    BY <1>2, Fun_BijectionProperties
  <2> QED BY <2>1 DEF IsInjective
<1>4. PICK f : f = SetToSeq(S)
  OBVIOUS
<1>5. f \in [1..n -> S] /\ IsInjective(f)
  <2>1. f = CHOOSE h \in [1..n -> S] : IsInjective(h)
    BY <1>1, <1>4 DEF SetToSeq
  <2> QED BY <1>3, <2>1
<1>6. f \in Seq(S) /\ Len(f) = n
  BY <1>5, IsASeq
<1>7. f \in Injection(1..n, S)
  BY <1>5 DEF Injection
<1>8. IsFiniteSet(1..n) /\ Cardinality(1..n) = n
  BY FS_Interval
<1>9. f \in Surjection(1..n, S)
  BY <1>1, <1>7, <1>8, FS_Injection
<1>10. \A x \in S : \E i \in 1..n : f[i] = x
  BY <1>9, Fun_SurjectionProperties
<1>11. ToSet(f) = S
  <2>1. \A x : x \in ToSet(f) <=> \E i \in 1..n : f[i] = x
    BY <1>6, InList
  <2>2. \A i \in 1..n : f[i] \in S
    BY <1>5
  <2> QED BY <1>10, <2>1, <2>2
<1> QED BY <1>1, <1>4, <1>5, <1>6, <1>11

-----------------------------------------------------------------------------
(* A finite set sorted by a strict total order.                            *)

StrictTotal(S, R) ==
  /\ \A x \in S : <<x, x>> \notin R
  /\ \A x, y, z \in S : <<x, y>> \in R /\ <<y, z>> \in R => <<x, z>> \in R
  /\ \A x, y \in S : x # y => <<x, y>> \in R \/ <<y, x>> \in R

\* The farther back an element is, the more there are ahead of it.
LEMMA RanksGrow ==
  ASSUME NEW S, IsFiniteSet(S), NEW R, StrictTotal(S, R)
  PROVE  /\ \A x \in S : Cardinality(Ahead(S, R, x)) \in 0..(Cardinality(S) - 1)
         /\ \A x, y \in S : <<x, y>> \in R =>
              Cardinality(Ahead(S, R, x)) < Cardinality(Ahead(S, R, y))
<1>1. ASSUME NEW x \in S
      PROVE  IsFiniteSet(Ahead(S, R, x)) /\ Cardinality(Ahead(S, R, x)) \in 0..(Cardinality(S) - 1)
  <2>1. Ahead(S, R, x) \in SUBSET (S \ {x})
    BY DEF Ahead, StrictTotal
  <2>2. IsFiniteSet(S \ {x}) /\ Cardinality(S \ {x}) = Cardinality(S) - 1
    BY FS_RemoveElement
  <2>3. IsFiniteSet(Ahead(S, R, x)) /\ Cardinality(Ahead(S, R, x)) <= Cardinality(S) - 1
    BY <2>1, <2>2, FS_Subset
  <2>4. Cardinality(Ahead(S, R, x)) \in Nat /\ Cardinality(S) \in Nat
    BY <2>3, FS_CardinalityType
  <2> QED BY <2>3, <2>4
<1>2. ASSUME NEW x \in S, NEW y \in S, <<x, y>> \in R
      PROVE  Cardinality(Ahead(S, R, x)) < Cardinality(Ahead(S, R, y))
  <2>1. Ahead(S, R, x) \in SUBSET Ahead(S, R, y)
    BY <1>2 DEF Ahead, StrictTotal
  <2>2. x \in Ahead(S, R, y) /\ x \notin Ahead(S, R, x)
    BY <1>2 DEF Ahead, StrictTotal
  <2>3. Ahead(S, R, x) # Ahead(S, R, y)
    BY <2>2
  <2>4. /\ Cardinality(Ahead(S, R, x)) <= Cardinality(Ahead(S, R, y))
        /\ Cardinality(Ahead(S, R, x)) # Cardinality(Ahead(S, R, y))
    BY <1>1, <2>1, <2>3, FS_Subset
  <2>5. Cardinality(Ahead(S, R, x)) \in Nat /\ Cardinality(Ahead(S, R, y)) \in Nat
    BY <1>1
  <2> QED BY <2>4, <2>5
<1> QED BY <1>1, <1>2

\* The sorted list has every element once, and in order.
LEMMA SortedHolds ==
  ASSUME NEW S, IsFiniteSet(S), NEW R, StrictTotal(S, R)
  PROVE  /\ Sorted(S, R) \in Seq(S)
         /\ Len(Sorted(S, R)) = Cardinality(S)
         /\ IsInjective(Sorted(S, R))
         /\ ToSet(Sorted(S, R)) = S
         /\ \A i, j \in 1..Cardinality(S) :
              i < j => <<Sorted(S, R)[i], Sorted(S, R)[j]>> \in R
<1> DEFINE n == Cardinality(S)
           rank(x) == Cardinality(Ahead(S, R, x))
           s == Sorted(S, R)
<1>1. n \in Nat
  BY FS_CardinalityType
<1>2. \A x \in S : rank(x) \in 0..(n - 1)
  BY RanksGrow
<1>3. \A x, y \in S : <<x, y>> \in R => rank(x) < rank(y)
  BY RanksGrow
<1> HIDE DEF n, rank
<1>4. \A x, y \in S : rank(x) = rank(y) => x = y
  <2> TAKE x, y \in S
  <2>1. rank(x) \in Int /\ rank(y) \in Int
    BY <1>2
  <2>2. x # y => <<x, y>> \in R \/ <<y, x>> \in R
    BY DEF StrictTotal
  <2> QED BY <1>3, <2>1, <2>2
<1>5. \A k \in 1..n : \E x \in S : rank(x) = k - 1
  <2> DEFINE f == [x \in S |-> rank(x) + 1]
  <2>1. f \in [S -> 1..n]
    BY <1>1, <1>2
  <2>2. \A x, y \in S : f[x] = f[y] => x = y
    BY <1>2, <1>4
  <2>3. f \in Injection(S, 1..n)
    BY <2>1, <2>2 DEF Injection, IsInjective
  <2>4. IsFiniteSet(1..n) /\ Cardinality(1..n) = n
    BY <1>1, FS_Interval
  <2>5. f \in Surjection(S, 1..n)
    BY <2>3, <2>4, FS_Injection DEF n
  <2>6. \A k \in 1..n : \E x \in S : f[x] = k
    BY <2>5 DEF Surjection
  <2> QED BY <1>2, <2>6
<1>6. \A k \in 1..n : s[k] \in S /\ rank(s[k]) = k - 1
  <2>1. s = [k \in 1..n |-> CHOOSE x \in S : rank(x) = k - 1]
    BY DEF Sorted, n, rank
  <2> HIDE DEF s
  <2> TAKE k \in 1..n
  <2>2. s[k] = CHOOSE x \in S : rank(x) = k - 1
    BY <2>1
  <2> QED BY <1>5, <2>2
<1>7. DOMAIN s = 1..n
  BY DEF Sorted, n
<1>8. s \in Seq(S) /\ Len(s) = n
  <2>1. s \in [1..n -> S]
    <3>1. s = [k \in 1..n |-> s[k]]
      BY DEF Sorted, n
    <3> HIDE DEF s
    <3> QED BY <1>6, <3>1
  <2> HIDE DEF s
  <2> QED BY <1>1, <2>1, IsASeq
<1> HIDE DEF s
<1>9. IsInjective(s)
  <2>1. \A i, j \in 1..n : s[i] = s[j] => i = j
    BY <1>1, <1>6
  <2> QED BY <1>7, <2>1 DEF IsInjective
<1>10. ToSet(s) = S
  <2>1. ASSUME NEW x \in S PROVE \E k \in 1..n : s[k] = x
    <3>1. rank(x) + 1 \in 1..n
      BY <1>1, <1>2
    <3>2. s[rank(x) + 1] \in S /\ rank(s[rank(x) + 1]) = rank(x)
      BY <1>2, <1>6, <3>1
    <3>3. s[rank(x) + 1] = x
      BY <1>4, <3>2
    <3> QED BY <3>1, <3>3
  <2>2. \A x : x \in ToSet(s) <=> \E k \in 1..n : s[k] = x
    BY <1>8, InList
  <2> QED BY <1>6, <2>1, <2>2
<1>11. ASSUME NEW i \in 1..n, NEW j \in 1..n, i < j PROVE <<s[i], s[j]>> \in R
  <2>1. s[i] \in S /\ s[j] \in S /\ rank(s[i]) = i - 1 /\ rank(s[j]) = j - 1
    BY <1>6
  <2>2. s[i] # s[j] /\ ~(rank(s[j]) < rank(s[i]))
    BY <1>1, <1>11, <2>1
  <2>3. <<s[j], s[i]>> \notin R
    BY <1>3, <2>1, <2>2
  <2> QED BY <2>1, <2>2, <2>3 DEF StrictTotal
<1> QED BY <1>8, <1>9, <1>10, <1>11 DEF s, n

-----------------------------------------------------------------------------
(* A part of a list, as LIMIT and SKIP take it.                            *)

LEMMA SliceHolds ==
  ASSUME NEW S, NEW s \in Seq(S), NEW a \in Nat, NEW e \in Nat, e <= Len(s),
         NEW t, t = SubSeq(s, a + 1, e)
  PROVE  /\ t \in Seq(S) /\ Len(t) \in Nat
         /\ a < e => Len(t) = e - a
         /\ e <= a => Len(t) = 0
         /\ \A i \in 1..Len(t) : a + i \in 1..Len(s) /\ t[i] = s[a + i]
         /\ ToSet(t) \subseteq ToSet(s)
<1>1. Len(s) \in Nat /\ e \in 0..Len(s) /\ \A i \in 1..Len(s) : s[i] \in S
  BY InList
<1>2. \A i \in (a + 1)..e : s[i] \in S
  BY <1>1
<1>3. /\ t \in Seq(S)
      /\ Len(t) = IF a + 1 <= e THEN e - (a + 1) + 1 ELSE 0
      /\ \A i \in 1..(e - (a + 1) + 1) : t[i] = s[a + 1 + i - 1]
  BY <1>1, <1>2, SubSeqProperties
<1>4. Len(t) \in Nat /\ (a < e => Len(t) = e - a) /\ (e <= a => Len(t) = 0)
  BY <1>1, <1>3
<1>5. ASSUME NEW i \in 1..Len(t) PROVE a + i \in 1..Len(s) /\ t[i] = s[a + i]
  <2>1. i \in 1..(e - (a + 1) + 1) /\ a + 1 + i - 1 = a + i
    BY <1>1, <1>4
  <2> QED BY <1>1, <1>3, <2>1
<1>6. ASSUME NEW x \in ToSet(t) PROVE x \in ToSet(s)
  <2>1. PICK i \in 1..Len(t) : t[i] = x
    <3>1. t \in Seq(S)
      BY <1>3
    <3>2. DOMAIN t = 1..Len(t)
      BY ONLY <3>1, LenProperties
    <3> QED BY ONLY <3>2, x \in ToSet(t) DEF ToSet
  <2>2. a + i \in 1..Len(s) /\ s[a + i] = x
    BY <1>5, <2>1
  <2>3. \E j \in 1..Len(s) : s[j] = x
    BY <2>2
  <2> QED BY <2>3, InList
<1> QED BY <1>3, <1>4, <1>5, <1>6

LEMMA PrefixHolds ==
  ASSUME NEW S, NEW s \in Seq(S), NEW e \in Nat, e <= Len(s)
  PROVE  /\ SubSeq(s, 1, e) \in Seq(S) /\ Len(SubSeq(s, 1, e)) = e
         /\ \A i \in 1..e : SubSeq(s, 1, e)[i] = s[i]
         /\ ToSet(SubSeq(s, 1, e)) \subseteq ToSet(s)
<1>1. PICK a \in Nat : a = 0
  OBVIOUS
<1>0. a + 1 = 1
  BY <1>1
<1>2. PICK t : t = SubSeq(s, 1, e) /\ t = SubSeq(s, a + 1, e)
  BY ONLY <1>0, Zenon
<1>3. t \in Seq(S) /\ Len(t) \in Nat
  BY <1>2, SliceHolds
<1>4. (a < e => Len(t) = e - a) /\ (e <= a => Len(t) = 0)
  BY <1>2, SliceHolds
<1>5. Len(t) = e
  BY <1>1, <1>4
<1>6. \A i \in 1..Len(t) : t[i] = s[a + i]
  BY <1>2, SliceHolds
<1>7. ToSet(t) \subseteq ToSet(s)
  BY <1>2, SliceHolds
<1>8. \A i \in 1..e : t[i] = s[i]
  BY <1>1, <1>5, <1>6
<1> QED BY <1>2, <1>3, <1>5, <1>7, <1>8

-----------------------------------------------------------------------------
(* Sorting by the keys, the first that differs deciding.                   *)

LEMMA PrecedesTotal ==
  ASSUME NEW n \in Nat
  PROVE  /\ \A s \in [1..n -> Nat] : ~Precedes(s, s)
         /\ \A s, t, u \in [1..n -> Nat] : Precedes(s, t) /\ Precedes(t, u) => Precedes(s, u)
         /\ \A s, t \in [1..n -> Nat] : s # t => Precedes(s, t) \/ Precedes(t, s)
<1>1. \A s \in [1..n -> Nat] : ~Precedes(s, s)
  BY DEF Precedes
<1>2. ASSUME NEW s \in [1..n -> Nat], NEW t \in [1..n -> Nat], NEW u \in [1..n -> Nat],
             Precedes(s, t), Precedes(t, u)
      PROVE  Precedes(s, u)
  <2>1. PICK i \in 1..n : s[i] < t[i] /\ \A k \in 1..(i - 1) : s[k] = t[k]
    BY <1>2 DEF Precedes
  <2>2. PICK j \in 1..n : t[j] < u[j] /\ \A k \in 1..(j - 1) : t[k] = u[k]
    BY <1>2 DEF Precedes
  <2>3. CASE i < j
    <3>1. s[i] < u[i]
      BY <2>1, <2>2, <2>3
    <3>2. \A k \in 1..(i - 1) : s[k] = u[k]
      BY <2>1, <2>2, <2>3
    <3> QED BY <3>1, <3>2 DEF Precedes
  <2>4. CASE j < i
    <3>1. s[j] < u[j]
      BY <2>1, <2>2, <2>4
    <3>2. \A k \in 1..(j - 1) : s[k] = u[k]
      BY <2>1, <2>2, <2>4
    <3> QED BY <3>1, <3>2 DEF Precedes
  <2>5. CASE i = j
    <3>1. s[i] \in Nat /\ t[i] \in Nat /\ u[i] \in Nat
      OBVIOUS
    <3>2. s[i] < u[i]
      BY <2>1, <2>2, <2>5, <3>1
    <3>3. \A k \in 1..(i - 1) : s[k] = u[k]
      BY <2>1, <2>2, <2>5
    <3> QED BY <3>2, <3>3 DEF Precedes
  <2> QED BY <2>3, <2>4, <2>5
<1>3. ASSUME NEW s \in [1..n -> Nat], NEW t \in [1..n -> Nat], s # t
      PROVE  Precedes(s, t) \/ Precedes(t, s)
  <2> DEFINE differ == {i \in 1..n : s[i] # t[i]}
  <2>1. differ \subseteq Nat /\ differ # {}
    BY <1>3
  <2>2. PICK i \in differ : \A k \in differ : i <= k
    BY <2>1, Least
  <2>3. i \in 1..n /\ s[i] # t[i] /\ s[i] \in Nat /\ t[i] \in Nat
    OBVIOUS
  <2>4. \A k \in 1..(i - 1) : s[k] = t[k]
    <3> TAKE k \in 1..(i - 1)
    <3>1. k \in 1..n /\ ~(i <= k)
      BY <2>3
    <3> QED BY <2>2, <3>1
  <2>5. s[i] < t[i] \/ t[i] < s[i]
    BY <2>3
  <2> HIDE DEF differ
  <2> QED BY <2>3, <2>4, <2>5 DEF Precedes
<1> QED BY <1>1, <1>2, <1>3

\* Rows that differ in some key are in a strict total order.
LEMMA KeysOrder ==
  ASSUME NEW S, NEW n \in Nat, NEW key \in [S -> [1..n -> Nat]],
         \A x, y \in S : key[x] = key[y] => x = y,
         NEW R, \A x, y \in S : <<x, y>> \in R <=> Precedes(key[x], key[y])
  PROVE  StrictTotal(S, R)
<1>2. \A x \in S : key[x] \in [1..n -> Nat]
  OBVIOUS
<1>3. \A x \in S : <<x, x>> \notin R
  BY <1>2, PrecedesTotal
<1>4. \A x, y, z \in S : <<x, y>> \in R /\ <<y, z>> \in R => <<x, z>> \in R
  <2> TAKE x, y, z \in S
  <2>1. Precedes(key[x], key[y]) /\ Precedes(key[y], key[z]) => Precedes(key[x], key[z])
    BY <1>2, PrecedesTotal
  <2> QED BY <2>1
<1>5. \A x, y \in S : x # y => <<x, y>> \in R \/ <<y, x>> \in R
  <2> TAKE x, y \in S
  <2>1. key[x] # key[y] => Precedes(key[x], key[y]) \/ Precedes(key[y], key[x])
    BY <1>2, PrecedesTotal
  <2> QED BY <2>1
<1> QED BY <1>3, <1>4, <1>5 DEF StrictTotal

-----------------------------------------------------------------------------
(* Lists of a length over a finite set are finitely many.                  *)

LEMMA FiniteLists ==
  ASSUME NEW S, IsFiniteSet(S), NEW n \in Nat
  PROVE  IsFiniteSet([1..n -> S])
<1> DEFINE L(i) == [1..i -> S]
           Good == {i \in 0..n : IsFiniteSet(L(i))}
<1>1. 0 \in Good
  <2>1. PICK e : L(0) = {e}
    <3> DEFINE e == [i \in 1..0 |-> 0]
    <3>1. 1..0 = {}
      OBVIOUS
    <3>2. e \in L(0) /\ \A g \in L(0) : g = e
      BY <3>1
    <3> QED BY <3>2, Zenon
  <2>2. IsFiniteSet(L(0))
    BY <2>1, FS_Singleton
  <2> QED BY <2>2
<1>2. ASSUME NEW i \in 0..(n - 1), i \in Good PROVE i + 1 \in Good
  <2> DEFINE P == L(i) \X S
             f == [p \in P |-> [k \in 1..(i + 1) |-> IF k = i + 1 THEN p[2] ELSE p[1][k]]]
  <2>1. IsFiniteSet(P)
    BY <1>2, FS_Product
  <2>2. f \in [P -> L(i + 1)]
    OBVIOUS
  <2>3. ASSUME NEW g \in L(i + 1) PROVE \E p \in P : f[p] = g
    <3> DEFINE h == [k \in 1..i |-> g[k]]
    <3>1. <<h, g[i + 1]>> \in P
      OBVIOUS
    <3>2. f[<<h, g[i + 1]>>] = g
      BY <3>1
    <3> QED BY <3>1, <3>2
  <2>4. f \in Surjection(P, L(i + 1))
    BY <2>2, <2>3 DEF Surjection
  <2> HIDE DEF f, P
  <2>5. IsFiniteSet(L(i + 1))
    BY <2>1, <2>4, FS_Surjection
  <2> QED BY <2>5
<1> HIDE DEF Good
<1>3. \A i \in 0..n : i \in Good
  BY <1>1, <1>2, Climb
<1>4. n \in Good
  BY <1>3
<1> QED BY <1>4 DEF Good
=============================================================================
