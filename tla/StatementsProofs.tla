-------------------------- MODULE StatementsProofs --------------------------
(***************************************************************************)
(* Proofs about Statements, for every filter, however deep, every route    *)
(* and every row.                                                          *)
(***************************************************************************)
EXTENDS Statements, ListsProofs

-----------------------------------------------------------------------------
(* Trees.  Both induction and recursion go by their depth.                 *)

LEMMA TreeLevels ==
  /\ Depth \in Nat /\ Trees = TreesOf[Depth] /\ TreesOf[0] = Tests
  /\ \A n \in 1..Depth : TreesOf[n] = Tests \cup ({"and", "or"} \X TreesOf[n - 1] \X TreesOf[n - 1])
                                            \cup ({"not"} \X TreesOf[n - 1])
<1> DEFINE Up(S) == Tests \cup ({"and", "or"} \X S \X S) \cup ({"not"} \X S)
           Levels(m, g) == g = [n \in 0..m |-> IF n = 0 THEN Tests ELSE Up(g[n - 1])]
           Good == {m \in 0..Depth : \E g : Levels(m, g)}
<1>1. Depth \in Nat
  BY WhereAssumption
<1>2. 0 \in Good
  <2> DEFINE g == [n \in 0..0 |-> Tests]
  <2> HIDE DEF Up
  <2>1. Levels(0, g)
    OBVIOUS
  <2> HIDE DEF g, Levels
  <2> QED BY <1>1, <2>1
<1>3. ASSUME NEW m \in 0..(Depth - 1), m \in Good PROVE m + 1 \in Good
  <2> HIDE DEF Up
  <2>1. PICK g : Levels(m, g)
    BY <1>3
  <2> DEFINE h == [n \in 0..(m + 1) |-> IF n = 0 THEN Tests ELSE Up(g[n - 1])]
  <2>2. ASSUME NEW n \in 0..(m + 1), n # 0 PROVE h[n - 1] = g[n - 1]
    <3>1. n - 1 \in 0..m /\ n - 1 \in 0..(m + 1)
      BY <1>1, <2>2
    <3>2. g[n - 1] = IF n - 1 = 0 THEN Tests ELSE Up(g[n - 1 - 1])
      BY <2>1, <3>1
    <3> QED BY <3>1, <3>2
  <2>3. Levels(m + 1, h)
    BY <2>2
  <2>4. m + 1 \in 0..Depth
    BY <1>1
  <2> HIDE DEF h, Levels
  <2> QED BY <2>3, <2>4
<1>4. \E g : Levels(Depth, g)
  <2> HIDE DEF Good
  <2>1. \A m \in 0..Depth : m \in Good
    BY <1>1, <1>2, <1>3, Climb
  <2>2. Depth \in Good
    BY <1>1, <2>1
  <2> QED BY <2>2 DEF Good
<1>5. TreesOf = CHOOSE g : Levels(Depth, g)
  BY DEF TreesOf
<1>6. Levels(Depth, TreesOf)
  <2> HIDE DEF Levels
  <2> QED BY <1>4, <1>5
<1> HIDE DEF Up
<1>7. \A n \in 0..Depth : TreesOf[n] = IF n = 0 THEN Tests ELSE Up(TreesOf[n - 1])
  BY <1>6
<1>8. \A n \in 1..Depth : TreesOf[n] = Up(TreesOf[n - 1])
  BY <1>1, <1>7
<1>9. TreesOf[0] = Tests
  BY <1>1, <1>7
<1>10. \A n \in 1..Depth : TreesOf[n] = Tests \cup ({"and", "or"} \X TreesOf[n - 1] \X TreesOf[n - 1])
                                         \cup ({"not"} \X TreesOf[n - 1])
  BY <1>8 DEF Up
<1>11. Trees = TreesOf[Depth]
  BY DEF Trees
<1> QED BY <1>1, <1>9, <1>10, <1>11

\* The kinds of tests are not those of what joins them.
LEMMA TestKinds ==
  ASSUME NEW l \in Tests
  PROVE  /\ l[1] \in {"cmp", "like", "in", "idin", "isnull", "flag"}
         /\ l[1] \notin {"and", "or", "not"}
BY DEF Tests

LEMMA TreeStep ==
  ASSUME NEW n \in 1..Depth
  PROVE  \A x : x \in TreesOf[n] <=>
           \/ x \in Tests
           \/ \E w \in {"and", "or"}, a, b \in TreesOf[n - 1] : x = <<w, a, b>>
           \/ \E a \in TreesOf[n - 1] : x = <<"not", a>>
BY TreeLevels

LEMMA TreesGrow ==
  \A n \in 0..Depth : Tests \subseteq TreesOf[n] /\ TreesOf[n] \subseteq Trees
<1>1. Depth \in Nat /\ Trees = TreesOf[Depth] /\ TreesOf[0] = Tests
  BY TreeLevels
<1> DEFINE Good == {i \in 0..Depth : i = Depth \/ TreesOf[i] \subseteq TreesOf[i + 1]}
<1>2. 0 \in Good
  <2>1. CASE Depth # 0
    <3>1. 0 + 1 \in 1..Depth
      BY <1>1, <2>1
    <3>2. Tests \subseteq TreesOf[0 + 1]
      BY <3>1, TreeStep
    <3> QED BY <1>1, <3>2
  <2> QED BY <1>1, <2>1
<1>3. ASSUME NEW i \in 0..(Depth - 1), i \in Good PROVE i + 1 \in Good
  <2>1. CASE i + 1 # Depth
    <3>1. i + 1 \in 1..Depth /\ i + 1 + 1 \in 1..Depth /\ i + 1 - 1 = i /\ i + 1 + 1 - 1 = i + 1 /\ i # Depth
      BY <1>1, <2>1
    <3>2. TreesOf[i] \subseteq TreesOf[i + 1]
      BY <1>3, <3>1
    <3>3. ASSUME NEW x \in TreesOf[i + 1] PROVE x \in TreesOf[i + 1 + 1]
      <4>1. \/ x \in Tests
            \/ \E w \in {"and", "or"}, a, b \in TreesOf[i] : x = <<w, a, b>>
            \/ \E a \in TreesOf[i] : x = <<"not", a>>
        BY <3>1, TreeStep
      <4>2. \/ x \in Tests
            \/ \E w \in {"and", "or"}, a, b \in TreesOf[i + 1] : x = <<w, a, b>>
            \/ \E a \in TreesOf[i + 1] : x = <<"not", a>>
        BY <3>2, <4>1, Zenon
      <4> QED BY <3>1, <4>2, TreeStep
    <3> QED BY <1>1, <3>3
  <2> QED BY <1>1, <2>1
<1> HIDE DEF Good
<1>4. \A i \in 0..Depth : i \in Good
  BY <1>1, <1>2, <1>3, Climb
<1> DEFINE Fine == {i \in 0..Depth : TreesOf[Depth - i] \subseteq Trees}
<1>5. 0 \in Fine
  BY <1>1
<1>6. ASSUME NEW i \in 0..(Depth - 1), i \in Fine PROVE i + 1 \in Fine
  <2>1. Depth - (i + 1) \in 0..Depth /\ Depth - (i + 1) # Depth /\ Depth - (i + 1) + 1 = Depth - i
    BY <1>1
  <2>2. TreesOf[Depth - (i + 1)] \subseteq TreesOf[Depth - i]
    BY <1>4, <2>1 DEF Good
  <2> QED BY <1>1, <1>6, <2>2
<1> HIDE DEF Fine
<1>7. \A i \in 0..Depth : i \in Fine
  BY <1>1, <1>5, <1>6, Climb
<1>8. ASSUME NEW n \in 0..Depth PROVE TreesOf[n] \subseteq Trees
  <2>1. Depth - n \in 0..Depth /\ Depth - (Depth - n) = n
    BY <1>1
  <2>2. TreesOf[Depth - (Depth - n)] \subseteq Trees
    BY <1>7, <2>1 DEF Fine
  <2> QED BY <2>1, <2>2
<1>9. ASSUME NEW n \in 0..Depth PROVE Tests \subseteq TreesOf[n]
  <2>1. CASE n \in 1..Depth
    BY <2>1, TreeStep
  <2> QED BY <1>1, <2>1
<1> QED BY <1>8, <1>9

\* A tree is a test, or made of smaller ones.
LEMMA TreeCases ==
  ASSUME NEW x \in Trees
  PROVE  \/ x \in Tests
         \/ \E w \in {"and", "or"}, a, b \in Trees : x = <<w, a, b>>
         \/ \E a \in Trees : x = <<"not", a>>
<1>1. Depth \in Nat /\ Trees = TreesOf[Depth] /\ TreesOf[0] = Tests
  BY TreeLevels
<1>2. CASE Depth # 0
  <2>1. Depth \in 1..Depth /\ Depth - 1 \in 0..Depth
    BY <1>1, <1>2
  <2>2. TreesOf[Depth - 1] \subseteq Trees
    BY <2>1, TreesGrow
  <2>3. \/ x \in Tests
        \/ \E w \in {"and", "or"}, a, b \in TreesOf[Depth - 1] : x = <<w, a, b>>
        \/ \E a \in TreesOf[Depth - 1] : x = <<"not", a>>
    BY <1>1, <2>1, TreeStep
  <2> QED BY <2>2, <2>3, Zenon
<1> QED BY <1>1, <1>2

\* What holds of tests, and of what is made of trees of which it holds.
LEMMA TreeInduction ==
  ASSUME NEW P, Tests \subseteq P,
         \A w \in {"and", "or"} : \A a, b \in Trees :
           a \in P /\ b \in P /\ <<w, a, b>> \in Trees => <<w, a, b>> \in P,
         \A a \in Trees : a \in P /\ <<"not", a>> \in Trees => <<"not", a>> \in P
  PROVE  Trees \subseteq P
<1>1. Depth \in Nat /\ Trees = TreesOf[Depth] /\ TreesOf[0] = Tests
  BY TreeLevels
<1> DEFINE Good == {i \in 0..Depth : TreesOf[i] \subseteq P}
<1>2. 0 \in Good
  BY <1>1
<1>3. ASSUME NEW i \in 0..(Depth - 1), i \in Good PROVE i + 1 \in Good
  <2>1. i + 1 \in 1..Depth /\ i + 1 \in 0..Depth /\ i + 1 - 1 = i /\ i \in 0..Depth
    BY <1>1
  <2>2. TreesOf[i] \subseteq P /\ TreesOf[i] \subseteq Trees /\ TreesOf[i + 1] \subseteq Trees
    BY <1>3, <2>1, TreesGrow
  <2>3. ASSUME NEW x \in TreesOf[i + 1] PROVE x \in P
    <3>1. \/ x \in Tests
          \/ \E w \in {"and", "or"}, a, b \in TreesOf[i] : x = <<w, a, b>>
          \/ \E a \in TreesOf[i] : x = <<"not", a>>
      BY <2>1, TreeStep
    <3>2. ASSUME NEW w \in {"and", "or"}, NEW a \in TreesOf[i], NEW b \in TreesOf[i], x = <<w, a, b>>
          PROVE  x \in P
      <4>1. a \in Trees /\ b \in Trees /\ a \in P /\ b \in P /\ <<w, a, b>> \in Trees
        BY <2>2, <2>3, <3>2
      <4> QED BY ONLY <3>2, <4>1, w \in {"and", "or"},
                \A v \in {"and", "or"} : \A c, d \in Trees :
                  c \in P /\ d \in P /\ <<v, c, d>> \in Trees => <<v, c, d>> \in P, Zenon
    <3>3. ASSUME NEW a \in TreesOf[i], x = <<"not", a>> PROVE x \in P
      BY <2>2, <2>3, <3>3, Zenon
    <3> QED BY <3>1, <3>2, <3>3
  <2> QED BY <2>1, <2>3
<1> HIDE DEF Good
<1>4. \A i \in 0..Depth : i \in Good
  BY <1>1, <1>2, <1>3, Climb
<1>5. Depth \in Good
  BY <1>1, <1>4
<1> QED BY <1>1, <1>5 DEF Good

LEMMA TreeParts ==
  ASSUME NEW x \in Trees
  PROVE  /\ x[1] \in {"and", "or"} => x[2] \in Trees /\ x[3] \in Trees /\ x = <<x[1], x[2], x[3]>>
         /\ x[1] = "not" => x[2] \in Trees /\ x = <<"not", x[2]>>
         /\ x[1] \notin {"and", "or", "not"} => x \in Tests
<1>1. CASE x \in Tests
  BY <1>1, TestKinds
<1>2. ASSUME NEW w \in {"and", "or"}, NEW a \in Trees, NEW b \in Trees, x = <<w, a, b>>
      PROVE  x[1] = w /\ x[2] = a /\ x[3] = b /\ w # "not"
  BY <1>2
<1>3. ASSUME NEW a \in Trees, x = <<"not", a>>
      PROVE  x[1] = "not" /\ x[2] = a
  BY <1>3
<1> QED BY <1>1, <1>2, <1>3, TreeCases

-----------------------------------------------------------------------------
(* Recursion.  A function is defined by what it is of smaller arguments,   *)
(* if their rank, which is bounded, is less.                               *)

Ranked(D, V, n, rank, step) ==
  /\ V # {} /\ n \in Nat
  /\ \A d \in D : rank[d] \in 0..n
  /\ \A d \in D : \A g \in [D -> V] : step[d][g] \in V
  /\ \A d \in D : \A g, h \in [D -> V] :
       (\A c \in D : rank[c] < rank[d] => g[c] = h[c]) => step[d][g] = step[d][h]

LEMMA Recursion ==
  ASSUME NEW D, NEW V, NEW n, NEW rank, NEW step, Ranked(D, V, n, rank, step)
  PROVE  \E f \in [D -> V] : \A d \in D : f[d] = step[d][f]
<1> DEFINE Holds(m, f) == \A d \in D : rank[d] < m => f[d] = step[d][f]
           Good == {m \in 0..(n + 1) : \E f \in [D -> V] : Holds(m, f)}
<1>0. V # {} /\ n \in Nat /\ \A d \in D : rank[d] \in 0..n
  BY DEF Ranked
<1>1. 0 \in Good
  <2>0. PICK v0 \in V : TRUE
    BY <1>0
  <2> DEFINE f == [d \in D |-> v0]
  <2>1. f \in [D -> V]
    OBVIOUS
  <2>2. Holds(0, f)
    BY <1>0
  <2>3. 0 \in 0..(n + 1)
    BY <1>0
  <2> HIDE DEF f, Holds
  <2> QED BY <2>1, <2>2, <2>3
<1>2. ASSUME NEW m \in 0..n, m \in Good PROVE m + 1 \in Good
  <2>1. PICK f \in [D -> V] : Holds(m, f)
    BY <1>2
  <2> DEFINE h == [d \in D |-> step[d][f]]
  <2>2. h \in [D -> V] /\ \A d \in D : h[d] = step[d][f]
    BY DEF Ranked
  <2> HIDE DEF h
  <2>3. ASSUME NEW d \in D, rank[d] < m + 1 PROVE h[d] = step[d][h]
    <3>1. ASSUME NEW c \in D, rank[c] < rank[d] PROVE f[c] = h[c]
      <4>1. rank[c] \in Int /\ rank[d] \in Int
        BY <1>0
      <4>2. rank[c] < m
        BY <1>0, <2>3, <3>1, <4>1
      <4>3. f[c] = step[c][f]
        BY <2>1, <4>2
      <4> QED BY <2>2, <4>3
    <3>2. step[d][f] = step[d][h]
      BY <2>2, <3>1, Zenon DEF Ranked
    <3> QED BY <2>2, <3>2
  <2>4. m + 1 \in 0..(n + 1)
    BY <1>0
  <2>5. Holds(m + 1, h)
    BY <2>3
  <2> HIDE DEF Holds
  <2> QED BY <2>2, <2>4, <2>5
<1> HIDE DEF Good
<1>3. \A m \in 0..(n + 1) : m \in Good
  <2> DEFINE top == n + 1
  <2>1. top \in Nat /\ 0..(top - 1) = 0..n
    BY <1>0
  <2> HIDE DEF top
  <2>2. \A m \in 0..(top - 1) : m \in Good => m + 1 \in Good
    BY <1>2, <2>1
  <2>3. \A m \in 0..top : m \in Good
    BY ONLY <2>1, <2>2, <1>1, Climb
  <2> QED BY <2>3 DEF top
<1>4. PICK f \in [D -> V] : Holds(n + 1, f)
  <2> HIDE DEF Holds
  <2>1. n + 1 \in Good
    BY <1>0, <1>3
  <2> QED BY <2>1 DEF Good
<1>5. \A d \in D : rank[d] < n + 1
  <2> TAKE d \in D
  <2>1. rank[d] \in 0..n
    BY <1>0
  <2> QED BY <1>0, <2>1
<1> QED BY <1>4, <1>5

\* What is found in a tree: of a test, of what is negated and of what is joined.
Steps(V, v0, step) == v0 \in V /\ \A x \in Trees : \A a, b \in V : step[<<x, a, b>>] \in V

Stepped(f, v0, step) ==
  \A x \in Trees :
    /\ x[1] \in {"and", "or"} => f[x] = step[<<x, f[x[2]], f[x[3]]>>]
    /\ x[1] = "not" => f[x] = step[<<x, f[x[2]], v0>>]
    /\ x \in Tests => f[x] = step[<<x, v0, v0>>]

LEMMA TreeRecursion ==
  ASSUME NEW V, NEW v0, NEW step, Steps(V, v0, step)
  PROVE  \E f \in [Trees -> V] : Stepped(f, v0, step)
<1>1. Depth \in Nat /\ Trees = TreesOf[Depth]
  BY TreeLevels
<1> DEFINE Least1(x) == CHOOSE i \in 0..Depth : /\ x \in TreesOf[i]
                                                /\ \A k \in 0..Depth : x \in TreesOf[k] => i <= k
           rank == [x \in Trees |-> Least1(x)]
<1>2. ASSUME NEW x \in Trees
      PROVE  /\ rank[x] \in 0..Depth /\ x \in TreesOf[rank[x]]
             /\ \A k \in 0..Depth : x \in TreesOf[k] => rank[x] <= k
  <2> DEFINE T == {i \in 0..Depth : x \in TreesOf[i]}
  <2>1. T \subseteq Nat /\ Depth \in T
    BY <1>1
  <2>2. PICK i \in T : \A k \in T : i <= k
    BY <2>1, Least
  <2>3. \E j \in 0..Depth : /\ x \in TreesOf[j]
                            /\ \A k \in 0..Depth : x \in TreesOf[k] => j <= k
    BY <2>2
  <2>4. rank[x] = Least1(x)
    OBVIOUS
  <2> HIDE DEF rank
  <2> QED BY <2>3, <2>4
<1> HIDE DEF rank
<1>3. ASSUME NEW x \in Trees, NEW k \in 1..Depth, x \in TreesOf[k]
      PROVE  /\ x[1] \in {"and", "or"} => x[2] \in TreesOf[k - 1] /\ x[3] \in TreesOf[k - 1]
             /\ x[1] = "not" => x[2] \in TreesOf[k - 1]
  <2>1. CASE x \in Tests
    BY <2>1, TestKinds
  <2>2. ASSUME NEW w \in {"and", "or"}, NEW a \in TreesOf[k - 1], NEW b \in TreesOf[k - 1],
               x = <<w, a, b>>
        PROVE  x[1] = w /\ x[2] = a /\ x[3] = b /\ w # "not"
    BY <2>2
  <2>3. ASSUME NEW a \in TreesOf[k - 1], x = <<"not", a>>
        PROVE  x[1] = "not" /\ x[2] = a
    BY <2>3
  <2> QED BY <1>3, <2>1, <2>2, <2>3, TreeStep
<1>4. ASSUME NEW x \in Trees, x[1] \in {"and", "or", "not"}
      PROVE  /\ x[1] \in {"and", "or"} => rank[x[2]] < rank[x] /\ rank[x[3]] < rank[x]
             /\ x[1] = "not" => rank[x[2]] < rank[x]
  <2>1. rank[x] # 0
    <3>1. x \notin Tests
      BY <1>4, TestKinds
    <3> QED BY <1>2, <3>1, TreeLevels
  <2>2. rank[x] \in 1..Depth /\ rank[x] - 1 \in 0..Depth
    BY <1>1, <1>2, <2>1
  <2>3. /\ x[1] \in {"and", "or"} => x[2] \in TreesOf[rank[x] - 1] /\ x[3] \in TreesOf[rank[x] - 1]
        /\ x[1] = "not" => x[2] \in TreesOf[rank[x] - 1]
    BY <1>2, <1>3, <2>2
  <2>4. ASSUME NEW y \in Trees, y \in TreesOf[rank[x] - 1] PROVE rank[y] < rank[x]
    <3>1. rank[y] <= rank[x] - 1
      BY <1>2, <2>2, <2>4
    <3> QED BY <1>2, <2>2, <3>1
  <2> QED BY <2>3, <2>4, TreeParts
<1> DEFINE Value1(x, g) == IF x[1] \in {"and", "or"} THEN step[<<x, g[x[2]], g[x[3]]>>]
                           ELSE IF x[1] = "not" THEN step[<<x, g[x[2]], v0>>]
                           ELSE step[<<x, v0, v0>>]
           up == [x \in Trees |-> [g \in [Trees -> V] |-> Value1(x, g)]]
<1>5. ASSUME NEW x \in Trees, NEW g \in [Trees -> V] PROVE Value1(x, g) \in V
  BY TreeParts DEF Steps
<1>6. ASSUME NEW x \in Trees, NEW g \in [Trees -> V], NEW h \in [Trees -> V],
             \A c \in Trees : rank[c] < rank[x] => g[c] = h[c]
      PROVE  Value1(x, g) = Value1(x, h)
  BY <1>4, <1>6, TreeParts
<1> HIDE DEF Value1
<1>7. up \in [Trees -> [[Trees -> V] -> V]] /\ \A x \in Trees : \A g \in [Trees -> V] : up[x][g] = Value1(x, g)
  BY <1>5
<1> HIDE DEF up
<1>8. \A x \in Trees : \A g \in [Trees -> V] : up[x][g] \in V
  BY <1>5, <1>7
<1>9. ASSUME NEW x \in Trees, NEW g \in [Trees -> V], NEW h \in [Trees -> V],
             \A c \in Trees : rank[c] < rank[x] => g[c] = h[c]
      PROVE  up[x][g] = up[x][h]
  <2>1. Value1(x, g) = Value1(x, h)
    BY <1>6, <1>9, Zenon
  <2>2. up[x][g] = Value1(x, g) /\ up[x][h] = Value1(x, h)
    BY <1>7
  <2> QED BY <2>1, <2>2
<1>12. Ranked(Trees, V, Depth, rank, up)
  <2>1. V # {}
    BY DEF Steps
  <2> QED BY <1>1, <1>2, <1>8, <1>9, <2>1, Zenon DEF Ranked
<1>10. PICK f \in [Trees -> V] : \A x \in Trees : f[x] = up[x][f]
  BY <1>12, Recursion
<1>11. \A x \in Trees : f[x] = Value1(x, f)
  BY <1>7, <1>10
<1> QED BY <1>11, TestKinds DEF Value1, Stepped

\* What is in V of tests, and of trees if it is of the parts, is in V.
LEMMA TreeValues ==
  ASSUME NEW V, NEW g,
         \A l \in Tests : g[l] \in V,
         \A x \in Trees : x[1] \in {"and", "or"} /\ g[x[2]] \in V /\ g[x[3]] \in V => g[x] \in V,
         \A x \in Trees : x[1] = "not" /\ g[x[2]] \in V => g[x] \in V
  PROVE  \A x \in Trees : g[x] \in V
<1> DEFINE P == {x \in Trees : g[x] \in V}
<1>1. Tests \subseteq P
  BY TreeLevels, TreesGrow
<1>2. ASSUME NEW w \in {"and", "or"}, NEW a \in Trees, NEW b \in Trees, a \in P, b \in P,
             <<w, a, b>> \in Trees
      PROVE  <<w, a, b>> \in P
  <2> DEFINE x == <<w, a, b>>
  <2>1. x[1] \in {"and", "or"} /\ x[2] = a /\ x[3] = b
    OBVIOUS
  <2> QED BY <1>2, <2>1
<1>3. ASSUME NEW a \in Trees, a \in P, <<"not", a>> \in Trees PROVE <<"not", a>> \in P
  <2> DEFINE x == <<"not", a>>
  <2>1. x[1] = "not" /\ x[2] = a
    OBVIOUS
  <2> QED BY <1>3, <2>1
<1> HIDE DEF P
<1>4. Trees \subseteq P
  BY <1>1, <1>2, <1>3, TreeInduction
<1> QED BY <1>4 DEF P

\* The tests in a tree.
LEMMA LeavesOf ==
  \A x \in Trees :
    /\ Leaves(x) \in SUBSET Tests
    /\ x[1] \in {"and", "or"} => Leaves(x) = Leaves(x[2]) \cup Leaves(x[3])
    /\ x[1] = "not" => Leaves(x) = Leaves(x[2])
    /\ x \in Tests => Leaves(x) = {x}
<1> DEFINE V == SUBSET Tests
           Joined(x, a, b) == a \cup b
           Negated(x, a) == a
           Test(x) == {x}
           step == [p \in Trees \X V \X V |->
                      IF p[1][1] \in {"and", "or"} THEN Joined(p[1], p[2], p[3])
                      ELSE IF p[1][1] = "not" THEN Negated(p[1], p[2]) ELSE Test(p[1])]
           Fits(g) == g = [x \in Trees |->
                             CASE x[1] \in {"and", "or"} -> g[x[2]] \cup g[x[3]]
                               [] x[1] = "not" -> g[x[2]]
                               [] OTHER -> {x}]
<1>1. PICK v0 \in V : TRUE
  OBVIOUS
<1>2. ASSUME NEW x \in Trees, x[1] \in {"and", "or"}, NEW a \in V, NEW b \in V
      PROVE  Joined(x, a, b) \in V
  OBVIOUS
<1>3. ASSUME NEW x \in Trees, x[1] = "not", NEW a \in V PROVE Negated(x, a) \in V
  OBVIOUS
<1>4. ASSUME NEW x \in Tests PROVE Test(x) \in V
  OBVIOUS
<1> HIDE DEF V, Joined, Negated, Test
<1>5. /\ \A x \in Trees : \A a, b \in V : x[1] \in {"and", "or"} => step[<<x, a, b>>] = Joined(x, a, b)
      /\ \A x \in Trees : \A a, b \in V : x[1] = "not" => step[<<x, a, b>>] = Negated(x, a)
      /\ \A x \in Trees : \A a, b \in V : x[1] \notin {"and", "or", "not"} => step[<<x, a, b>>] = Test(x)
  OBVIOUS
<1> HIDE DEF step
<1>6. Steps(V, v0, step)
  BY <1>2, <1>3, <1>4, <1>5, TreeParts DEF Steps
<1>7. PICK f \in [Trees -> V] : Stepped(f, v0, step)
  BY <1>6, TreeRecursion
<1>8. \A x \in Trees : f[x] = IF x[1] \in {"and", "or"} THEN Joined(x, f[x[2]], f[x[3]])
                             ELSE IF x[1] = "not" THEN Negated(x, f[x[2]]) ELSE Test(x)
  <2> TAKE x \in Trees
  <2>1. CASE x[1] \in {"and", "or"}
    <3>1. f[x[2]] \in V /\ f[x[3]] \in V
      BY <2>1, TreeParts
    <3> QED BY <1>5, <1>7, <2>1, <3>1 DEF Stepped
  <2>2. CASE x[1] = "not"
    <3>1. f[x[2]] \in V
      BY <2>2, TreeParts
    <3> QED BY <1>1, <1>5, <1>7, <2>2, <3>1 DEF Stepped
  <2>3. CASE x[1] \notin {"and", "or", "not"}
    <3>1. x \in Tests
      BY <2>3, TreeParts
    <3> QED BY <1>1, <1>5, <1>7, <2>3, <3>1 DEF Stepped
  <2> QED BY <2>1, <2>2, <2>3
<1>9. Fits(f)
  BY <1>8 DEF Joined, Negated, Test
<1>10. PICK g : Fits(g) /\ \A x \in Trees : Leaves(x) = g[x]
  <2> DEFINE g == CHOOSE g : Fits(g)
  <2>1. \A x \in Trees : Leaves(x) = g[x]
    BY DEF Leaves
  <2> HIDE DEF Fits
  <2>2. Fits(g)
    BY <1>9
  <2> HIDE DEF g
  <2> QED BY <2>1, <2>2
<1>11. \A x \in Trees : g[x] = IF x[1] \in {"and", "or"} THEN Joined(x, g[x[2]], g[x[3]])
                              ELSE IF x[1] = "not" THEN Negated(x, g[x[2]]) ELSE Test(x)
  BY <1>10 DEF Joined, Negated, Test
<1> HIDE DEF Fits
<1>12. \A l \in Tests : l \in Trees /\ l[1] \notin {"and", "or", "not"}
  BY TreeLevels, TreesGrow, TestKinds
<1>13. /\ \A l \in Tests : g[l] \in V
       /\ \A x \in Trees : x[1] \in {"and", "or"} /\ g[x[2]] \in V /\ g[x[3]] \in V => g[x] \in V
       /\ \A x \in Trees : x[1] = "not" /\ g[x[2]] \in V => g[x] \in V
  BY <1>2, <1>3, <1>4, <1>11, <1>12
<1>14. \A x \in Trees : g[x] \in V
  BY <1>13, TreeValues
<1>15. ASSUME NEW x \in Trees
      PROVE  /\ Leaves(x) \in V
             /\ x[1] \in {"and", "or"} => Leaves(x) = Joined(x, Leaves(x[2]), Leaves(x[3]))
             /\ x[1] = "not" => Leaves(x) = Negated(x, Leaves(x[2]))
             /\ x \in Tests => Leaves(x) = Test(x)
  <2>1. Leaves(x) = g[x] /\ g[x] \in V
    BY <1>10, <1>14
  <2>2. ASSUME x[1] \in {"and", "or"} PROVE Leaves(x) = Joined(x, Leaves(x[2]), Leaves(x[3]))
    <3>0. x[2] \in Trees /\ x[3] \in Trees
      BY <2>2, TreeParts
    <3>1. Leaves(x[2]) = g[x[2]] /\ Leaves(x[3]) = g[x[3]]
      BY <1>10, <3>0
    <3> QED BY <1>11, <2>1, <2>2, <3>1
  <2>3. ASSUME x[1] = "not" PROVE Leaves(x) = Negated(x, Leaves(x[2]))
    <3>1. Leaves(x[2]) = g[x[2]]
      BY <1>10, <2>3, TreeParts
    <3> QED BY <1>11, <2>1, <2>3, <3>1
  <2>4. ASSUME x \in Tests PROVE Leaves(x) = Test(x)
    BY <1>11, <1>12, <2>1, <2>4
  <2> QED BY <2>1, <2>2, <2>3, <2>4
<1> QED BY <1>15 DEF V, Joined, Negated, Test

\* The ids that a tree hints at.
LEMMA HintsOf ==
  \A x \in Trees :
    /\ Hints(x) \in Seq(Seq(InternalIds))
    /\ x[1] \in {"and", "or"} => Hints(x) = IF x[1] = "and" THEN Hints(x[2]) \o Hints(x[3]) ELSE <<>>
    /\ x[1] = "not" => Hints(x) = <<>>
    /\ x \in Tests => Hints(x) = IF x[1] = "idin" /\ ~x[3] THEN <<x[2]>> ELSE <<>>
<1> DEFINE V == Seq(Seq(InternalIds))
           Joined(x, a, b) == IF x[1] = "and" THEN a \o b ELSE <<>>
           Negated(x, a) == <<>>
           Test(x) == IF x[1] = "idin" /\ ~x[3] THEN <<x[2]>> ELSE <<>>
           step == [p \in Trees \X V \X V |->
                      IF p[1][1] \in {"and", "or"} THEN Joined(p[1], p[2], p[3])
                      ELSE IF p[1][1] = "not" THEN Negated(p[1], p[2]) ELSE Test(p[1])]
           Fits(g) == g = [x \in Trees |->
                             CASE x[1] = "and" -> g[x[2]] \o g[x[3]]
                               [] x[1] = "idin" /\ ~x[3] -> <<x[2]>>
                               [] OTHER -> <<>>]
<1>1. PICK v0 \in V : TRUE
  BY EmptyList
<1>2. ASSUME NEW x \in Trees, x[1] \in {"and", "or"}, NEW a \in V, NEW b \in V
      PROVE  Joined(x, a, b) \in V
  BY InBoth, EmptyList
<1>3. ASSUME NEW x \in Trees, x[1] = "not", NEW a \in V PROVE Negated(x, a) \in V
  BY EmptyList
<1>4. ASSUME NEW x \in Tests PROVE Test(x) \in V
  BY EmptyList DEF Tests
<1> HIDE DEF V, Joined, Negated, Test
<1>5. /\ \A x \in Trees : \A a, b \in V : x[1] \in {"and", "or"} => step[<<x, a, b>>] = Joined(x, a, b)
      /\ \A x \in Trees : \A a, b \in V : x[1] = "not" => step[<<x, a, b>>] = Negated(x, a)
      /\ \A x \in Trees : \A a, b \in V : x[1] \notin {"and", "or", "not"} => step[<<x, a, b>>] = Test(x)
  OBVIOUS
<1> HIDE DEF step
<1>6. Steps(V, v0, step)
  BY <1>2, <1>3, <1>4, <1>5, TreeParts DEF Steps
<1>7. PICK f \in [Trees -> V] : Stepped(f, v0, step)
  BY <1>6, TreeRecursion
<1>8. \A x \in Trees : f[x] = IF x[1] \in {"and", "or"} THEN Joined(x, f[x[2]], f[x[3]])
                             ELSE IF x[1] = "not" THEN Negated(x, f[x[2]]) ELSE Test(x)
  <2> TAKE x \in Trees
  <2>1. CASE x[1] \in {"and", "or"}
    <3>1. f[x[2]] \in V /\ f[x[3]] \in V
      BY <2>1, TreeParts
    <3> QED BY <1>5, <1>7, <2>1, <3>1 DEF Stepped
  <2>2. CASE x[1] = "not"
    <3>1. f[x[2]] \in V
      BY <2>2, TreeParts
    <3> QED BY <1>1, <1>5, <1>7, <2>2, <3>1 DEF Stepped
  <2>3. CASE x[1] \notin {"and", "or", "not"}
    <3>1. x \in Tests
      BY <2>3, TreeParts
    <3> QED BY <1>1, <1>5, <1>7, <2>3, <3>1 DEF Stepped
  <2> QED BY <2>1, <2>2, <2>3
<1>9. Fits(f)
  BY <1>8 DEF Joined, Negated, Test
<1>10. PICK g : Fits(g) /\ \A x \in Trees : Hints(x) = g[x]
  <2> DEFINE g == CHOOSE g : Fits(g)
  <2>1. \A x \in Trees : Hints(x) = g[x]
    BY DEF Hints
  <2> HIDE DEF Fits
  <2>2. Fits(g)
    BY <1>9
  <2> HIDE DEF g
  <2> QED BY <2>1, <2>2
<1>11. \A x \in Trees : g[x] = IF x[1] \in {"and", "or"} THEN Joined(x, g[x[2]], g[x[3]])
                              ELSE IF x[1] = "not" THEN Negated(x, g[x[2]]) ELSE Test(x)
  BY <1>10 DEF Joined, Negated, Test
<1> HIDE DEF Fits
<1>12. \A l \in Tests : l \in Trees /\ l[1] \notin {"and", "or", "not"}
  BY TreeLevels, TreesGrow, TestKinds
<1>13. /\ \A l \in Tests : g[l] \in V
       /\ \A x \in Trees : x[1] \in {"and", "or"} /\ g[x[2]] \in V /\ g[x[3]] \in V => g[x] \in V
       /\ \A x \in Trees : x[1] = "not" /\ g[x[2]] \in V => g[x] \in V
  BY <1>2, <1>3, <1>4, <1>11, <1>12
<1>14. \A x \in Trees : g[x] \in V
  BY <1>13, TreeValues
<1>15. ASSUME NEW x \in Trees
      PROVE  /\ Hints(x) \in V
             /\ x[1] \in {"and", "or"} => Hints(x) = Joined(x, Hints(x[2]), Hints(x[3]))
             /\ x[1] = "not" => Hints(x) = Negated(x, Hints(x[2]))
             /\ x \in Tests => Hints(x) = Test(x)
  <2>1. Hints(x) = g[x] /\ g[x] \in V
    BY <1>10, <1>14
  <2>2. ASSUME x[1] \in {"and", "or"} PROVE Hints(x) = Joined(x, Hints(x[2]), Hints(x[3]))
    <3>0. x[2] \in Trees /\ x[3] \in Trees
      BY <2>2, TreeParts
    <3>1. Hints(x[2]) = g[x[2]] /\ Hints(x[3]) = g[x[3]]
      BY <1>10, <3>0
    <3> QED BY <1>11, <2>1, <2>2, <3>1
  <2>3. ASSUME x[1] = "not" PROVE Hints(x) = Negated(x, Hints(x[2]))
    <3>1. Hints(x[2]) = g[x[2]]
      BY <1>10, <2>3, TreeParts
    <3> QED BY <1>11, <2>1, <2>3, <3>1
  <2>4. ASSUME x \in Tests PROVE Hints(x) = Test(x)
    BY <1>11, <1>12, <2>1, <2>4
  <2> QED BY <2>1, <2>2, <2>3, <2>4
<1> QED BY <1>15 DEF V, Joined, Negated, Test

\* The degree of truth of a tree.
LEMMA DegreeOf ==
  ASSUME NEW d, \A l \in Tests : d[l] \in 0..2
  PROVE  \A x \in Trees :
         /\ Connected(x, d) \in 0..2
         /\ x[1] \in {"and", "or"} => Connected(x, d) = IF x[1] = "and" THEN Min({Connected(x[2], d), Connected(x[3], d)}) ELSE Max({Connected(x[2], d), Connected(x[3], d)})
         /\ x[1] = "not" => Connected(x, d) = 2 - Connected(x[2], d)
         /\ x \in Tests => Connected(x, d) = d[x]
<1> DEFINE V == 0..2
           Joined(x, a, b) == IF x[1] = "and" THEN Min({a, b}) ELSE Max({a, b})
           Negated(x, a) == 2 - a
           Test(x) == d[x]
           step == [p \in Trees \X V \X V |->
                      IF p[1][1] \in {"and", "or"} THEN Joined(p[1], p[2], p[3])
                      ELSE IF p[1][1] = "not" THEN Negated(p[1], p[2]) ELSE Test(p[1])]
           Fits(g) == g = [x \in Trees |->
                             CASE x[1] = "and" -> Min({g[x[2]], g[x[3]]})
                               [] x[1] = "or" -> Max({g[x[2]], g[x[3]]})
                               [] x[1] = "not" -> 2 - g[x[2]]
                               [] OTHER -> d[x]]
<1>1. PICK v0 \in V : TRUE
  OBVIOUS
<1>2. ASSUME NEW x \in Trees, x[1] \in {"and", "or"}, NEW a \in V, NEW b \in V
      PROVE  Joined(x, a, b) \in V
  BY LesserOf, GreaterOf
<1>3. ASSUME NEW x \in Trees, x[1] = "not", NEW a \in V PROVE Negated(x, a) \in V
  OBVIOUS
<1>4. ASSUME NEW x \in Tests PROVE Test(x) \in V
  OBVIOUS
<1> HIDE DEF V, Joined, Negated, Test
<1>5. /\ \A x \in Trees : \A a, b \in V : x[1] \in {"and", "or"} => step[<<x, a, b>>] = Joined(x, a, b)
      /\ \A x \in Trees : \A a, b \in V : x[1] = "not" => step[<<x, a, b>>] = Negated(x, a)
      /\ \A x \in Trees : \A a, b \in V : x[1] \notin {"and", "or", "not"} => step[<<x, a, b>>] = Test(x)
  OBVIOUS
<1> HIDE DEF step
<1>6. Steps(V, v0, step)
  BY <1>2, <1>3, <1>4, <1>5, TreeParts DEF Steps
<1>7. PICK f \in [Trees -> V] : Stepped(f, v0, step)
  BY <1>6, TreeRecursion
<1>8. \A x \in Trees : f[x] = IF x[1] \in {"and", "or"} THEN Joined(x, f[x[2]], f[x[3]])
                             ELSE IF x[1] = "not" THEN Negated(x, f[x[2]]) ELSE Test(x)
  <2> TAKE x \in Trees
  <2>1. CASE x[1] \in {"and", "or"}
    <3>1. f[x[2]] \in V /\ f[x[3]] \in V
      BY <2>1, TreeParts
    <3> QED BY <1>5, <1>7, <2>1, <3>1 DEF Stepped
  <2>2. CASE x[1] = "not"
    <3>1. f[x[2]] \in V
      BY <2>2, TreeParts
    <3> QED BY <1>1, <1>5, <1>7, <2>2, <3>1 DEF Stepped
  <2>3. CASE x[1] \notin {"and", "or", "not"}
    <3>1. x \in Tests
      BY <2>3, TreeParts
    <3> QED BY <1>1, <1>5, <1>7, <2>3, <3>1 DEF Stepped
  <2> QED BY <2>1, <2>2, <2>3
<1>9. Fits(f)
  BY <1>8 DEF Joined, Negated, Test
<1>10. PICK g : Fits(g) /\ \A x \in Trees : Connected(x, d) = g[x]
  <2> DEFINE g == CHOOSE g : Fits(g)
  <2>1. \A x \in Trees : Connected(x, d) = g[x]
    BY DEF Connected
  <2> HIDE DEF Fits
  <2>2. Fits(g)
    BY <1>9
  <2> HIDE DEF g
  <2> QED BY <2>1, <2>2
<1>11. \A x \in Trees : g[x] = IF x[1] \in {"and", "or"} THEN Joined(x, g[x[2]], g[x[3]])
                              ELSE IF x[1] = "not" THEN Negated(x, g[x[2]]) ELSE Test(x)
  BY <1>10 DEF Joined, Negated, Test
<1> HIDE DEF Fits
<1>12. \A l \in Tests : l \in Trees /\ l[1] \notin {"and", "or", "not"}
  BY TreeLevels, TreesGrow, TestKinds
<1>13. /\ \A l \in Tests : g[l] \in V
       /\ \A x \in Trees : x[1] \in {"and", "or"} /\ g[x[2]] \in V /\ g[x[3]] \in V => g[x] \in V
       /\ \A x \in Trees : x[1] = "not" /\ g[x[2]] \in V => g[x] \in V
  BY <1>2, <1>3, <1>4, <1>11, <1>12
<1>14. \A x \in Trees : g[x] \in V
  BY <1>13, TreeValues
<1>15. ASSUME NEW x \in Trees
      PROVE  /\ Connected(x, d) \in V
             /\ x[1] \in {"and", "or"} => Connected(x, d) = Joined(x, Connected(x[2], d), Connected(x[3], d))
             /\ x[1] = "not" => Connected(x, d) = Negated(x, Connected(x[2], d))
             /\ x \in Tests => Connected(x, d) = Test(x)
  <2>1. Connected(x, d) = g[x] /\ g[x] \in V
    BY <1>10, <1>14
  <2>2. ASSUME x[1] \in {"and", "or"} PROVE Connected(x, d) = Joined(x, Connected(x[2], d), Connected(x[3], d))
    <3>0. x[2] \in Trees /\ x[3] \in Trees
      BY <2>2, TreeParts
    <3>1. Connected(x[2], d) = g[x[2]] /\ Connected(x[3], d) = g[x[3]]
      BY <1>10, <3>0
    <3> QED BY <1>11, <2>1, <2>2, <3>1
  <2>3. ASSUME x[1] = "not" PROVE Connected(x, d) = Negated(x, Connected(x[2], d))
    <3>1. Connected(x[2], d) = g[x[2]]
      BY <1>10, <2>3, TreeParts
    <3> QED BY <1>11, <2>1, <2>3, <3>1
  <2>4. ASSUME x \in Tests PROVE Connected(x, d) = Test(x)
    BY <1>11, <1>12, <2>1, <2>4
  <2> QED BY <2>1, <2>2, <2>3, <2>4
<1> QED BY <1>15 DEF V, Joined, Negated, Test

\* How many tests there are.
LEMMA CountOf ==
  \A x \in Trees :
    /\ TestCount(x) \in Nat
    /\ x[1] \in {"and", "or"} => TestCount(x) = TestCount(x[2]) + TestCount(x[3])
    /\ x[1] = "not" => TestCount(x) = TestCount(x[2])
    /\ x \in Tests => TestCount(x) = 1
<1> DEFINE V == Nat
           Joined(x, a, b) == a + b
           Negated(x, a) == a
           Test(x) == 1
           step == [p \in Trees \X V \X V |->
                      IF p[1][1] \in {"and", "or"} THEN Joined(p[1], p[2], p[3])
                      ELSE IF p[1][1] = "not" THEN Negated(p[1], p[2]) ELSE Test(p[1])]
           Fits(g) == g = [x \in Trees |->
                             CASE x[1] \in {"and", "or"} -> g[x[2]] + g[x[3]]
                               [] x[1] = "not" -> g[x[2]]
                               [] OTHER -> 1]
<1>1. PICK v0 \in V : TRUE
  OBVIOUS
<1>2. ASSUME NEW x \in Trees, x[1] \in {"and", "or"}, NEW a \in V, NEW b \in V
      PROVE  Joined(x, a, b) \in V
  OBVIOUS
<1>3. ASSUME NEW x \in Trees, x[1] = "not", NEW a \in V PROVE Negated(x, a) \in V
  OBVIOUS
<1>4. ASSUME NEW x \in Tests PROVE Test(x) \in V
  OBVIOUS
<1> HIDE DEF V, Joined, Negated, Test
<1>5. /\ \A x \in Trees : \A a, b \in V : x[1] \in {"and", "or"} => step[<<x, a, b>>] = Joined(x, a, b)
      /\ \A x \in Trees : \A a, b \in V : x[1] = "not" => step[<<x, a, b>>] = Negated(x, a)
      /\ \A x \in Trees : \A a, b \in V : x[1] \notin {"and", "or", "not"} => step[<<x, a, b>>] = Test(x)
  OBVIOUS
<1> HIDE DEF step
<1>6. Steps(V, v0, step)
  BY <1>2, <1>3, <1>4, <1>5, TreeParts DEF Steps
<1>7. PICK f \in [Trees -> V] : Stepped(f, v0, step)
  BY <1>6, TreeRecursion
<1>8. \A x \in Trees : f[x] = IF x[1] \in {"and", "or"} THEN Joined(x, f[x[2]], f[x[3]])
                             ELSE IF x[1] = "not" THEN Negated(x, f[x[2]]) ELSE Test(x)
  <2> TAKE x \in Trees
  <2>1. CASE x[1] \in {"and", "or"}
    <3>1. f[x[2]] \in V /\ f[x[3]] \in V
      BY <2>1, TreeParts
    <3> QED BY <1>5, <1>7, <2>1, <3>1 DEF Stepped
  <2>2. CASE x[1] = "not"
    <3>1. f[x[2]] \in V
      BY <2>2, TreeParts
    <3> QED BY <1>1, <1>5, <1>7, <2>2, <3>1 DEF Stepped
  <2>3. CASE x[1] \notin {"and", "or", "not"}
    <3>1. x \in Tests
      BY <2>3, TreeParts
    <3> QED BY <1>1, <1>5, <1>7, <2>3, <3>1 DEF Stepped
  <2> QED BY <2>1, <2>2, <2>3
<1>9. Fits(f)
  BY <1>8 DEF Joined, Negated, Test
<1>10. PICK g : Fits(g) /\ \A x \in Trees : TestCount(x) = g[x]
  <2> DEFINE g == CHOOSE g : Fits(g)
  <2>1. \A x \in Trees : TestCount(x) = g[x]
    BY DEF TestCount
  <2> HIDE DEF Fits
  <2>2. Fits(g)
    BY <1>9
  <2> HIDE DEF g
  <2> QED BY <2>1, <2>2
<1>11. \A x \in Trees : g[x] = IF x[1] \in {"and", "or"} THEN Joined(x, g[x[2]], g[x[3]])
                              ELSE IF x[1] = "not" THEN Negated(x, g[x[2]]) ELSE Test(x)
  BY <1>10 DEF Joined, Negated, Test
<1> HIDE DEF Fits
<1>12. \A l \in Tests : l \in Trees /\ l[1] \notin {"and", "or", "not"}
  BY TreeLevels, TreesGrow, TestKinds
<1>13. /\ \A l \in Tests : g[l] \in V
       /\ \A x \in Trees : x[1] \in {"and", "or"} /\ g[x[2]] \in V /\ g[x[3]] \in V => g[x] \in V
       /\ \A x \in Trees : x[1] = "not" /\ g[x[2]] \in V => g[x] \in V
  BY <1>2, <1>3, <1>4, <1>11, <1>12
<1>14. \A x \in Trees : g[x] \in V
  BY <1>13, TreeValues
<1>15. ASSUME NEW x \in Trees
      PROVE  /\ TestCount(x) \in V
             /\ x[1] \in {"and", "or"} => TestCount(x) = Joined(x, TestCount(x[2]), TestCount(x[3]))
             /\ x[1] = "not" => TestCount(x) = Negated(x, TestCount(x[2]))
             /\ x \in Tests => TestCount(x) = Test(x)
  <2>1. TestCount(x) = g[x] /\ g[x] \in V
    BY <1>10, <1>14
  <2>2. ASSUME x[1] \in {"and", "or"} PROVE TestCount(x) = Joined(x, TestCount(x[2]), TestCount(x[3]))
    <3>0. x[2] \in Trees /\ x[3] \in Trees
      BY <2>2, TreeParts
    <3>1. TestCount(x[2]) = g[x[2]] /\ TestCount(x[3]) = g[x[3]]
      BY <1>10, <3>0
    <3> QED BY <1>11, <2>1, <2>2, <3>1
  <2>3. ASSUME x[1] = "not" PROVE TestCount(x) = Negated(x, TestCount(x[2]))
    <3>1. TestCount(x[2]) = g[x[2]]
      BY <1>10, <2>3, TreeParts
    <3> QED BY <1>11, <2>1, <2>3, <3>1
  <2>4. ASSUME x \in Tests PROVE TestCount(x) = Test(x)
    BY <1>11, <1>12, <2>1, <2>4
  <2> QED BY <2>1, <2>2, <2>3, <2>4
<1> QED BY <1>15 DEF V, Joined, Negated, Test

-----------------------------------------------------------------------------
(* What a test takes of the parameters: never more than a short list.      *)

LEMMA AsList ==
  ASSUME NEW n \in Nat, NEW f, DOMAIN f = 1..n, NEW S, \A i \in 1..n : f[i] \in S,
         f = [i \in DOMAIN f |-> f[i]]
  PROVE  f \in Seq(S) /\ Len(f) = n
<1>1. f \in [1..n -> S]
  OBVIOUS
<1> QED BY <1>1, IsASeq

LEMMA SingleList ==
  ASSUME NEW x
  PROVE  <<x>> \in Seq({x}) /\ Len(<<x>>) = 1
OBVIOUS

LEMMA KeysOf ==
  ASSUME NEW refs \in Seq(InternalIds)
  PROVE  /\ \E S : Keys(refs) \in Seq(S)
         /\ \A k \in 1..Len(Keys(refs)) :
              \E i \in 1..Len(refs) : Keys(refs)[k] = <<"number", refs[i][3]>> /\ refs[i][2] # NoLabel
         /\ \A i \in 1..Len(refs) : refs[i][2] # NoLabel =>
              \E k \in 1..Len(Keys(refs)) : Keys(refs)[k] = <<"number", refs[i][3]>>
<1> DEFINE T == {x \in InternalIds : x[2] # NoLabel}
           known == Kept(refs, T)
           n == Len(known)
           keys == [i \in DOMAIN known |-> <<"number", known[i][3]>>]
           S == {<<"number", known[i][3]>> : i \in 1..n}
<1>1. known \in Seq(InternalIds) /\ ToSet(known) = ToSet(refs) \cap T
  BY KeptHolds
<1>2. Keys(refs) = keys
  BY DEF Keys
<1> HIDE DEF known
<1>3. n \in Nat /\ DOMAIN known = 1..n
  BY <1>1, InList
<1>4. keys \in Seq(S) /\ Len(keys) = n
  <2>1. keys \in [1..n -> S]
    BY <1>3
  <2> HIDE DEF keys, S
  <2> QED BY <1>3, <2>1, IsASeq
<1>5. \A k \in 1..n : keys[k] = <<"number", known[k][3]>>
  BY <1>3
<1>6. ASSUME NEW k \in 1..n
      PROVE  \E i \in 1..Len(refs) : known[k] = refs[i] /\ refs[i][2] # NoLabel
  <2>1. known[k] \in ToSet(known)
    BY <1>1, InList
  <2>2. known[k] \in ToSet(refs) /\ known[k][2] # NoLabel
    BY <1>1, <2>1
  <2>3. PICK i \in 1..Len(refs) : refs[i] = known[k]
    BY <2>2, InList
  <2> QED BY <2>2, <2>3
<1>7. ASSUME NEW i \in 1..Len(refs), refs[i][2] # NoLabel
      PROVE  \E k \in 1..n : known[k] = refs[i]
  <2>1. refs[i] \in ToSet(refs) /\ refs[i] \in InternalIds
    BY InList
  <2>2. refs[i] \in ToSet(known)
    BY <1>1, <1>7, <2>1
  <2> QED BY <1>1, <2>2, InList
<1> HIDE DEF keys, n, S
<1>8. \A k \in 1..n : \E i \in 1..Len(refs) : keys[k] = <<"number", refs[i][3]>> /\ refs[i][2] # NoLabel
  <2> TAKE k \in 1..n
  <2>1. PICK i \in 1..Len(refs) : known[k] = refs[i] /\ refs[i][2] # NoLabel
    BY <1>6
  <2>2. keys[k] = <<"number", refs[i][3]>>
    BY <1>5, <2>1
  <2> QED BY <2>1, <2>2
<1>9. \A i \in 1..Len(refs) : refs[i][2] # NoLabel => \E k \in 1..n : keys[k] = <<"number", refs[i][3]>>
  <2> TAKE i \in 1..Len(refs)
  <2> HAVE refs[i][2] # NoLabel
  <2>1. PICK k \in 1..n : known[k] = refs[i]
    BY <1>7
  <2>2. keys[k] = <<"number", refs[i][3]>>
    BY <1>5, <2>1
  <2> QED BY <2>2
<1> QED BY <1>2, <1>4, <1>8, <1>9

\* What stands in a list, as to_sql gives it.
LEMMA ListedOf ==
  ASSUME NEW l \in Tests, l[1] \in {"in", "idin"}
  PROVE  \E S : Listed(l) \in Seq(S)
<1>1. CASE l[1] = "in"
  <2> DEFINE n == Len(l[3])
             f == [i \in DOMAIN l[3] |-> Literal(l[3][i])]
             S == {Literal(l[3][i]) : i \in 1..n}
  <2>1. l[3] \in Seq(Operands)
    BY <1>1 DEF Tests
  <2>2. n \in Nat /\ DOMAIN l[3] = 1..n
    BY <2>1, InList
  <2>3. f \in [1..n -> S]
    BY <2>2
  <2>4. Listed(l) = f
    BY <1>1 DEF Listed
  <2> HIDE DEF f, S
  <2>5. f \in Seq(S)
    BY <2>2, <2>3, IsASeq
  <2> QED BY <2>4, <2>5
<1>2. CASE l[1] = "idin"
  <2>1. l[2] \in Seq(InternalIds)
    BY <1>2 DEF Tests
  <2>2. Listed(l) = Keys(l[2])
    BY <1>2 DEF Listed
  <2> QED BY <2>1, <2>2, KeysOf
<1> QED BY <1>1, <1>2

LEMMA TestParamsOf ==
  ASSUME NEW l \in Tests
  PROVE  /\ \E S : TestParams(l) \in Seq(S)
         /\ Len(TestParams(l)) \in 0..InlineMax
<1>0. InlineMax \in Nat /\ InlineMax >= 1
  BY WhereAssumption
<1> DEFINE Fine(s) == (\E S : s \in Seq(S)) /\ Len(s) \in 0..InlineMax
<1>1. Fine(<<>>)
  <2>1. <<>> \in Seq({}) /\ Len(<<>>) = 0
    BY EmptyList
  <2> QED BY <1>0, <2>1
<1>6. ASSUME NEW x PROVE Fine(<<x>>)
  <2>1. <<x>> \in Seq({x}) /\ Len(<<x>>) = 1
    BY SingleList
  <2>2. \E S : <<x>> \in Seq(S)
    BY <2>1, Zenon
  <2> QED BY <1>0, <2>1, <2>2
<1>7. ASSUME NEW s, \E S : s \in Seq(S), Len(s) <= InlineMax PROVE Fine(s)
  <2>1. Len(s) \in Nat
    BY <1>7, InList
  <2> QED BY <1>0, <1>7, <2>1
<1> HIDE DEF Fine
<1>2. CASE l[1] = "cmp"
  <2>1. TestParams(l) = <<>> \/ TestParams(l) = <<Literal(l[4])>>
    BY <1>2 DEF TestParams
  <2> QED BY <1>1, <1>6, <2>1 DEF Fine
<1>3. CASE l[1] = "like"
  <2>1. TestParams(l) = <<<<"text", Pattern(l[2], Spelled(l[4]))>>>>
    BY <1>3 DEF TestParams
  <2>2. Fine(<<<<"text", Pattern(l[2], Spelled(l[4]))>>>>)
    BY <1>6
  <2> QED BY <2>1, <2>2 DEF Fine
<1>4. CASE l[1] \in {"in", "idin"}
  <2>1. PICK S : Listed(l) \in Seq(S)
    BY <1>4, ListedOf
  <2>2. Len(Listed(l)) \in Nat
    BY <2>1, InList
  <2>3. TestParams(l) = IF Len(Listed(l)) <= InlineMax THEN Listed(l) ELSE <<<<"list", Listed(l)>>>>
    BY <1>4 DEF TestParams, ListParams
  <2>4. Fine(<<<<"list", Listed(l)>>>>)
    BY <1>6
  <2>5. Len(Listed(l)) <= InlineMax => Fine(Listed(l))
    BY <1>7, <2>1
  <2> QED BY <2>3, <2>4, <2>5 DEF Fine
<1>5. CASE l[1] \in {"isnull", "flag"}
  <2>1. TestParams(l) = <<>>
    BY <1>5 DEF TestParams
  <2> QED BY <1>1, <2>1 DEF Fine
<1> QED BY <1>2, <1>3, <1>4, <1>5, TestKinds

\* All that a filter may send.
Sendable == UNION {ToSet(TestParams(l)) : l \in Tests}

LEMMA TestSends ==
  ASSUME NEW l \in Tests
  PROVE  TestParams(l) \in Seq(Sendable)
<1>1. PICK S : TestParams(l) \in Seq(S)
  BY TestParamsOf
<1> DEFINE n == Len(TestParams(l))
<1>2. /\ n \in Nat /\ TestParams(l) \in [1..n -> S]
      /\ \A i \in 1..n : TestParams(l)[i] \in ToSet(TestParams(l))
  BY <1>1, InList, LenProperties
<1>3. \A i \in 1..n : TestParams(l)[i] \in Sendable
  BY <1>2 DEF Sendable
<1>4. TestParams(l) \in [1..n -> Sendable]
  BY <1>2, <1>3
<1> QED BY <1>2, <1>4, IsASeq

\* The parameters of a tree, in the order of its tests.
LEMMA ParamsOf ==
  \A x \in Trees :
    /\ Params(x) \in Seq(Sendable)
    /\ x[1] \in {"and", "or"} => Params(x) = Params(x[2]) \o Params(x[3])
    /\ x[1] = "not" => Params(x) = Params(x[2])
    /\ x \in Tests => Params(x) = TestParams(x)
<1> DEFINE V == Seq(Sendable)
           Joined(x, a, b) == a \o b
           Negated(x, a) == a
           Test(x) == TestParams(x)
           step == [p \in Trees \X V \X V |->
                      IF p[1][1] \in {"and", "or"} THEN Joined(p[1], p[2], p[3])
                      ELSE IF p[1][1] = "not" THEN Negated(p[1], p[2]) ELSE Test(p[1])]
           Fits(g) == g = [x \in Trees |->
                             CASE x[1] \in {"and", "or"} -> g[x[2]] \o g[x[3]]
                               [] x[1] = "not" -> g[x[2]]
                               [] OTHER -> TestParams(x)]
<1>1. PICK v0 \in V : TRUE
  BY EmptyList
<1>2. ASSUME NEW x \in Trees, x[1] \in {"and", "or"}, NEW a \in V, NEW b \in V
      PROVE  Joined(x, a, b) \in V
  BY InBoth
<1>3. ASSUME NEW x \in Trees, x[1] = "not", NEW a \in V PROVE Negated(x, a) \in V
  OBVIOUS
<1>4. ASSUME NEW x \in Tests PROVE Test(x) \in V
  BY TestSends
<1> HIDE DEF V, Joined, Negated, Test
<1>5. /\ \A x \in Trees : \A a, b \in V : x[1] \in {"and", "or"} => step[<<x, a, b>>] = Joined(x, a, b)
      /\ \A x \in Trees : \A a, b \in V : x[1] = "not" => step[<<x, a, b>>] = Negated(x, a)
      /\ \A x \in Trees : \A a, b \in V : x[1] \notin {"and", "or", "not"} => step[<<x, a, b>>] = Test(x)
  OBVIOUS
<1> HIDE DEF step
<1>6. Steps(V, v0, step)
  BY <1>2, <1>3, <1>4, <1>5, TreeParts DEF Steps
<1>7. PICK f \in [Trees -> V] : Stepped(f, v0, step)
  BY <1>6, TreeRecursion
<1>8. \A x \in Trees : f[x] = IF x[1] \in {"and", "or"} THEN Joined(x, f[x[2]], f[x[3]])
                             ELSE IF x[1] = "not" THEN Negated(x, f[x[2]]) ELSE Test(x)
  <2> TAKE x \in Trees
  <2>1. CASE x[1] \in {"and", "or"}
    <3>1. f[x[2]] \in V /\ f[x[3]] \in V
      BY <2>1, TreeParts
    <3> QED BY <1>5, <1>7, <2>1, <3>1 DEF Stepped
  <2>2. CASE x[1] = "not"
    <3>1. f[x[2]] \in V
      BY <2>2, TreeParts
    <3> QED BY <1>1, <1>5, <1>7, <2>2, <3>1 DEF Stepped
  <2>3. CASE x[1] \notin {"and", "or", "not"}
    <3>1. x \in Tests
      BY <2>3, TreeParts
    <3> QED BY <1>1, <1>5, <1>7, <2>3, <3>1 DEF Stepped
  <2> QED BY <2>1, <2>2, <2>3
<1>9. Fits(f)
  BY <1>8 DEF Joined, Negated, Test
<1>10. PICK g : Fits(g) /\ \A x \in Trees : Params(x) = g[x]
  <2> DEFINE g == CHOOSE g : Fits(g)
  <2>1. \A x \in Trees : Params(x) = g[x]
    BY DEF Params
  <2> HIDE DEF Fits
  <2>2. Fits(g)
    BY <1>9
  <2> HIDE DEF g
  <2> QED BY <2>1, <2>2
<1>11. \A x \in Trees : g[x] = IF x[1] \in {"and", "or"} THEN Joined(x, g[x[2]], g[x[3]])
                              ELSE IF x[1] = "not" THEN Negated(x, g[x[2]]) ELSE Test(x)
  BY <1>10 DEF Joined, Negated, Test
<1> HIDE DEF Fits
<1>12. \A l \in Tests : l \in Trees /\ l[1] \notin {"and", "or", "not"}
  BY TreeLevels, TreesGrow, TestKinds
<1>13. /\ \A l \in Tests : g[l] \in V
       /\ \A x \in Trees : x[1] \in {"and", "or"} /\ g[x[2]] \in V /\ g[x[3]] \in V => g[x] \in V
       /\ \A x \in Trees : x[1] = "not" /\ g[x[2]] \in V => g[x] \in V
  BY <1>2, <1>3, <1>4, <1>11, <1>12
<1>14. \A x \in Trees : g[x] \in V
  BY <1>13, TreeValues
<1>15. ASSUME NEW x \in Trees
      PROVE  /\ Params(x) \in V
             /\ x[1] \in {"and", "or"} => Params(x) = Joined(x, Params(x[2]), Params(x[3]))
             /\ x[1] = "not" => Params(x) = Negated(x, Params(x[2]))
             /\ x \in Tests => Params(x) = Test(x)
  <2>1. Params(x) = g[x] /\ g[x] \in V
    BY <1>10, <1>14
  <2>2. ASSUME x[1] \in {"and", "or"} PROVE Params(x) = Joined(x, Params(x[2]), Params(x[3]))
    <3>0. x[2] \in Trees /\ x[3] \in Trees
      BY <2>2, TreeParts
    <3>1. Params(x[2]) = g[x[2]] /\ Params(x[3]) = g[x[3]]
      BY <1>10, <3>0
    <3> QED BY <1>11, <2>1, <2>2, <3>1
  <2>3. ASSUME x[1] = "not" PROVE Params(x) = Negated(x, Params(x[2]))
    <3>1. Params(x[2]) = g[x[2]]
      BY <1>10, <2>3, TreeParts
    <3> QED BY <1>11, <2>1, <2>3, <3>1
  <2>4. ASSUME x \in Tests PROVE Params(x) = Test(x)
    BY <1>11, <1>12, <2>1, <2>4
  <2> QED BY <2>1, <2>2, <2>3, <2>4
<1> QED BY <1>15 DEF V, Joined, Negated, Test

LEMMA ParamsBound ==
  \A x \in Trees : Len(Params(x)) \in 0..(InlineMax * TestCount(x))
<1>0. InlineMax \in Nat
  BY WhereAssumption
<1> DEFINE size == [x \in Trees |-> <<Len(Params(x)), TestCount(x)>>]
           V == {p \in Nat \X Nat : p[1] <= InlineMax * p[2]}
<1>1. ASSUME NEW l \in Tests PROVE size[l] \in V
  <2>1. l \in Trees
    BY TreeLevels, TreesGrow
  <2>2. Params(l) = TestParams(l) /\ TestCount(l) = 1
    BY <2>1, ParamsOf, CountOf
  <2>3. Len(TestParams(l)) \in 0..InlineMax /\ InlineMax * 1 = InlineMax
    BY <1>0, TestParamsOf
  <2>4. size[l] = <<Len(TestParams(l)), 1>>
    BY <2>1, <2>2
  <2> QED BY <1>0, <2>3, <2>4
<1>2. ASSUME NEW x \in Trees, x[1] \in {"and", "or"}, size[x[2]] \in V, size[x[3]] \in V
      PROVE  size[x] \in V
  <2>1. x[2] \in Trees /\ x[3] \in Trees
    BY <1>2, TreeParts
  <2> DEFINE a == Len(Params(x[2]))
             b == Len(Params(x[3]))
             c == TestCount(x[2])
             d == TestCount(x[3])
  <2>2. /\ a \in Nat /\ c \in Nat /\ a <= InlineMax * c
        /\ b \in Nat /\ d \in Nat /\ b <= InlineMax * d
    BY <1>2, <2>1
  <2>3. Params(x) = Params(x[2]) \o Params(x[3]) /\ TestCount(x) = c + d
    BY <1>2, ParamsOf, CountOf
  <2>4. Params(x[2]) \in Seq(Sendable) /\ Params(x[3]) \in Seq(Sendable)
    BY <2>1, ParamsOf
  <2>5. Len(Params(x)) = a + b
    BY <2>3, <2>4, InBoth
  <2> HIDE DEF a, b, c, d
  <2>6. InlineMax * c \in Nat /\ InlineMax * d \in Nat
    BY <1>0, <2>2
  <2>7. InlineMax * (c + d) = InlineMax * c + InlineMax * d
    BY <1>0, <2>2
  <2>8. a + b <= InlineMax * (c + d)
    BY <2>2, <2>6, <2>7
  <2>9. size[x] = <<a + b, c + d>>
    BY <2>3, <2>5
  <2> QED BY <2>2, <2>8, <2>9
<1>3. ASSUME NEW x \in Trees, x[1] = "not", size[x[2]] \in V PROVE size[x] \in V
  <2>1. x[2] \in Trees
    BY <1>3, TreeParts
  <2>2. Params(x) = Params(x[2]) /\ TestCount(x) = TestCount(x[2])
    BY <1>3, ParamsOf, CountOf
  <2> QED BY <1>3, <2>1, <2>2
<1>4. \A x \in Trees : size[x] \in V
  <2> HIDE DEF size, V
  <2> QED BY <1>1, <1>2, <1>3, TreeValues
<1>5. ASSUME NEW x \in Trees PROVE Len(Params(x)) \in 0..(InlineMax * TestCount(x))
  <2>1. /\ Len(Params(x)) \in Nat /\ TestCount(x) \in Nat
        /\ Len(Params(x)) <= InlineMax * TestCount(x)
    BY <1>4
  <2>2. InlineMax * TestCount(x) \in Nat
    BY <1>0, <2>1
  <2> QED BY <2>1, <2>2
<1> QED BY <1>5

-----------------------------------------------------------------------------
(* The parameters of a statement: route by route, what its hops bind and   *)
(* what the filter binds.                                                  *)

Bindable == Sendable \cup STRING \cup {1, 2}

LEMMA FilterBinds ==
  ASSUME NEW e \in {<<"all">>} \cup Trees
  PROVE  /\ FilterParams(e) \in Seq(Bindable)
         /\ Used(e) \in Nat /\ Len(FilterParams(e)) <= Used(e)
<1>1. CASE e = <<"all">>
  <2>1. FilterParams(e) = <<>> /\ Used(e) = 0
    BY <1>1 DEF FilterParams, Used
  <2>2. <<>> \in Seq(Bindable) /\ Len(<<>>) = 0
    BY EmptyList
  <2> QED BY <2>1, <2>2
<1>2. CASE e # <<"all">>
  <2>1. e \in Trees /\ FilterParams(e) = Params(e) /\ Used(e) = InlineMax * TestCount(e)
    BY <1>2 DEF FilterParams, Used
  <2>2. Params(e) \in Seq(Sendable) /\ Len(Params(e)) \in 0..(InlineMax * TestCount(e))
    BY <2>1, ParamsOf, ParamsBound
  <2>3. Params(e) \in Seq(Bindable)
    BY <2>2 DEF Bindable
  <2>4. InlineMax \in Nat /\ TestCount(e) \in Nat
    BY <2>1, WhereAssumption, CountOf
  <2>5. InlineMax * TestCount(e) \in Nat
    BY <2>4
  <2> QED BY <2>1, <2>2, <2>3, <2>5
<1> QED BY <1>1, <1>2

LEMMA HopBinds ==
  ASSUME NEW h \in Hops, NEW e
  PROVE  /\ FromParams(h) \in Seq(Bindable) /\ PrefixParams(h, e) \in Seq(Bindable)
         /\ Len(FromParams(h) \o PrefixParams(h, e)) <= 4
<1>1. /\ h.table \in Bindable /\ h.near_end \in Bindable /\ h.far_end \in Bindable
      /\ h.prefixes \in Seq(STRING) /\ Len(h.prefixes) <= 2
      /\ h.resolution \in {"fk", "prefixed_fk", "link_end"}
  BY DEF Hops, Bindable
<1>2. h.prefixes \in Seq(Bindable)
  BY <1>1 DEF Bindable
<1>3. <<>> \in Seq(Bindable) /\ Len(<<>>) = 0
  BY EmptyList
<1>4. CASE h.resolution = "link_end"
  <2>1. FromParams(h) = <<h.table, h.near_end, h.table, h.far_end>> /\ PrefixParams(h, e) = <<>>
    BY <1>4 DEF FromParams, PrefixParams
  <2>2. FromParams(h) \in Seq(Bindable) /\ Len(FromParams(h)) = 4
    BY <1>1, <2>1
  <2>3. Len(FromParams(h) \o PrefixParams(h, e)) = 4 + 0
    BY <1>3, <2>1, <2>2, InBoth
  <2> QED BY <1>3, <2>1, <2>2, <2>3
<1>5. CASE h.resolution # "link_end"
  <2>1. FromParams(h) = <<>>
    BY <1>5 DEF FromParams
  <2>2. PrefixParams(h, e) = <<>> \/ PrefixParams(h, e) = h.prefixes
    BY DEF PrefixParams
  <2>3. PrefixParams(h, e) \in Seq(Bindable) /\ Len(PrefixParams(h, e)) \in 0..2
    <3>1. Len(h.prefixes) \in Nat
      BY <1>2, LenProperties
    <3>2. Len(h.prefixes) \in 0..2
      <4>1. \A x \in Nat : x <= 2 => x \in 0..2
        OBVIOUS
      <4> QED BY <1>1, <3>1, <4>1, Zenon
    <3>3. Len(<<>>) \in 0..2
      BY <1>3
    <3> QED BY <1>2, <1>3, <2>2, <3>2, <3>3
  <2>4. Len(FromParams(h) \o PrefixParams(h, e)) = 0 + Len(PrefixParams(h, e))
    BY <1>3, <2>1, <2>3, InBoth
  <2> QED BY <1>3, <2>1, <2>3, <2>4
<1> QED BY <1>4, <1>5

\* JoinsFirst, of one route.
Orderly(route, e) ==
  \A i, j \in DOMAIN route :
    i < j => FromParams(route[j]) = <<>> \/ PrefixParams(route[i], e) = <<>>

LEMMA RouteBinds ==
  ASSUME NEW route \in Seq(Hops), NEW e \in {<<"all">>} \cup Trees
  PROVE  /\ TextOrder(route, e) \in Seq(Bindable) /\ CompileOrder(route, e) \in Seq(Bindable)
         /\ Len(TextOrder(route, e)) = Len(CompileOrder(route, e))
         /\ Len(CompileOrder(route, e)) <= 4 * Len(route) + Used(e)
         /\ Orderly(route, e) => TextOrder(route, e) = CompileOrder(route, e)
<1> DEFINE n == Len(route)
           ff == [i \in DOMAIN route |-> FromParams(route[i])]
           pp == [i \in DOMAIN route |-> PrefixParams(route[i], e)]
           both == [i \in DOMAIN route |-> FromParams(route[i]) \o PrefixParams(route[i], e)]
           last == FilterParams(e)
<1>1. n \in Nat /\ DOMAIN route = 1..n /\ \A i \in 1..n : route[i] \in Hops
  BY InList
<1>2. ff \in [1..n -> Seq(Bindable)] /\ pp \in [1..n -> Seq(Bindable)]
  BY <1>1, HopBinds
<1>3. /\ \A i \in 1..n : ff[i] = FromParams(route[i]) /\ pp[i] = PrefixParams(route[i], e)
      /\ \A i \in 1..n : both[i] = ff[i] \o pp[i]
      /\ \A i \in 1..n : both[i] = FromParams(route[i]) \o PrefixParams(route[i], e)
      /\ both = [i \in 1..n |-> both[i]]
  BY <1>1
<1>4. /\ AllFrom(route) = FlattenSeq(ff) /\ AllPrefixes(route, e) = FlattenSeq(pp)
      /\ TextOrder(route, e) = FlattenSeq(ff) \o FlattenSeq(pp) \o last
      /\ CompileOrder(route, e) = FlattenSeq(both) \o last
  BY DEF AllFrom, AllPrefixes, TextOrder, CompileOrder
<1> HIDE DEF ff, pp, both, n
<1>12. both \in [1..n -> Seq(Bindable)]
  <2>1. \A i \in 1..n : both[i] \in Seq(Bindable)
    BY <1>2, <1>3, InBoth
  <2> QED BY <1>3, <2>1
<1>5. /\ FlattenSeq(both) \in Seq(Bindable)
      /\ FlattenSeq(ff) \in Seq(Bindable) /\ FlattenSeq(pp) \in Seq(Bindable)
      /\ Len(FlattenSeq(both)) = Len(FlattenSeq(ff) \o FlattenSeq(pp))
      /\ Apart(n, ff, pp) => FlattenSeq(both) = FlattenSeq(ff) \o FlattenSeq(pp)
  <2>1. Paired(Bindable, n, ff, pp, both)
    BY <1>1, <1>2, <1>3, <1>12 DEF Paired
  <2> QED BY <2>1, FlattenPairs
<1>6. FlattenSeq(ff) \o FlattenSeq(pp) \in Seq(Bindable)
  BY <1>5, InBoth
<1>7. last \in Seq(Bindable) /\ Used(e) \in Nat /\ Len(last) <= Used(e)
  BY FilterBinds
<1> HIDE DEF last
<1>13. /\ Len(FlattenSeq(both) \o last) = Len(FlattenSeq(both)) + Len(last)
       /\ FlattenSeq(both) \o last \in Seq(Bindable)
  BY <1>5, <1>7, InBoth
<1>14. /\ Len((FlattenSeq(ff) \o FlattenSeq(pp)) \o last) = Len(FlattenSeq(ff) \o FlattenSeq(pp)) + Len(last)
       /\ (FlattenSeq(ff) \o FlattenSeq(pp)) \o last \in Seq(Bindable)
  BY <1>6, <1>7, InBoth
<1>8. /\ TextOrder(route, e) \in Seq(Bindable) /\ CompileOrder(route, e) \in Seq(Bindable)
      /\ Len(TextOrder(route, e)) = Len(CompileOrder(route, e))
      /\ Len(CompileOrder(route, e)) = Len(FlattenSeq(both)) + Len(last)
  BY <1>4, <1>5, <1>13, <1>14
<1>9. Len(FlattenSeq(both)) <= 4 * n
  <2>1. both \in Seq(Seq(Bindable)) /\ Len(both) = n
    BY <1>1, <1>12, IsASeq
  <2>2. \A k \in 1..n : Len(both[k]) <= 4
    <3> TAKE k \in 1..n
    <3>1. route[k] \in Hops /\ both[k] = FromParams(route[k]) \o PrefixParams(route[k], e)
      BY <1>1, <1>3
    <3> QED BY <3>1, HopBinds
  <2>3. \A k \in 1..Len(both) : Len(both[k]) <= 4
    BY <2>1, <2>2
  <2>4. 4 \in Nat
    OBVIOUS
  <2>5. Len(FlattenSeq(both)) <= 4 * Len(both)
    BY <2>1, <2>3, <2>4, FlattenBound
  <2> QED BY <2>1, <2>5
<1>10. Len(CompileOrder(route, e)) <= 4 * n + Used(e)
  <2>1. Len(FlattenSeq(both)) \in Nat /\ Len(last) \in Nat
    BY <1>5, <1>7, LenProperties
  <2> QED BY <1>1, <1>7, <1>8, <1>9, <2>1
<1>11. ASSUME Orderly(route, e) PROVE TextOrder(route, e) = CompileOrder(route, e)
  <2>1. Apart(n, ff, pp)
    BY <1>1, <1>3, <1>11 DEF Orderly, Apart
  <2> QED BY <1>4, <1>5, <2>1
<1> QED BY <1>8, <1>10, <1>11 DEF n

Holes(e, all) == FlattenSeq([k \in DOMAIN all |-> TextOrder(all[k], e)])
Bound(e, all) == FlattenSeq([k \in DOMAIN all |-> CompileOrder(all[k], e)])

LEMMA QueryBinds ==
  ASSUME NEW all \in Seq(Seq(Hops)), NEW e \in {<<"all">>} \cup Trees
  PROVE  /\ Holes(e, all) \in Seq(Bindable) /\ Bound(e, all) \in Seq(Bindable)
         /\ Len(Bound(e, all)) = Len(Holes(e, all))
         /\ Len(Bound(e, all)) <= 4 * Len(FlattenSeq(all)) + Used(e) * Len(all)
         /\ (\A k \in DOMAIN all : Orderly(all[k], e)) => Bound(e, all) = Holes(e, all)
<1> DEFINE n == Len(all)
           tt == [k \in DOMAIN all |-> TextOrder(all[k], e)]
           cc == [k \in DOMAIN all |-> CompileOrder(all[k], e)]
<1>1. n \in Nat /\ DOMAIN all = 1..n /\ \A k \in 1..n : all[k] \in Seq(Hops)
  BY InList
<1>2. /\ \A k \in 1..n : tt[k] = TextOrder(all[k], e) /\ cc[k] = CompileOrder(all[k], e)
      /\ tt = [k \in 1..n |-> tt[k]] /\ cc = [k \in 1..n |-> cc[k]]
  BY <1>1
<1>3. Holes(e, all) = FlattenSeq(tt) /\ Bound(e, all) = FlattenSeq(cc)
  BY DEF Holes, Bound
<1> HIDE DEF tt, cc, n
<1>4. \A k \in 1..n :
        /\ tt[k] \in Seq(Bindable) /\ cc[k] \in Seq(Bindable)
        /\ Len(cc[k]) = Len(tt[k])
        /\ Len(cc[k]) <= 4 * Len(all[k]) + Used(e)
        /\ Orderly(all[k], e) => cc[k] = tt[k]
  BY <1>1, <1>2, RouteBinds
<1>5. /\ tt \in Seq(Seq(Bindable)) /\ Len(tt) = n
      /\ cc \in Seq(Seq(Bindable)) /\ Len(cc) = n
  <2>1. \A k \in 1..n : tt[k] \in Seq(Bindable) /\ cc[k] \in Seq(Bindable)
    BY <1>4
  <2>2. tt \in [1..n -> Seq(Bindable)] /\ cc \in [1..n -> Seq(Bindable)]
    BY <1>2, <2>1
  <2> QED BY <1>1, <2>2, IsASeq
<1>6. FlattenSeq(tt) \in Seq(Bindable) /\ FlattenSeq(cc) \in Seq(Bindable)
  BY <1>5, FlattenHolds
<1>7. Len(FlattenSeq(cc)) = Len(FlattenSeq(tt))
  BY <1>4, <1>5, FlattenSameLength
<1>8. Len(FlattenSeq(cc)) <= 4 * Len(FlattenSeq(all)) + Used(e) * n
  <2>1. Used(e) \in Nat
    BY FilterBinds
  <2>2. 4 \in Nat
    OBVIOUS
  <2>3. \A k \in 1..Len(cc) : Len(cc[k]) <= 4 * Len(all[k]) + Used(e)
    BY <1>4, <1>5
  <2>5. Weighed(cc, all, 4, Used(e))
    BY <1>5, <2>1, <2>2, <2>3 DEF Weighed, n
  <2>4. Len(FlattenSeq(cc)) <= 4 * Len(FlattenSeq(all)) + Used(e) * Len(cc)
    BY <1>5, <2>5, FlattenWeighed
  <2> QED BY <1>5, <2>4
<1>9. ASSUME \A k \in DOMAIN all : Orderly(all[k], e) PROVE cc = tt
  <2>1. \A k \in 1..n : cc[k] = tt[k]
    BY <1>1, <1>4, <1>9
  <2> QED BY <1>2, <2>1
<1> QED BY <1>3, <1>6, <1>7, <1>8, <1>9 DEF n

-----------------------------------------------------------------------------
(* The inductive invariant: what each stage has made of the query.         *)

Asked == /\ filter \in Filters /\ routes \in Queries /\ openjson \in BOOLEAN
         /\ stage \in {"asked", "translated", "compiled", "answered", "refused", "failed"}

Understood ==
  /\ stage = "asked" => where = <<"all">>
  /\ stage # "asked" => where = IF filter.text = <<>> THEN <<"all">> ELSE Parse(filter.text)
  /\ where = <<"error">> => stage = "refused"

Assembled ==
  \/ holes = <<>> /\ params = <<>> /\ stage \notin {"compiled", "answered"}
  \/ /\ holes = Holes(where, routes) /\ params = Bound(where, routes)
     /\ stage \in {"compiled", "answered", "failed"}

Answered ==
  /\ stage # "answered" => kept = {}
  /\ stage \in {"compiled", "answered"} /\ where # <<"all">> => ~Refuses(where) /\ ~Raises(where)
  /\ stage = "answered" =>
       /\ where # <<"all">> => ~Breaks(where, openjson)
       /\ kept = {r \in Rows : ~Misbound /\ (where # <<"all">> => Keeps(where, r, openjson))}

IInv == Asked /\ Understood /\ Assembled /\ Answered

LEMMA NoTreeWords == <<"all">> \notin Trees /\ <<"error">> \notin Trees
<1>1. \A x \in Trees : x[1] \in {"cmp", "like", "in", "idin", "isnull", "flag", "and", "or", "not"}
  BY TreeCases, TestKinds
<1>2. <<"all">>[1] = "all" /\ <<"error">>[1] = "error"
  OBVIOUS
<1> QED BY <1>1, <1>2

\* What is translated is a tree, or there is no filter, or an error.
LEMMA Meanings ==
  ASSUME IInv
  PROVE  /\ where \in {<<"all">>, <<"error">>} \cup Trees
         /\ stage # "refused" => where \in {<<"all">>} \cup Trees
         /\ routes \in Seq(Seq(Hops))
<1>1. \A f \in Filters : f.text = <<>> \/ Parse(f.text) \in {<<"error">>} \cup Trees
  BY StatementsAssumption
<1>2. where \in {<<"all">>, <<"error">>} \cup Trees
  BY <1>1 DEF IInv, Asked, Understood
<1>3. stage # "refused" => where # <<"error">>
  BY DEF IInv, Understood
<1>4. routes \in Seq(Seq(Hops))
  BY StatementsAssumption DEF IInv, Asked
<1> QED BY <1>2, <1>3, <1>4

LEMMA InitHolds == Init => IInv
<1> SUFFICES ASSUME Init PROVE IInv
  OBVIOUS
<1>1. <<"all">> # <<"error">>
  OBVIOUS
<1> QED BY <1>1 DEF Init, IInv, Asked, Understood, Assembled, Answered

LEMMA StepHolds == IInv /\ [Next]_vars => IInv'
<1> SUFFICES ASSUME IInv, [Next]_vars PROVE IInv'
  OBVIOUS
<1>1. CASE Translate
  <2>1. /\ stage = "asked" /\ where = <<"all">> /\ kept = {} /\ filter' = filter /\ routes' = routes
        /\ openjson' = openjson /\ holes' = holes /\ params' = params /\ kept' = kept
        /\ where' = IF filter.text = <<>> THEN <<"all">> ELSE Parse(filter.text)
        /\ stage' = IF where' = <<"error">> THEN "refused" ELSE "translated"
    BY <1>1 DEF Translate, IInv, Understood, Answered
  <2>2. Asked'
    BY <2>1 DEF IInv, Asked
  <2>3. Understood'
    BY <2>1 DEF Understood
  <2>4. Assembled'
    BY <2>1 DEF IInv, Assembled
  <2>5. Answered'
    BY <2>1 DEF Answered
  <2> QED BY <2>2, <2>3, <2>4, <2>5 DEF IInv
<1>2. CASE Decline
  <2>1. /\ stage = "translated" /\ stage' \in {"refused", "failed"} /\ where' = where
        /\ filter' = filter /\ routes' = routes /\ openjson' = openjson
        /\ holes' = holes /\ params' = params /\ kept' = kept
    BY <1>2 DEF Decline
  <2>2. Asked'
    BY <2>1 DEF IInv, Asked
  <2>3. Understood'
    BY <2>1 DEF IInv, Understood
  <2>4. Assembled'
    BY <2>1 DEF IInv, Assembled, Holes, Bound
  <2>5. Answered'
    BY <2>1 DEF IInv, Answered
  <2> QED BY <2>2, <2>3, <2>4, <2>5 DEF IInv
<1>3. CASE Compile
  <2>1. /\ stage = "translated" /\ stage' = "compiled" /\ where' = where
        /\ filter' = filter /\ routes' = routes /\ openjson' = openjson /\ kept' = kept
        /\ where # <<"all">> => ~Refuses(where) /\ ~Raises(where)
        /\ holes' = Holes(where, routes) /\ params' = Bound(where, routes)
    BY <1>3 DEF Compile, Holes, Bound
  <2>2. Asked'
    BY <2>1 DEF IInv, Asked
  <2>3. Understood'
    BY <2>1 DEF IInv, Understood
  <2>4. Assembled'
    BY <2>1 DEF Assembled
  <2>5. Answered'
    BY <2>1 DEF IInv, Answered
  <2> QED BY <2>2, <2>3, <2>4, <2>5 DEF IInv
<1>4. CASE Run
  <2>1. /\ stage = "compiled" /\ stage' = "answered" /\ where' = where
        /\ filter' = filter /\ routes' = routes /\ openjson' = openjson
        /\ holes' = holes /\ params' = params
        /\ where # <<"all">> => ~Breaks(where, openjson)
        /\ kept' = {r \in Rows : ~Misbound /\ (where # <<"all">> => Keeps(where, r, openjson))}
    BY <1>4 DEF Run
  <2>2. Asked'
    BY <2>1 DEF IInv, Asked
  <2>3. Understood'
    BY <2>1 DEF IInv, Understood
  <2>4. Assembled'
    BY <2>1 DEF IInv, Assembled, Holes, Bound
  <2>5. Answered'
    BY <2>1 DEF IInv, Answered, Misbound
  <2> QED BY <2>2, <2>3, <2>4, <2>5 DEF IInv
<1>5. CASE Fail
  <2>1. /\ stage = "compiled" /\ stage' = "failed" /\ where' = where
        /\ filter' = filter /\ routes' = routes /\ openjson' = openjson
        /\ holes' = holes /\ params' = params /\ kept' = kept
    BY <1>5 DEF Fail
  <2>2. Asked'
    BY <2>1 DEF IInv, Asked
  <2>3. Understood'
    BY <2>1 DEF IInv, Understood
  <2>4. Assembled'
    BY <2>1 DEF IInv, Assembled, Holes, Bound
  <2>5. Answered'
    BY <2>1 DEF IInv, Answered
  <2> QED BY <2>2, <2>3, <2>4, <2>5 DEF IInv
<1>6. CASE UNCHANGED vars
  BY <1>6 DEF vars, IInv, Asked, Understood, Assembled, Answered, Holes, Bound, Misbound
<1> QED BY <1>1, <1>2, <1>3, <1>4, <1>5, <1>6 DEF Next

(***************************************************************************)
(* Each stage of a query leaves what the next one needs, for every filter  *)
(* and route.                                                              *)
(***************************************************************************)
THEOREM IInvHolds == Spec => []IInv
<1>1. Init => IInv
  BY InitHolds
<1>2. IInv /\ [Next]_vars => IInv'
  BY StepHolds
<1> QED BY <1>1, <1>2, PTL DEF Spec

(***************************************************************************)
(* The variables keep their types, and as many parameters are bound as     *)
(* there are question marks, whatever the filter and the routes.           *)
(***************************************************************************)
THEOREM TypesHold == Spec => []TypeOK
<1>1. IInv => TypeOK
  <2> SUFFICES ASSUME IInv PROVE TypeOK
    OBVIOUS
  <2>1. routes \in Queries /\ openjson \in BOOLEAN
        /\ stage \in {"asked", "translated", "compiled", "answered", "refused", "failed"}
    BY DEF IInv, Asked
  <2>2. Len(params) = Len(holes)
    <3>1. CASE holes = <<>> /\ params = <<>>
      BY <3>1
    <3>2. CASE /\ holes = Holes(where, routes) /\ params = Bound(where, routes)
               /\ stage \in {"compiled", "answered", "failed"}
      <4>1. where \in {<<"all">>} \cup Trees /\ routes \in Seq(Seq(Hops))
        BY <3>2, Meanings
      <4> QED BY <3>2, <4>1, QueryBinds
    <3> QED BY <3>1, <3>2 DEF IInv, Assembled
  <2>3. kept \subseteq Rows
    BY DEF IInv, Answered, Asked
  <2> QED BY <2>1, <2>2, <2>3 DEF TypeOK
<1> QED BY <1>1, IInvHolds, PTL

(***************************************************************************)
(* For every filter, however deep and however long its lists, and however  *)
(* many hops: the parameters stand in the order of their question marks    *)
(* where no join follows a prefix, and there are no more of them than four *)
(* for a hop and a short list for a test.                                  *)
(***************************************************************************)
THEOREM ParametersAreInOrder == Spec => []BoundInOrder
<1>1. IInv => BoundInOrder
  <2> SUFFICES ASSUME IInv, stage = "compiled", JoinsFirst
               PROVE  /\ params = holes
                      /\ Len(params) <= 4 * Len(FlattenSeq(routes)) + Used(where) * Len(routes)
    BY DEF BoundInOrder
  <2>1. where \in {<<"all">>} \cup Trees /\ routes \in Seq(Seq(Hops))
    BY Meanings
  <2>2. holes = Holes(where, routes) /\ params = Bound(where, routes)
    BY DEF IInv, Assembled
  <2>3. \A k \in DOMAIN routes : Orderly(routes[k], where)
    BY DEF JoinsFirst, Orderly
  <2> QED BY <2>1, <2>2, <2>3, QueryBinds
<1> QED BY <1>1, IInvHolds, PTL

-----------------------------------------------------------------------------
(* Degrees of truth.                                                       *)

LEMMA PartsInduction ==
  ASSUME NEW P, Tests \subseteq P,
         \A x \in Trees : x[1] \in {"and", "or"} /\ x[2] \in P /\ x[3] \in P => x \in P,
         \A x \in Trees : x[1] = "not" /\ x[2] \in P => x \in P
  PROVE  Trees \subseteq P
<1> DEFINE g == [x \in Trees |-> x]
<1>1. \A l \in Tests : g[l] \in P
  BY TreeLevels, TreesGrow
<1>2. ASSUME NEW x \in Trees, x[1] \in {"and", "or"}, g[x[2]] \in P, g[x[3]] \in P
      PROVE  g[x] \in P
  <2>1. x[2] \in Trees /\ x[3] \in Trees
    BY <1>2, TreeParts
  <2> QED BY <1>2, <2>1
<1>3. ASSUME NEW x \in Trees, x[1] = "not", g[x[2]] \in P PROVE g[x] \in P
  <2>1. x[2] \in Trees
    BY <1>3, TreeParts
  <2> QED BY <1>3, <2>1
<1>4. \A x \in Trees : g[x] \in P
  <2> HIDE DEF g
  <2> QED BY <1>1, <1>2, <1>3, TreeValues
<1> QED BY <1>4

LEMMA TwoDegrees == \A b : Degree(b) \in {0, 2}
BY DEF Degree

LEMMA ThreeDegrees ==
  /\ \A op, a, b : Compared(op, a, b) \in 0..2
  /\ \A a, values : Among(a, values) \in 0..2
  /\ \A a, values, b : ListTest(a, values, b) \in 0..2
<1>1. \A op, a, b : Compared(op, a, b) \in 0..2
  <2> TAKE op, a, b
  <2>1. CASE Null \in {a, b}
    BY <2>1 DEF Compared
  <2>2. CASE Null \notin {a, b}
    <3>1. \E p : Compared(op, a, b) = Degree(p)
      BY <2>2, Zenon DEF Compared
    <3> QED BY <3>1, TwoDegrees
  <2> QED BY <2>1, <2>2
<1>2. \A a, values : Among(a, values) \in 0..2
  BY DEF Among
<1>3. \A a, values, b : ListTest(a, values, b) \in 0..2
  BY <1>2 DEF ListTest
<1> QED BY <1>1, <1>2, <1>3

LEMMA SqlDegrees ==
  ASSUME NEW row, NEW b
  PROVE  \A l \in Tests : SqlLeaf(l, row, b) \in 0..2
<1> TAKE l \in Tests
<1>1. CASE l[1] = "cmp"
  <2>1. \E p, q, r : SqlLeaf(l, row, b) = Compared(p, q, r)
    BY <1>1, Zenon DEF SqlLeaf
  <2> QED BY <2>1, ThreeDegrees
<1>2. CASE l[1] = "like"
  <2>1. SqlLeaf(l, row, b) = 1 \/ \E p : SqlLeaf(l, row, b) = Degree(p)
    BY <1>2, Zenon DEF SqlLeaf
  <2> QED BY <2>1, TwoDegrees
<1>3. CASE l[1] \in {"in", "idin"}
  <2>1. \E p, q : \/ SqlLeaf(l, row, b) = ListTest(p, q, b)
                  \/ SqlLeaf(l, row, b) = 2 - ListTest(p, q, b)
    BY <1>3 DEF SqlLeaf
  <2>2. PICK p, q : \/ SqlLeaf(l, row, b) = ListTest(p, q, b)
                    \/ SqlLeaf(l, row, b) = 2 - ListTest(p, q, b)
    BY <2>1
  <2>3. ListTest(p, q, b) \in 0..2
    BY ThreeDegrees
  <2> QED BY <2>2, <2>3
<1>4. CASE l[1] = "isnull"
  <2>1. \E p : SqlLeaf(l, row, b) = Degree(p) \/ SqlLeaf(l, row, b) = 2 - Degree(p)
    BY <1>4 DEF SqlLeaf
  <2>2. PICK p : SqlLeaf(l, row, b) = Degree(p) \/ SqlLeaf(l, row, b) = 2 - Degree(p)
    BY <2>1
  <2> QED BY <2>2, TwoDegrees
<1>5. CASE l[1] = "flag"
  <2>1. \E p, q, r : SqlLeaf(l, row, b) = Compared(p, q, r)
    BY <1>5 DEF SqlLeaf
  <2> QED BY <2>1, ThreeDegrees
<1> QED BY <1>1, <1>2, <1>3, <1>4, <1>5, TestKinds

-----------------------------------------------------------------------------
(* Hints: the ids of a list of them are true of a row where the test is.   *)

\* A value that is not null is among those sent for a list of keys, if it is one.
LEMMA KeysSent ==
  ASSUME NEW refs \in Seq(InternalIds), NEW key \in Int, NEW b
  PROVE  ListTest(<<"number", key>>, Keys(refs), b) =
           Degree(\E i \in 1..Len(refs) : refs[i][2] # NoLabel /\ refs[i][3] = key)
<1> DEFINE keys == Keys(refs)
           n == Len(keys)
           a == <<"number", key>>
           Listed1 == \E i \in 1..Len(refs) : refs[i][2] # NoLabel /\ refs[i][3] = key
<1>1. PICK S : keys \in Seq(S)
  BY KeysOf
<1>2. /\ n \in Nat /\ DOMAIN keys = 1..n
      /\ \A x : x \in ToSet(keys) <=> \E k \in 1..n : keys[k] = x
      /\ ToSet(keys) = {} <=> keys = <<>>
  BY <1>1, InList
<1>3. \A k \in 1..n : \E i \in 1..Len(refs) : keys[k] = <<"number", refs[i][3]>> /\ refs[i][2] # NoLabel
  BY KeysOf
<1>4. \A i \in 1..Len(refs) : refs[i][2] # NoLabel => \E k \in 1..n : keys[k] = <<"number", refs[i][3]>>
  BY KeysOf
<1> HIDE DEF keys, n
<1>5. \A k \in 1..n : keys[k] # Null
  BY <1>3 DEF Null
<1>6. Sent(keys, b) = keys
  <2> DEFINE other == [i \in DOMAIN keys |-> IF keys[i] = Null THEN <<"text", Spelled(Null)>> ELSE keys[i]]
  <2>1. other = [i \in DOMAIN keys |-> keys[i]]
    BY <1>2, <1>5
  <2>2. keys = [i \in DOMAIN keys |-> keys[i]]
    BY <1>1
  <2>3. other = keys
    BY <2>1, <2>2
  <2>4. Sent(keys, b) = keys \/ Sent(keys, b) = other
    BY DEF Sent
  <2> QED BY <2>3, <2>4
<1>7. a \in ToSet(keys) <=> Listed1
  <2>1. ASSUME a \in ToSet(keys) PROVE Listed1
    <3>1. PICK k \in 1..n : keys[k] = a
      BY <1>2, <2>1
    <3>2. PICK i \in 1..Len(refs) : keys[k] = <<"number", refs[i][3]>> /\ refs[i][2] # NoLabel
      BY <1>3
    <3>3. refs[i][3] = key
      BY <3>1, <3>2
    <3> QED BY <3>2, <3>3
  <2>2. ASSUME Listed1 PROVE a \in ToSet(keys)
    <3>1. PICK i \in 1..Len(refs) : refs[i][2] # NoLabel /\ refs[i][3] = key
      BY <2>2
    <3>2. PICK k \in 1..n : keys[k] = <<"number", refs[i][3]>>
      BY <1>4, <3>1
    <3> QED BY <1>2, <3>1, <3>2
  <2> QED BY <2>1, <2>2
<1>8. a # Null /\ Null \notin ToSet(keys)
  BY <1>2, <1>5 DEF Null
<1>9. Among(a, keys) = Degree(Listed1)
  <2>1. Among(a, keys) = IF a \in ToSet(keys) THEN 2 ELSE 0
    BY <1>8 DEF Among
  <2> HIDE DEF Listed1, a
  <2> QED BY <1>7, <2>1 DEF Degree
<1>10. CASE keys = <<>>
  <2>1. ListTest(a, keys, b) = 0 /\ a \notin ToSet(keys)
    BY <1>2, <1>10 DEF ListTest
  <2> HIDE DEF Listed1
  <2>2. Degree(Listed1) = 0
    BY <1>7, <2>1 DEF Degree
  <2> QED BY <2>1, <2>2 DEF keys, Listed1
<1>11. CASE keys # <<>>
  <2>1. ListTest(a, keys, b) = Among(a, keys)
    BY <1>6, <1>11 DEF ListTest
  <2> QED BY <1>9, <2>1 DEF keys
<1> QED BY <1>10, <1>11

Hinted(refs, row) == \E j \in DOMAIN refs : refs[j][3] = row.key

LEMMA HintsTrue ==
  ASSUME NEW row, row.key \in Int, NEW b, NEW d, d = [l \in Tests |-> SqlLeaf(l, row, b)]
  PROVE  \A x \in Trees : Connected(x, d) = 2 =>
           \A i \in 1..Len(Hints(x)) : Hinted(Hints(x)[i], row)
<1> DEFINE True(x) == Connected(x, d) = 2 => \A i \in 1..Len(Hints(x)) : Hinted(Hints(x)[i], row)
           P == {x \in Trees : True(x)}
<1>1. \A l \in Tests : d[l] \in 0..2
  BY SqlDegrees
<1>2. ASSUME NEW l \in Tests PROVE l \in P
  <2>1. l \in Trees /\ Connected(l, d) = SqlLeaf(l, row, b)
    <3>1. l \in Trees
      BY TreeLevels, TreesGrow
    <3>2. Connected(l, d) = d[l]
      BY <1>1, <3>1, DegreeOf
    <3>3. d[l] = SqlLeaf(l, row, b)
      OBVIOUS
    <3> QED BY <3>1, <3>2, <3>3
  <2>2. Hints(l) = IF l[1] = "idin" /\ ~l[3] THEN <<l[2]>> ELSE <<>>
    BY <2>1, HintsOf
  <2>3. CASE l[1] = "idin" /\ ~l[3]
    <3>1. l[2] \in Seq(InternalIds)
      BY <2>3 DEF Tests
    <3>2. SqlLeaf(l, row, b) = ListTest(<<"number", row.key>>, Keys(l[2]), b)
      BY <2>3 DEF SqlLeaf, Listed
    <3>3. ListTest(<<"number", row.key>>, Keys(l[2]), b) =
            Degree(\E i \in 1..Len(l[2]) : l[2][i][2] # NoLabel /\ l[2][i][3] = row.key)
      BY <3>1, KeysSent
    <3>4. ASSUME SqlLeaf(l, row, b) = 2 PROVE Hinted(l[2], row)
      <4>1. \E i \in 1..Len(l[2]) : l[2][i][2] # NoLabel /\ l[2][i][3] = row.key
        <5> DEFINE E == \E i \in 1..Len(l[2]) : l[2][i][2] # NoLabel /\ l[2][i][3] = row.key
        <5>1. Degree(E) = 2
          BY <3>2, <3>3, <3>4
        <5> HIDE DEF E
        <5>2. E
          BY <5>1 DEF Degree
        <5> QED BY <5>2 DEF E
      <4>2. DOMAIN l[2] = 1..Len(l[2])
        BY <3>1, InList
      <4> QED BY <4>1, <4>2 DEF Hinted
    <3>5. Len(Hints(l)) = 1 /\ Hints(l)[1] = l[2]
      BY <2>2, <2>3
    <3>6. \A i \in 1..Len(Hints(l)) : Hints(l)[i] = l[2]
      BY <3>5
    <3>7. True(l)
      BY <2>1, <3>4, <3>6
    <3> QED BY <2>1, <3>7
  <2>4. CASE ~(l[1] = "idin" /\ ~l[3])
    <3>1. Hints(l) = <<>>
      BY <2>2, <2>4
    <3>2. Len(Hints(l)) = 0
      BY <3>1
    <3> QED BY <2>1, <3>2
  <2> QED BY <2>3, <2>4
<1>3. ASSUME NEW x \in Trees, x[1] \in {"and", "or"}, x[2] \in P, x[3] \in P
      PROVE  x \in P
  <2>1. x[2] \in Trees /\ x[3] \in Trees
    BY <1>3
  <2>2. CASE x[1] = "and"
    <3>1. Hints(x) = Hints(x[2]) \o Hints(x[3])
      BY <1>3, <2>2, HintsOf
    <3>2. Hints(x[2]) \in Seq(Seq(InternalIds)) /\ Hints(x[3]) \in Seq(Seq(InternalIds))
      BY <2>1, HintsOf
    <3>3. Connected(x[2], d) \in 0..2 /\ Connected(x[3], d) \in 0..2
      BY <1>1, <2>1, DegreeOf
    <3>4. Connected(x, d) = Min({Connected(x[2], d), Connected(x[3], d)})
      BY <1>1, <1>3, <2>2, DegreeOf
    <3>5. ASSUME Connected(x, d) = 2
          PROVE  Connected(x[2], d) = 2 /\ Connected(x[3], d) = 2
      <4>1. Connected(x[2], d) \in Int /\ Connected(x[3], d) \in Int
        BY <3>3
      <4>2. Connected(x, d) = IF Connected(x[2], d) <= Connected(x[3], d)
                              THEN Connected(x[2], d) ELSE Connected(x[3], d)
        BY <3>4, <4>1, LesserOf
      <4> QED BY <3>3, <3>5, <4>2
    <3>6. ASSUME Connected(x, d) = 2, NEW i \in 1..Len(Hints(x))
          PROVE  Hinted(Hints(x)[i], row)
      <4> DEFINE m == Len(Hints(x[2]))
                 n == Len(Hints(x[3]))
      <4>1. /\ \A k \in 1..m : Hinted(Hints(x[2])[k], row)
            /\ \A k \in 1..n : Hinted(Hints(x[3])[k], row)
        BY <1>3, <3>5, <3>6
      <4>2. /\ m \in Nat /\ n \in Nat /\ Len(Hints(x)) = m + n
            /\ \A k \in 1..(m + n) : Hints(x)[k] = IF k <= m THEN Hints(x[2])[k] ELSE Hints(x[3])[k - m]
        BY <3>1, <3>2, ConcatProperties, LenProperties
      <4> HIDE DEF m, n
      <4>3. i \in 1..(m + n)
        BY <3>6, <4>2
      <4>4. CASE i <= m
        BY <4>1, <4>2, <4>3, <4>4
      <4>5. CASE ~(i <= m)
        <5>1. i - m \in 1..n
          BY <4>2, <4>3, <4>5
        <5> QED BY <4>1, <4>2, <4>3, <4>5, <5>1
      <4> QED BY <4>4, <4>5
    <3> QED BY <1>3, <3>6
  <2>3. CASE x[1] = "or"
    <3>1. Hints(x) = <<>>
      BY <1>3, <2>3, HintsOf
    <3>2. Len(Hints(x)) = 0
      BY <3>1
    <3> QED BY <1>3, <3>2
  <2> QED BY <1>3, <2>2, <2>3
<1>4. ASSUME NEW x \in Trees, x[1] = "not", x[2] \in P PROVE x \in P
  <2>1. Hints(x) = <<>>
    BY <1>4, HintsOf
  <2>2. Len(Hints(x)) = 0
    BY <2>1
  <2> QED BY <1>4, <2>2
<1> HIDE DEF P
<1>5. Trees \subseteq P
  BY <1>2, <1>3, <1>4, PartsInduction
<1> QED BY <1>5 DEF P

\* The greatest of some places in a list.
LEMMA LastPlace ==
  ASSUME NEW n \in Nat, NEW T, T \subseteq 1..n, T # {}
  PROVE  Max(T) \in T
<1> DEFINE U == {n - i : i \in T}
<1>1. U \subseteq Nat /\ U # {}
  OBVIOUS
<1>2. PICK u \in U : \A k \in U : u <= k
  BY <1>1, Least
<1>3. PICK i \in T : u = n - i
  OBVIOUS
<1>4. \A k \in T : i >= k
  <2> TAKE k \in T
  <2>1. n - k \in U /\ u <= n - k
    BY <1>2
  <2> QED BY <1>3, <2>1
<1>5. \E x \in T : \A y \in T : x >= y
  BY <1>4
<1> QED BY <1>5 DEF Max

(***************************************************************************)
(* What the plan takes from the filter is true of every row that is kept:  *)
(* whichever ids of whichever branch it has fixed the label and the plan   *)
(* by, a row whose key is none of them is never in an answer.              *)
(***************************************************************************)
THEOREM HintsNeverLie == Spec => []HintsAreSound
<1>1. IInv => HintsAreSound
  <2> SUFFICES ASSUME IInv, stage = "answered", Selected(where), NEW r \in kept
               PROVE  \E i \in DOMAIN IdRefs(where) : IdRefs(where)[i][3] = r.key
    BY DEF HintsAreSound
  <2>1. where \in Trees /\ IdRefs(where) # <<>>
    BY Meanings DEF Selected
  <2>2. r \in Rows /\ Keeps(where, r, openjson)
    <3>1. kept = {q \in Rows : ~Misbound /\ (where # <<"all">> => Keeps(where, q, openjson))}
      BY DEF IInv, Answered
    <3> QED BY <3>1 DEF Selected
  <2>3. r.key \in Int
    BY <2>2, StatementsAssumption
  <2> DEFINE d == [l \in Tests |-> SqlLeaf(l, r, openjson)]
             s == Hints(where)
             some == {i \in DOMAIN s : s[i] # <<>>}
  <2>4. Connected(where, d) = 2
    BY <2>2 DEF Keeps
  <2>5. \A i \in 1..Len(s) : Hinted(s[i], r)
    <3> HIDE DEF s
    <3>1. d = [l \in Tests |-> SqlLeaf(l, r, openjson)]
      OBVIOUS
    <3> HIDE DEF d
    <3> QED BY <2>1, <2>3, <2>4, <3>1, HintsTrue DEF s
  <2>6. IdRefs(where) = IF some = {} THEN <<>> ELSE s[Max(some)]
    BY DEF IdRefs
  <2>7. s \in Seq(Seq(InternalIds))
    BY <2>1, HintsOf
  <2> HIDE DEF s
  <2>8. Len(s) \in Nat /\ DOMAIN s = 1..Len(s)
    BY <2>7, InList
  <2>9. some \subseteq 1..Len(s) /\ some # {}
    BY <2>1, <2>6, <2>8
  <2>10. Max(some) \in some
    BY <2>8, <2>9, LastPlace
  <2>11. Hinted(IdRefs(where), r)
    BY <2>5, <2>6, <2>8, <2>9, <2>10
  <2> QED BY <2>11 DEF Hinted
<1> QED BY <1>1, IInvHolds, PTL

-----------------------------------------------------------------------------
(* Recursion over the places of a text, from its end to its start.         *)

PlaceSteps(n, V, v0, step) ==
  /\ n \in Nat /\ v0 \in V
  /\ \A i \in 1..(n + 1) : \A a, b \in V : step[<<i, a, b>>] \in V

Next1(f, i, n, v0) == IF i <= n THEN f[i + 1] ELSE v0
Next2(f, i, n, v0) == IF i < n THEN f[i + 2] ELSE v0

LEMMA PlaceRecursion ==
  ASSUME NEW n, NEW V, NEW v0, NEW step, PlaceSteps(n, V, v0, step)
  PROVE  \E f \in [1..(n + 1) -> V] : \A i \in 1..(n + 1) :
           f[i] = step[<<i, Next1(f, i, n, v0), Next2(f, i, n, v0)>>]
<1> DEFINE D == 1..(n + 1)
           rank == [i \in D |-> n + 1 - i]
           up == [i \in D |-> [f \in [D -> V] |->
                    step[<<i, Next1(f, i, n, v0), Next2(f, i, n, v0)>>]]]
<1>1. n \in Nat /\ v0 \in V /\ \A i \in D : \A a, b \in V : step[<<i, a, b>>] \in V
  BY DEF PlaceSteps
<1>2. \A i \in D : rank[i] = n + 1 - i /\ rank[i] \in 0..(n + 1)
  BY <1>1
<1>3. \A i \in D : \A f \in [D -> V] :
        up[i][f] = step[<<i, Next1(f, i, n, v0), Next2(f, i, n, v0)>>]
  OBVIOUS
<1>4. ASSUME NEW i \in D, NEW f \in [D -> V]
      PROVE  Next1(f, i, n, v0) \in V /\ Next2(f, i, n, v0) \in V
  <2>1. (i <= n => i + 1 \in D) /\ (i < n => i + 2 \in D)
    BY <1>1
  <2> HIDE DEF D
  <2> QED BY <1>1, <2>1 DEF Next1, Next2
<1>5. ASSUME NEW i \in D, NEW g \in [D -> V], NEW h \in [D -> V],
             \A c \in D : rank[c] < rank[i] => g[c] = h[c]
      PROVE  up[i][g] = up[i][h]
  <2>1. /\ i <= n => i + 1 \in D /\ rank[i + 1] < rank[i]
        /\ i < n => i + 2 \in D /\ rank[i + 2] < rank[i]
    BY <1>1, <1>2
  <2> HIDE DEF D, rank, up
  <2>2. Next1(g, i, n, v0) = Next1(h, i, n, v0) /\ Next2(g, i, n, v0) = Next2(h, i, n, v0)
    BY <1>5, <2>1 DEF Next1, Next2
  <2> QED BY <1>3, <2>2
<1> HIDE DEF D, rank, up
<1>6. \A i \in D : \A f \in [D -> V] : up[i][f] \in V
  BY <1>1, <1>3, <1>4
<1>7. Ranked(D, V, n + 1, rank, up)
  <2>1. n + 1 \in Nat /\ V # {}
    BY <1>1
  <2> QED BY <1>2, <1>5, <1>6, <2>1, Zenon DEF Ranked
<1>8. PICK f \in [D -> V] : \A i \in D : f[i] = up[i][f]
  BY <1>7, Recursion
<1>9. \A i \in D : f[i] = step[<<i, Next1(f, i, n, v0), Next2(f, i, n, v0)>>]
  BY <1>3, <1>8
<1> QED BY <1>9 DEF D

-----------------------------------------------------------------------------
(* Escapes: what a text means, and what the backend takes it for.          *)

Escape(s, chars, i) == s[i] = "\\" /\ i < Len(s) /\ s[i + 1] \in chars

Unescapes(rest, s, chars) ==
  /\ rest \in [1..(Len(s) + 1) -> Seq(STRING)]
  /\ rest[Len(s) + 1] = <<>>
  /\ \A i \in 1..Len(s) : Escape(s, chars, i) => rest[i] = <<s[i + 1]>> \o rest[i + 2]
  /\ \A i \in 1..Len(s) : ~Escape(s, chars, i) => rest[i] = <<s[i]>> \o rest[i + 1]

LEMMA UnescapedOf ==
  ASSUME NEW s \in Seq(STRING), NEW chars
  PROVE  \E rest : Unescapes(rest, s, chars) /\ Unescaped(s, chars) = rest[1]
<1> DEFINE n == Len(s)
           V == Seq(STRING)
           At(i, a, b) == IF i > n THEN <<>>
                          ELSE IF s[i] = "\\" /\ i < n /\ s[i + 1] \in chars
                          THEN <<s[i + 1]>> \o b
                          ELSE <<s[i]>> \o a
           step == [x \in (1..(n + 1)) \X V \X V |-> At(x[1], x[2], x[3])]
           Fits(rest) == rest = [i \in 1..(n + 1) |->
                           IF i > n THEN <<>>
                           ELSE IF s[i] = "\\" /\ i < n /\ s[i + 1] \in chars
                           THEN <<s[i + 1]>> \o rest[i + 2]
                           ELSE <<s[i]>> \o rest[i + 1]]
<1>1. n \in Nat /\ <<>> \in V /\ \A i \in 1..n : s[i] \in STRING
  BY InList, EmptyList
<1>2. ASSUME NEW i \in 1..(n + 1), NEW a \in V, NEW b \in V
      PROVE  step[<<i, a, b>>] = At(i, a, b) /\ At(i, a, b) \in V
  <2>1. step[<<i, a, b>>] = At(i, a, b)
    OBVIOUS
  <2>2. CASE i > n
    BY <1>1, <2>1, <2>2
  <2>3. CASE ~(i > n)
    <3>1. i \in 1..n /\ (i < n => i + 1 \in 1..n)
      BY <1>1, <2>3
    <3>2. <<s[i]>> \in V /\ (i < n => <<s[i + 1]>> \in V)
      BY <1>1, <3>1
    <3>3. <<s[i]>> \o a \in V /\ (i < n => <<s[i + 1]>> \o b \in V)
      BY <3>2, InBoth
    <3> QED BY <2>1, <2>3, <3>3
  <2> QED BY <2>2, <2>3
<1> HIDE DEF step, At
<1>3. PlaceSteps(n, V, <<>>, step)
  BY <1>1, <1>2 DEF PlaceSteps
<1>4. PICK f \in [1..(n + 1) -> V] : \A i \in 1..(n + 1) :
        f[i] = step[<<i, Next1(f, i, n, <<>>), Next2(f, i, n, <<>>)>>]
  BY <1>3, PlaceRecursion
<1>5. ASSUME NEW i \in 1..(n + 1)
      PROVE  f[i] = IF i > n THEN <<>>
                    ELSE IF s[i] = "\\" /\ i < n /\ s[i + 1] \in chars
                    THEN <<s[i + 1]>> \o f[i + 2]
                    ELSE <<s[i]>> \o f[i + 1]
  <2>1. (i <= n => i + 1 \in 1..(n + 1)) /\ (i < n => i + 2 \in 1..(n + 1))
    BY <1>1
  <2>2. Next1(f, i, n, <<>>) \in V /\ Next2(f, i, n, <<>>) \in V
    BY <1>1, <2>1 DEF Next1, Next2
  <2>3. f[i] = At(i, Next1(f, i, n, <<>>), Next2(f, i, n, <<>>))
    BY <1>2, <1>4, <2>2
  <2> QED BY <1>1, <2>3 DEF At, Next1, Next2
<1>6. Fits(f)
  BY <1>5
<1>7. PICK rest : Fits(rest) /\ Unescaped(s, chars) = rest[1]
  <2> DEFINE g == CHOOSE g : Fits(g)
  <2>1. Unescaped(s, chars) = g[1]
    BY DEF Unescaped
  <2> HIDE DEF Fits
  <2>2. Fits(g)
    BY <1>6
  <2> HIDE DEF g
  <2> QED BY <2>1, <2>2
<1>8. \A i \in 1..(n + 1) : rest[i] = IF i > n THEN <<>>
                    ELSE IF s[i] = "\\" /\ i < n /\ s[i + 1] \in chars
                    THEN <<s[i + 1]>> \o rest[i + 2]
                    ELSE <<s[i]>> \o rest[i + 1]
  BY <1>7
<1>12. rest = [i \in 1..(n + 1) |-> rest[i]]
  BY <1>7
<1> HIDE DEF n, Fits
<1>n. n + 1 \in 1..(n + 1) /\ n + 1 > n /\ \A i \in 1..n : i \in 1..(n + 1) /\ ~(i > n)
  BY <1>1
<1>9. rest[n + 1] = <<>>
  BY <1>8, <1>n
<1>10. ASSUME NEW i \in 1..n, s[i] = "\\" /\ i < n /\ s[i + 1] \in chars
       PROVE  rest[i] = <<s[i + 1]>> \o rest[i + 2]
  BY <1>8, <1>10, <1>n
<1>11. ASSUME NEW i \in 1..n, ~(s[i] = "\\" /\ i < n /\ s[i + 1] \in chars)
       PROVE  rest[i] = <<s[i]>> \o rest[i + 1]
  BY <1>8, <1>11, <1>n
<1> DEFINE Fine(j) == rest[n + 1 - j] \in V /\ (j > 0 => rest[n + 2 - j] \in V)
           Good == {j \in 0..n : Fine(j)}
<1>13. 0 \in Good
  <2>1. n + 1 - 0 = n + 1 /\ 0 \in 0..n
    BY <1>1
  <2>2. rest[n + 1 - 0] \in V /\ ~(0 > 0)
    <3>1. rest[n + 1 - 0] = <<>>
      BY <1>9, <2>1
    <3> QED BY <1>1, <3>1
  <2> QED BY <2>1, <2>2
<1>14. ASSUME NEW j \in 0..(n - 1), j \in Good PROVE j + 1 \in Good
  <2> DEFINE i == n - j
  <2>1. /\ i \in 1..n /\ i = n + 1 - (j + 1) /\ i + 1 = n + 1 - j /\ i + 1 = n + 2 - (j + 1)
        /\ j + 1 \in 0..n /\ i + 2 = n + 2 - j /\ (i < n => j > 0) /\ (i < n => i + 1 \in 1..n)
    BY <1>1
  <2> HIDE DEF i
  <2>2. rest[i + 1] \in V /\ (i < n => rest[i + 2] \in V)
    BY <1>14, <2>1
  <2>3. <<s[i]>> \in V /\ (i < n => <<s[i + 1]>> \in V)
    BY <1>1, <2>1
  <2>4. <<s[i]>> \o rest[i + 1] \in V /\ (i < n => <<s[i + 1]>> \o rest[i + 2] \in V)
    BY <2>2, <2>3, InBoth
  <2>5. rest[i] \in V
    BY <1>10, <1>11, <2>1, <2>4 DEF Escape
  <2> QED BY <2>1, <2>2, <2>5
<1> HIDE DEF Good
<1>15. \A j \in 0..n : j \in Good
  BY <1>1, <1>13, <1>14, Climb
<1>16. \A i \in 1..(n + 1) : rest[i] \in V
  <2> TAKE i \in 1..(n + 1)
  <2>1. n + 1 - i \in 0..n /\ n + 1 - (n + 1 - i) = i
    BY <1>1
  <2> DEFINE j == n + 1 - i
  <2>2. j \in Good /\ n + 1 - j = i
    BY <1>15, <2>1
  <2> HIDE DEF j
  <2> QED BY <2>2 DEF Good
<1>17. rest \in [1..(n + 1) -> V]
  BY <1>12, <1>16
<1> QED BY <1>7, <1>9, <1>10, <1>11, <1>17 DEF Unescapes, Escape, n

\* Induction from the end of a list.
LEMMA Descend ==
  ASSUME NEW n \in Nat, NEW Good, n + 1 \in Good,
         \A i \in 1..n : (\A k \in (i + 1)..(n + 1) : k \in Good) => i \in Good
  PROVE  \A i \in 1..(n + 1) : i \in Good
<1> DEFINE Up == {j \in 0..n : \A k \in (n + 1 - j)..(n + 1) : k \in Good}
<1>1. 0 \in Up
  BY n + 1 - 0 = n + 1
<1>2. ASSUME NEW j \in 0..(n - 1), j \in Up PROVE j + 1 \in Up
  <2>1. PICK i \in 1..n : i = n - j
    OBVIOUS
  <2>2. n + 1 - j = i + 1 /\ n + 1 - (j + 1) = i /\ j + 1 \in 0..n
    BY <2>1
  <2>3. \A k \in (i + 1)..(n + 1) : k \in Good
    BY <1>2, <2>2
  <2>4. i \in Good
    BY <2>3
  <2>5. \A k \in i..(n + 1) : k \in Good
    <3> TAKE k \in i..(n + 1)
    <3>1. k = i \/ k \in (i + 1)..(n + 1)
      OBVIOUS
    <3> QED BY <2>3, <2>4, <3>1
  <2> QED BY <2>2, <2>5
<1> HIDE DEF Up
<1>3. \A j \in 0..n : j \in Up
  BY <1>1, <1>2, Climb
<1>4. n \in Up /\ n + 1 - n = 1
  BY <1>3
<1> QED BY <1>4 DEF Up

LEMMA JoinFront ==
  ASSUME NEW S, NEW c \in S, NEW t \in Seq(S)
  PROVE  /\ <<c>> \o t \in Seq(S) /\ ToSet(<<c>> \o t) = {c} \cup ToSet(t)
         /\ Len(<<c>> \o t) = Len(t) + 1 /\ (<<c>> \o t)[1] = c
         /\ \A i \in 1..Len(t) : (<<c>> \o t)[i + 1] = t[i]
<1>1. <<c>> \in Seq(S) /\ Len(<<c>>) = 1 /\ <<c>>[1] = c
  OBVIOUS
<1>2. ToSet(<<c>>) = {c}
  <2>1. \A x : x \in ToSet(<<c>>) <=> \E i \in 1..Len(<<c>>) : <<c>>[i] = x
    BY <1>1, InList
  <2> QED BY <1>1, <2>1
<1>3. Len(t) \in Nat
  OBVIOUS
<1>4. /\ Len(<<c>> \o t) = 1 + Len(t)
      /\ \A i \in 1..(1 + Len(t)) : (<<c>> \o t)[i] = IF i <= 1 THEN <<c>>[i] ELSE t[i - 1]
  BY <1>1, InBoth
<1>5. \A i \in 1..Len(t) : (<<c>> \o t)[i + 1] = t[i]
  <2> TAKE i \in 1..Len(t)
  <2>1. i + 1 \in 1..(1 + Len(t)) /\ ~(i + 1 <= 1) /\ i + 1 - 1 = i
    BY <1>3
  <2> QED BY <1>4, <2>1
<1>6. /\ <<c>> \o t \in Seq(S) /\ ToSet(<<c>> \o t) = ToSet(<<c>>) \cup ToSet(t)
  BY <1>1, InBoth
<1>7. 1 \in 1..(1 + Len(t))
  BY <1>3
<1>8. (<<c>> \o t)[1] = c
  BY <1>1, <1>4, <1>7
<1> QED BY <1>2, <1>3, <1>4, <1>5, <1>6, <1>8

\* In a text that means no backslash, only quotes have been escaped.
LEMMA SameUnescaped ==
  ASSUME NEW s \in Seq(STRING), "\\" \notin ToSet(Unescaped(s, {"'", "\\"}))
  PROVE  Unescaped(s, {"'"}) = Unescaped(s, {"'", "\\"})
<1> DEFINE n == Len(s)
           one == {"'"}
           two == {"'", "\\"}
<1>1. PICK f : Unescapes(f, s, one) /\ Unescaped(s, one) = f[1]
  BY UnescapedOf
<1>2. PICK g : Unescapes(g, s, two) /\ Unescaped(s, two) = g[1]
  BY UnescapedOf
<1>3. n \in Nat /\ \A i \in 1..n : s[i] \in STRING
  BY InList
<1> DEFINE Good == {i \in 1..(n + 1) : "\\" \notin ToSet(g[i]) => f[i] = g[i]}
<1>4. n + 1 \in Good
  BY <1>1, <1>2, <1>3 DEF Unescapes
<1>5. ASSUME NEW i \in 1..n, \A k \in (i + 1)..(n + 1) : k \in Good
      PROVE  i \in Good
  <2> SUFFICES ASSUME "\\" \notin ToSet(g[i]) PROVE f[i] = g[i]
    BY <1>3
  <2>1. CASE Escape(s, two, i)
    <3>1. i < n /\ i + 2 \in (i + 1)..(n + 1) /\ i + 1 \in 1..n /\ i + 2 \in 1..(n + 1)
      BY <1>3, <2>1 DEF Escape
    <3>2. g[i] = <<s[i + 1]>> \o g[i + 2] /\ g[i + 2] \in Seq(STRING)
      BY <1>2, <2>1, <3>1 DEF Unescapes
    <3>3. ToSet(g[i]) = {s[i + 1]} \cup ToSet(g[i + 2])
      BY <1>3, <3>1, <3>2, JoinFront
    <3>4. s[i + 1] = "'" /\ "\\" \notin ToSet(g[i + 2])
      BY <2>1, <3>3 DEF Escape
    <3>5. f[i + 2] = g[i + 2]
      BY <1>5, <3>1, <3>4
    <3>6. Escape(s, one, i)
      BY <2>1, <3>4 DEF Escape
    <3>7. f[i] = <<s[i + 1]>> \o f[i + 2]
      BY <1>1, <3>6 DEF Unescapes
    <3> QED BY <3>2, <3>5, <3>7
  <2>2. CASE ~Escape(s, two, i)
    <3>1. i + 1 \in (i + 1)..(n + 1) /\ i + 1 \in 1..(n + 1)
      BY <1>3
    <3>2. g[i] = <<s[i]>> \o g[i + 1] /\ g[i + 1] \in Seq(STRING)
      BY <1>2, <2>2, <3>1 DEF Unescapes
    <3>3. ToSet(g[i]) = {s[i]} \cup ToSet(g[i + 1])
      BY <1>3, <3>2, JoinFront
    <3>4. f[i + 1] = g[i + 1]
      BY <1>5, <3>1, <3>3
    <3>5. ~Escape(s, one, i)
      BY <3>3 DEF Escape
    <3>6. f[i] = <<s[i]>> \o f[i + 1]
      BY <1>1, <3>5 DEF Unescapes
    <3> QED BY <3>2, <3>4, <3>6
  <2> QED BY <2>1, <2>2
<1> HIDE DEF Good
<1>6. \A i \in 1..(n + 1) : i \in Good
  BY <1>3, <1>4, <1>5, Descend
<1>7. 1 \in 1..(n + 1)
  BY <1>3
<1>8. 1 \in Good
  BY <1>6, <1>7
<1> QED BY <1>1, <1>2, <1>8 DEF Good

LEMMA LiteralMeans ==
  ASSUME NEW x \in Operands, ~Backslashed(x)
  PROVE  Literal(x) = Meaning(x)
<1>1. x[1] = "text" => x[2] \in Seq(STRING)
  BY DEF Operands, InternalIds
<1>2. x[1] = "text" => "\\" \notin ToSet(Unescaped(x[2], {"'", "\\"}))
  BY DEF Backslashed, Meaning
<1> QED BY <1>1, <1>2, SameUnescaped DEF Literal, Meaning

-----------------------------------------------------------------------------
(* Patterns: LIKE with the pattern of a text is the search for that text.  *)

\* STRING, as far as the provers see.
Characters == STRING \cup {"\\", "%"}

Takes(c, d) == c \in {"_", d}

\* What LIKE makes of a pattern, place by place.
Likes(ends, s, p) ==
  /\ \A j \in 1..(Len(p) + 1) : ends[j] \in SUBSET (1..(Len(s) + 1))
  /\ ends[Len(p) + 1] = {Len(s) + 1}
  /\ \A j \in 1..Len(p) :
       /\ p[j] = "%" => ends[j] = {i \in 1..(Len(s) + 1) : \E k \in ends[j + 1] : i <= k}
       /\ p[j] = "\\" => ends[j] = {i \in 1..Len(s) :
                                     j < Len(p) /\ p[j + 1] = s[i] /\ i + 1 \in ends[j + 2]}
       /\ p[j] \notin {"%", "\\"} =>
            ends[j] = {i \in 1..Len(s) : Takes(p[j], s[i]) /\ i + 1 \in ends[j + 1]}

LEMMA LikeOf ==
  ASSUME NEW s \in Seq(STRING), NEW p \in Seq(Characters)
  PROVE  \E ends : Likes(ends, s, p) /\ Like(s, p) = (1 \in ends[1])
<1> DEFINE n == Len(s)
           m == Len(p)
           V == SUBSET (1..(n + 1))
           At(j, a, b) == CASE j > m -> {n + 1}
                            [] j <= m /\ p[j] = "%" -> {i \in 1..(n + 1) : \E k \in a : i <= k}
                            [] j <= m /\ p[j] = "\\" ->
                                 {i \in 1..n : j < m /\ p[j + 1] = s[i] /\ i + 1 \in b}
                            [] OTHER -> {i \in 1..n : Takes(p[j], s[i]) /\ i + 1 \in a}
           step == [x \in (1..(m + 1)) \X V \X V |-> At(x[1], x[2], x[3])]
           Fits(ends) == ends = [j \in 1..(m + 1) |->
               CASE j > m -> {n + 1}
                 [] j <= m /\ p[j] = "%" -> {i \in 1..(n + 1) : \E k \in ends[j + 1] : i <= k}
                 [] j <= m /\ p[j] = "\\" ->
                      {i \in 1..n : j < m /\ p[j + 1] = s[i] /\ i + 1 \in ends[j + 2]}
                 [] OTHER -> {i \in 1..n : Takes(p[j], s[i]) /\ i + 1 \in ends[j + 1]}]
<1>1. n \in Nat /\ m \in Nat /\ {} \in V /\ {n + 1} \in V
  OBVIOUS
<1>a. ASSUME NEW j, NEW a, NEW b PROVE At(j, a, b) \in V
  <2>2. CASE j > m
    BY <1>1, <2>2
  <2>3. CASE ~(j > m) /\ j <= m /\ p[j] = "%"
    BY <1>1, <2>3
  <2>4. CASE ~(j > m) /\ ~(j <= m /\ p[j] = "%") /\ j <= m /\ p[j] = "\\"
    BY <1>1, <2>4
  <2>5. CASE ~(j > m) /\ ~(j <= m /\ p[j] = "%") /\ ~(j <= m /\ p[j] = "\\")
    BY <1>1, <2>5
  <2> QED BY <2>2, <2>3, <2>4, <2>5
<1>2. ASSUME NEW j \in 1..(m + 1), NEW a \in V, NEW b \in V
      PROVE  step[<<j, a, b>>] = At(j, a, b) /\ At(j, a, b) \in V
  <2> HIDE DEF At
  <2> QED BY <1>a
<1> HIDE DEF step, At
<1>3. PlaceSteps(m, V, {}, step)
  <2> HIDE DEF V, m
  <2> QED BY <1>1, <1>2 DEF PlaceSteps
<1>4. PICK f \in [1..(m + 1) -> V] : \A j \in 1..(m + 1) :
        f[j] = step[<<j, Next1(f, j, m, {}), Next2(f, j, m, {})>>]
  BY <1>3, PlaceRecursion
<1>5. ASSUME NEW j \in 1..(m + 1)
      PROVE  f[j] = CASE j > m -> {n + 1}
                 [] j <= m /\ p[j] = "%" -> {i \in 1..(n + 1) : \E k \in f[j + 1] : i <= k}
                 [] j <= m /\ p[j] = "\\" ->
                      {i \in 1..n : j < m /\ p[j + 1] = s[i] /\ i + 1 \in f[j + 2]}
                 [] OTHER -> {i \in 1..n : Takes(p[j], s[i]) /\ i + 1 \in f[j + 1]}
  <2>1. (j <= m => j + 1 \in 1..(m + 1)) /\ (j < m => j + 2 \in 1..(m + 1))
    BY <1>1
  <2>2. Next1(f, j, m, {}) \in V /\ Next2(f, j, m, {}) \in V
    BY <1>1, <2>1 DEF Next1, Next2
  <2>3. f[j] = At(j, Next1(f, j, m, {}), Next2(f, j, m, {}))
    BY <1>2, <1>4, <2>2
  <2>4. /\ j <= m => Next1(f, j, m, {}) = f[j + 1]
        /\ j < m => Next2(f, j, m, {}) = f[j + 2]
        /\ j > m <=> ~(j <= m)
    BY <1>1 DEF Next1, Next2
  <2>5. \A b, c : j < m /\ b = c =>
          {i \in 1..n : j < m /\ p[j + 1] = s[i] /\ i + 1 \in b}
            = {i \in 1..n : j < m /\ p[j + 1] = s[i] /\ i + 1 \in c}
    OBVIOUS
  <2>6. \A b, c : ~(j < m) =>
          {i \in 1..n : j < m /\ p[j + 1] = s[i] /\ i + 1 \in b}
            = {i \in 1..n : j < m /\ p[j + 1] = s[i] /\ i + 1 \in c}
    OBVIOUS
  <2> HIDE DEF n, m
  <2> QED BY <2>3, <2>4, <2>5, <2>6 DEF At
<1>6. Fits(f)
  BY <1>5
<1>7. PICK ends : Fits(ends) /\ Like(s, p) = (1 \in ends[1])
  <2> DEFINE g == CHOOSE g : Fits(g)
  <2>1. Like(s, p) = (1 \in g[1])
    BY DEF Like, Takes
  <2> HIDE DEF Fits
  <2>2. Fits(g)
    BY <1>6
  <2> HIDE DEF g
  <2> QED BY <2>1, <2>2
<1>8. \A j \in 1..(m + 1) : ends[j] =
               CASE j > m -> {n + 1}
                 [] j <= m /\ p[j] = "%" -> {i \in 1..(n + 1) : \E k \in ends[j + 1] : i <= k}
                 [] j <= m /\ p[j] = "\\" ->
                      {i \in 1..n : j < m /\ p[j + 1] = s[i] /\ i + 1 \in ends[j + 2]}
                 [] OTHER -> {i \in 1..n : Takes(p[j], s[i]) /\ i + 1 \in ends[j + 1]}
  BY <1>7
<1>9. ASSUME NEW j \in 1..(m + 1) PROVE ends[j] \in V
  <2>1. ends[j] = At(j, ends[j + 1], ends[j + 2])
    BY <1>8 DEF At
  <2> QED BY <1>a, <2>1
<1> HIDE DEF n, m, Fits
<1>n. m + 1 \in 1..(m + 1) /\ m + 1 > m /\ \A j \in 1..m : j \in 1..(m + 1) /\ ~(j > m) /\ j <= m
  BY <1>1
<1>10. ends[m + 1] = {n + 1}
  <2>1. ends[m + 1] = At(m + 1, ends[m + 1 + 1], ends[m + 1 + 2])
    BY <1>8, <1>n DEF At
  <2> QED BY <1>n, <2>1 DEF At
<1>11. ASSUME NEW j \in 1..m
       PROVE  /\ p[j] = "%" => ends[j] = {i \in 1..(n + 1) : \E k \in ends[j + 1] : i <= k}
              /\ p[j] = "\\" => ends[j] = {i \in 1..n :
                                     j < m /\ p[j + 1] = s[i] /\ i + 1 \in ends[j + 2]}
              /\ p[j] \notin {"%", "\\"} =>
                   ends[j] = {i \in 1..n : Takes(p[j], s[i]) /\ i + 1 \in ends[j + 1]}
  <2>1. ends[j] = At(j, ends[j + 1], ends[j + 2])
    BY <1>8, <1>n DEF At
  <2>2. j <= m /\ ~(j > m)
    BY <1>n
  <2> QED BY <2>1, <2>2 DEF At
<1> QED BY <1>7, <1>9, <1>10, <1>11 DEF Likes, n, m

Signs == {"%", "_", "[", "]"}
Wild == Signs \cup {"\\"}

\* p spells v: what a pattern would take for something else is escaped.
Spells(off, p, v) ==
  /\ off \in [0..Len(v) -> Nat] /\ off[Len(v)] <= Len(p)
  /\ \A m \in 1..Len(v) :
       /\ off[m] <= Len(p) /\ p[off[m]] = v[m]
       /\ v[m] \in Wild => off[m] = off[m - 1] + 2 /\ p[off[m - 1] + 1] = "\\"
       /\ v[m] \notin Wild => off[m] = off[m - 1] + 1

EscapedOne(c) == IF c \in Signs THEN <<"\\", c>> ELSE <<c>>
Middle(d) == FlattenSeq([i \in DOMAIN d |-> EscapedOne(d[i])])

LEMMA ShortLists ==
  ASSUME NEW S, NEW a \in S, NEW b \in S
  PROVE  /\ <<a>> \in Seq(S) /\ Len(<<a>>) = 1 /\ <<a>>[1] = a
         /\ <<a, b>> \in Seq(S) /\ Len(<<a, b>>) = 2 /\ <<a, b>>[1] = a /\ <<a, b>>[2] = b
<1>1. <<a>> \in Seq(S)
  OBVIOUS
<1>2. <<a, b>> \in Seq(S)
  OBVIOUS
<1>3. Len(<<a>>) = 1 /\ <<a>>[1] = a
  OBVIOUS
<1>4. Len(<<a, b>>) = 2 /\ <<a, b>>[1] = a /\ <<a, b>>[2] = b
  OBVIOUS
<1> QED BY <1>1, <1>2, <1>3, <1>4

\* Each backslash of a doubled text is half of an escaped one.
LEMMA MiddleShape ==
  ASSUME NEW v \in Seq(STRING)
  PROVE  /\ Doubled(v) \in Seq(Characters) /\ Middle(Doubled(v)) \in Seq(Characters)
         /\ \E off : /\ Spells(off, Middle(Doubled(v)), v)
                     /\ off[0] = 0 /\ off[Len(v)] = Len(Middle(Doubled(v)))
<1> DEFINE n == Len(v)
           Twice(c) == IF c = "\\" THEN <<"\\", "\\">> ELSE <<c>>
           dd == [i \in DOMAIN v |-> Twice(v[i])]
           d == FlattenSeq(dd)
           ee == [i \in DOMAIN d |-> EscapedOne(d[i])]
           p == FlattenSeq(ee)
<1>1. n \in Nat /\ DOMAIN v = 1..n /\ \A i \in 1..n : v[i] \in Characters
  BY InList DEF Characters
<1>2. \A c \in Characters : Twice(c) \in Seq(Characters) /\ EscapedOne(c) \in Seq(Characters)
  <2> TAKE c \in Characters
  <2>1. <<c>> \in Seq(Characters) /\ <<"\\", c>> \in Seq(Characters) /\ <<"\\", "\\">> \in Seq(Characters)
    <3>1. "\\" \in Characters
      BY DEF Characters
    <3>2. <<c>> \in Seq(Characters) /\ <<"\\", c>> \in Seq(Characters)
      BY <3>1, ShortLists
    <3>3. <<"\\", "\\">> \in Seq(Characters)
      BY <3>1, ShortLists
    <3> QED BY <3>2, <3>3
  <2> QED BY <2>1 DEF EscapedOne
<1>3. d = Doubled(v) /\ p = Middle(d)
  BY DEF Doubled, Middle
<1>4. /\ dd \in Seq(Seq(Characters)) /\ Len(dd) = n
      /\ \A i \in 1..n : dd[i] = Twice(v[i])
  <2> HIDE DEF Twice, n
  <2>1. dd \in [1..n -> Seq(Characters)]
    BY <1>1, <1>2
  <2> QED BY <1>1, <2>1
<1> HIDE DEF dd
<1>5. d \in Seq(Characters)
  BY <1>4, FlattenHolds
<1>6. PICK o1 : Offsets(o1, dd, d)
  BY <1>4, FlattenPlaces
<1> HIDE DEF d
<1> DEFINE h == Len(d)
<1>7. h \in Nat /\ DOMAIN d = 1..h /\ \A i \in 1..h : d[i] \in Characters
  BY <1>5, InList
<1>8. /\ ee \in Seq(Seq(Characters)) /\ Len(ee) = h
      /\ \A i \in 1..h : ee[i] = EscapedOne(d[i])
  <2> HIDE DEF h
  <2>1. ee \in [1..h -> Seq(Characters)]
    BY <1>2, <1>7
  <2> QED BY <1>7, <2>1
<1> HIDE DEF ee
<1>9. p \in Seq(Characters)
  BY <1>8, FlattenHolds
<1>10. PICK o2 : Offsets(o2, ee, p)
  BY <1>8, FlattenPlaces
<1> HIDE DEF p, h
<1>11. /\ o1[0] = 0 /\ o1[n] = h
       /\ \A m \in 0..n : o1[m] \in Nat
       /\ \A m \in 1..n : /\ o1[m] = o1[m - 1] + Len(Twice(v[m])) /\ o1[m] <= h
                          /\ \A i \in 1..Len(Twice(v[m])) : d[o1[m - 1] + i] = Twice(v[m])[i]
  <2> HIDE DEF Twice
  <2>1. /\ o1 \in [0..n -> Nat] /\ o1[0] = 0 /\ o1[n] = Len(d)
        /\ \A k \in 1..n : /\ o1[k] = o1[k - 1] + Len(dd[k]) /\ o1[k] <= Len(d)
                           /\ \A i \in 1..Len(dd[k]) : d[o1[k - 1] + i] = dd[k][i]
    BY <1>4, <1>6, Zenon DEF Offsets
  <2> HIDE DEF n
  <2>2. \A m \in 0..n : o1[m] \in Nat
    BY <2>1
  <2>3. ASSUME NEW m \in 1..n
        PROVE  /\ o1[m] = o1[m - 1] + Len(Twice(v[m])) /\ o1[m] <= Len(d)
               /\ \A i \in 1..Len(Twice(v[m])) : d[o1[m - 1] + i] = Twice(v[m])[i]
    <3>1. dd[m] = Twice(v[m])
      BY <1>4
    <3> QED BY <2>1, <3>1
  <2> QED BY <2>1, <2>2, <2>3 DEF h
<1>12. /\ o2[0] = 0 /\ o2[h] = Len(p)
       /\ \A m \in 0..h : o2[m] \in Nat
       /\ \A m \in 1..h : /\ o2[m] = o2[m - 1] + Len(EscapedOne(d[m])) /\ o2[m] <= Len(p)
                          /\ \A i \in 1..Len(EscapedOne(d[m])) :
                               p[o2[m - 1] + i] = EscapedOne(d[m])[i]
  <2>1. /\ o2 \in [0..h -> Nat] /\ o2[0] = 0 /\ o2[h] = Len(p)
        /\ \A k \in 1..h : /\ o2[k] = o2[k - 1] + Len(ee[k]) /\ o2[k] <= Len(p)
                           /\ \A i \in 1..Len(ee[k]) : p[o2[k - 1] + i] = ee[k][i]
    BY <1>8, <1>10, Zenon DEF Offsets
  <2>2. \A m \in 0..h : o2[m] \in Nat
    BY <2>1
  <2>3. ASSUME NEW m \in 1..h
        PROVE  /\ o2[m] = o2[m - 1] + Len(EscapedOne(d[m])) /\ o2[m] <= Len(p)
               /\ \A i \in 1..Len(EscapedOne(d[m])) : p[o2[m - 1] + i] = EscapedOne(d[m])[i]
    <3>1. ee[m] = EscapedOne(d[m])
      BY <1>8
    <3> QED BY <2>1, <3>1
  <2> QED BY <2>1, <2>2, <2>3
<1> DEFINE off == [m \in 0..n |-> o2[o1[m]]]
<1>13. ASSUME NEW m \in 0..n PROVE o1[m] \in 0..h /\ off[m] = o2[o1[m]] /\ off[m] \in Nat
  <2>1. o1[m] \in 0..h
    <3>1. CASE m = 0
      BY <1>7, <1>11, <3>1
    <3>2. CASE m # 0
      <4>1. m \in 1..n
        BY <1>1, <3>2
      <4>2. o1[m] \in Nat /\ o1[m] <= h
        BY <1>11, <4>1
      <4> QED BY <1>7, <4>2
    <3> QED BY <3>1, <3>2
  <2> QED BY <1>12, <2>1
<1>14. off \in [0..n -> Nat] /\ 0 \in 0..n /\ n \in 0..n
  BY <1>1, <1>13
<1> HIDE DEF off, n, Twice
<1>15. ASSUME NEW m \in 1..n
       PROVE  /\ off[m] <= Len(p) /\ p[off[m]] = v[m]
              /\ v[m] \in Wild => off[m] = off[m - 1] + 2 /\ p[off[m - 1] + 1] = "\\"
              /\ v[m] \notin Wild => off[m] = off[m - 1] + 1
  <2>1. m \in 0..n /\ m - 1 \in 0..n
    BY <1>1
  <2>2. PICK a \in 0..h : a = o1[m - 1]
    BY <1>13, <2>1
  <2>3. off[m - 1] = o2[a] /\ off[m] = o2[o1[m]] /\ o2[a] \in Nat
    BY <1>12, <1>13, <2>1, <2>2
  <2>4. /\ o1[m] = a + Len(Twice(v[m])) /\ o1[m] <= h
        /\ \A i \in 1..Len(Twice(v[m])) : d[a + i] = Twice(v[m])[i]
    BY <1>11, <2>2
  <2>5. CASE v[m] = "\\"
    <3>1. Len(Twice(v[m])) = 2 /\ Twice(v[m])[1] = "\\" /\ Twice(v[m])[2] = "\\"
      BY <2>5 DEF Twice
    <3>2. o1[m] = a + 2 /\ d[a + 1] = "\\" /\ d[a + 2] = "\\"
      BY <2>4, <3>1
    <3>3. a + 1 \in 1..h /\ a + 2 \in 1..h /\ a + 1 - 1 = a /\ a + 2 - 1 = a + 1
      BY <1>7, <2>4, <3>2
    <3>4. EscapedOne("\\") = <<"\\">> /\ Len(<<"\\">>) = 1 /\ <<"\\">>[1] = "\\"
      <4>1. "\\" \notin Signs
        BY Zenon DEF Signs
      <4> QED BY <4>1 DEF EscapedOne
    <3>5. /\ o2[a + 1] = o2[a] + 1 /\ p[o2[a] + 1] = "\\"
          /\ o2[a + 2] = o2[a + 1] + 1 /\ p[o2[a + 1] + 1] = "\\" /\ o2[a + 2] <= Len(p)
      <4>1. \A k \in 1..h : d[k] = "\\" =>
              o2[k] = o2[k - 1] + 1 /\ p[o2[k - 1] + 1] = "\\" /\ o2[k] <= Len(p)
        <5> TAKE k \in 1..h
        <5>1. /\ o2[k] = o2[k - 1] + Len(EscapedOne(d[k])) /\ o2[k] <= Len(p)
              /\ \A i \in 1..Len(EscapedOne(d[k])) : p[o2[k - 1] + i] = EscapedOne(d[k])[i]
          BY <1>12
        <5>2. d[k] = "\\" => Len(EscapedOne(d[k])) = 1 /\ EscapedOne(d[k])[1] = "\\"
          BY <3>4
        <5> QED BY <5>1, <5>2
      <4> QED BY <3>2, <3>3, <4>1
    <3> QED BY <2>3, <2>5, <3>2, <3>5 DEF Wild
  <2>6. CASE v[m] # "\\"
    <3>1. Len(Twice(v[m])) = 1 /\ Twice(v[m])[1] = v[m]
      BY <2>6 DEF Twice
    <3>2. o1[m] = a + 1 /\ d[a + 1] = v[m]
      BY <2>4, <3>1
    <3>3. a + 1 \in 1..h /\ a + 1 - 1 = a
      BY <1>7, <2>4, <3>2
    <3>4. /\ o2[a + 1] = o2[a] + Len(EscapedOne(v[m])) /\ o2[a + 1] <= Len(p)
          /\ \A i \in 1..Len(EscapedOne(v[m])) : p[o2[a] + i] = EscapedOne(v[m])[i]
      BY <1>12, <3>2, <3>3
    <3>5. CASE v[m] \in Signs
      <4>1. /\ Len(EscapedOne(v[m])) = 2 /\ EscapedOne(v[m])[1] = "\\"
            /\ EscapedOne(v[m])[2] = v[m]
        BY <3>5 DEF EscapedOne
      <4>2. o2[a + 1] = o2[a] + 2 /\ p[o2[a] + 1] = "\\" /\ p[o2[a] + 2] = v[m]
        BY <3>4, <4>1
      <4> QED BY <2>3, <3>2, <3>4, <3>5, <4>2 DEF Wild
    <3>6. CASE v[m] \notin Signs
      <4>1. Len(EscapedOne(v[m])) = 1 /\ EscapedOne(v[m])[1] = v[m]
        BY <3>6 DEF EscapedOne
      <4>2. o2[a + 1] = o2[a] + 1 /\ p[o2[a] + 1] = v[m]
        BY <3>4, <4>1
      <4> QED BY <2>3, <2>6, <3>2, <3>4, <3>6, <4>2 DEF Wild
    <3> QED BY <3>5, <3>6
  <2> QED BY <2>5, <2>6
<1>16. off[0] = 0 /\ off[n] = Len(p) /\ off[n] <= Len(p)
  BY <1>9, <1>11, <1>12, <1>13, <1>14
<1>17. Spells(off, p, v)
  BY <1>14, <1>15, <1>16 DEF Spells, n
<1> QED BY <1>3, <1>5, <1>9, <1>16, <1>17 DEF n

\* A pattern: the text spelled, with or without a % before and after it.
Shaped(off, p, v, how) ==
  /\ Spells(off, p, v) /\ p \in Seq(Characters)
  /\ how = "starts" => off[0] = 0
  /\ how # "starts" => off[0] = 1 /\ p[1] = "%"
  /\ how = "ends" => Len(p) = off[Len(v)]
  /\ how # "ends" => Len(p) = off[Len(v)] + 1 /\ p[Len(p)] = "%"

LEMMA PatternShape ==
  ASSUME NEW how, NEW v \in Seq(STRING)
  PROVE  \E off : Shaped(off, Pattern(how, Doubled(v)), v, how)
<1> DEFINE mid == Middle(Doubled(v))
           pre == IF how = "starts" THEN <<>> ELSE <<"%">>
           post == IF how = "ends" THEN <<>> ELSE <<"%">>
           p == (pre \o mid) \o post
           n == Len(v)
<1>1. Pattern(how, Doubled(v)) = p
  BY Zenon DEF Pattern, Middle, EscapedOne, Signs
<1>2. mid \in Seq(Characters)
  BY MiddleShape
<1>3. PICK f : Spells(f, mid, v) /\ f[0] = 0 /\ f[n] = Len(mid)
  BY MiddleShape
<1>4. /\ pre \in Seq(Characters) /\ post \in Seq(Characters) /\ n \in Nat /\ Len(mid) \in Nat
      /\ how = "starts" => Len(pre) = 0
      /\ how # "starts" => Len(pre) = 1 /\ pre[1] = "%"
      /\ how = "ends" => Len(post) = 0
      /\ how # "ends" => Len(post) = 1 /\ post[1] = "%"
  <2>1. n \in Nat /\ Len(mid) \in Nat
    BY <1>2
  <2>2. /\ <<>> \in Seq(Characters) /\ Len(<<>>) = 0
        /\ <<"%">> \in Seq(Characters) /\ Len(<<"%">>) = 1 /\ <<"%">>[1] = "%"
    <3>1. "%" \in Characters
      BY DEF Characters
    <3>2. <<"%">> \in Seq(Characters) /\ Len(<<"%">>) = 1 /\ <<"%">>[1] = "%"
      BY <3>1, ShortLists
    <3> QED BY <3>2, EmptyList
  <2> HIDE DEF n, mid
  <2> QED BY <2>1, <2>2
<1> HIDE DEF mid, pre, post, n
<1>5. PICK a \in 0..1, c \in 0..1, h \in Nat : a = Len(pre) /\ c = Len(post) /\ h = Len(mid)
  BY <1>4
<1>6. /\ pre \o mid \in Seq(Characters) /\ Len(pre \o mid) = a + h
      /\ \A i \in 1..a : (pre \o mid)[i] = pre[i]
      /\ \A i \in 1..h : (pre \o mid)[a + i] = mid[i]
  BY <1>2, <1>4, <1>5, BothPlaces
<1> DEFINE q == pre \o mid
<1>7. /\ p \in Seq(Characters) /\ Len(p) = a + h + c
      /\ \A i \in 1..(a + h) : p[i] = q[i]
      /\ \A i \in 1..c : p[a + h + i] = post[i]
  <2>1. q \in Seq(Characters) /\ post \in Seq(Characters) /\ Len(q) = a + h
    BY <1>4, <1>6
  <2> HIDE DEF q
  <2>2. /\ q \o post \in Seq(Characters) /\ Len(q \o post) = Len(q) + Len(post)
        /\ \A i \in 1..Len(q) : (q \o post)[i] = q[i]
        /\ \A i \in 1..Len(post) : (q \o post)[Len(q) + i] = post[i]
    <3>1. q \in Seq(Characters) /\ post \in Seq(Characters)
      BY <2>1
    <3> QED BY <3>1, BothPlaces
  <2>3. p = q \o post
    BY DEF q
  <2> QED BY <1>5, <2>1, <2>2, <2>3
<1>8. \A i \in 1..h : p[a + i] = mid[i]
  <2> TAKE i \in 1..h
  <2>1. a + i \in 1..(a + h)
    BY <1>5
  <2> QED BY <1>6, <1>7, <2>1
<1>9. \A i \in 1..a : p[i] = pre[i]
  <2> TAKE i \in 1..a
  <2>1. i \in 1..(a + h)
    BY <1>5
  <2> QED BY <1>6, <1>7, <2>1
<1> HIDE DEF p, q
<1> DEFINE off == [m \in 0..n |-> f[m] + a]
<1>10. \A m \in 0..n : f[m] \in Nat /\ off[m] = f[m] + a /\ off[m] \in Nat
  BY <1>3, <1>5 DEF Spells, n
<1>11. off \in [0..n -> Nat] /\ 0 \in 0..n /\ n \in 0..n
  BY <1>4, <1>10
<1> HIDE DEF off
<1>12. ASSUME NEW m \in 1..n
       PROVE  /\ off[m] <= Len(p) /\ p[off[m]] = v[m]
              /\ v[m] \in Wild => off[m] = off[m - 1] + 2 /\ p[off[m - 1] + 1] = "\\"
              /\ v[m] \notin Wild => off[m] = off[m - 1] + 1
  <2>1. m \in 0..n /\ m - 1 \in 0..n
    BY <1>4
  <2>2. PICK x \in Nat, y \in Nat : x = f[m - 1] /\ y = f[m]
    BY <1>10, <2>1
  <2>3. /\ y <= h /\ mid[y] = v[m]
        /\ v[m] \in Wild => y = x + 2 /\ mid[x + 1] = "\\"
        /\ v[m] \notin Wild => y = x + 1
    BY <1>3, <1>5, <2>2 DEF Spells, n
  <2>a. a \in Nat /\ h \in Nat /\ y >= 1
    BY <1>5, <2>2, <2>3
  <2>b. off[m] = y + a /\ off[m - 1] = x + a
    BY <1>10, <2>1, <2>2
  <2>4. y \in 1..h /\ off[m] = a + y /\ off[m - 1] = a + x
    BY <2>2, <2>3, <2>a, <2>b
  <2>5. p[a + y] = v[m]
    BY <1>8, <2>3, <2>4
  <2>c. off[m] <= Len(p)
    BY <1>5, <1>7, <2>4, <2>a
  <2>6. CASE v[m] \in Wild
    <3>1. x + 1 \in 1..h /\ a + (x + 1) = off[m - 1] + 1
      BY <1>5, <2>3, <2>4, <2>6
    <3>2. p[off[m - 1] + 1] = "\\"
      BY <1>8, <2>3, <2>6, <3>1
    <3> QED BY <1>5, <2>3, <2>4, <2>5, <2>6, <2>c, <3>2
  <2>7. CASE v[m] \notin Wild
    <3>1. off[m] = off[m - 1] + 1
      BY <2>2, <2>3, <2>4, <2>7, <2>a
    <3> QED BY <2>4, <2>5, <2>7, <2>c, <3>1
  <2> QED BY <2>6, <2>7
<1>14. off[0] = a /\ off[n] = h + a /\ off[n] <= Len(p)
  <2>1. off[0] = f[0] + a /\ off[n] = f[n] + a
    BY <1>10, <1>11
  <2>2. f[0] = 0 /\ f[n] = h /\ a \in Nat /\ c \in Nat
    BY <1>3, <1>5
  <2> QED BY <1>5, <1>7, <2>1, <2>2
<1>13. Spells(off, p, v)
  BY <1>11, <1>12, <1>14 DEF Spells, n
<1>15. /\ how = "starts" => off[0] = 0
       /\ how # "starts" => off[0] = 1 /\ p[1] = "%"
  BY <1>4, <1>5, <1>9, <1>14
<1>16. /\ how = "ends" => Len(p) = off[n]
       /\ how # "ends" => Len(p) = off[n] + 1 /\ p[Len(p)] = "%"
  <2>1. how = "ends" => c = 0
    BY <1>4, <1>5
  <2>2. how # "ends" => c = 1 /\ post[1] = "%"
    BY <1>4, <1>5
  <2>3. a + h = h + a /\ a + h + 0 = h + a /\ 1 \in 1..1
    BY <1>5
  <2>4. how # "ends" => Len(p) = off[n] + 1 /\ p[a + h + 1] = "%"
    BY <1>7, <1>14, <2>2, <2>3
  <2> QED BY <1>7, <1>14, <2>1, <2>3, <2>4
<1> QED BY <1>1, <1>7, <1>13, <1>15, <1>16 DEF Shaped, n

\* What is left of the text v from its place m + 1 on is in s from i on, up to T.
Rest(s, v, m, i, T) == /\ i + (Len(v) - m) \in T
                       /\ \A k \in (m + 1)..Len(v) : s[i + (k - m - 1)] = v[k]

\* LIKE finds the rest of a text where the rest of its spelling matches.
LEMMA Matching ==
  ASSUME NEW s \in Seq(STRING), NEW v \in Seq(STRING), NEW p \in Seq(Characters),
         NEW off, Spells(off, p, v), NEW ends, Likes(ends, s, p)
  PROVE  \A i \in Int : i \in ends[off[0] + 1] <=>
           i >= 1 /\ Rest(s, v, 0, i, ends[off[Len(v)] + 1])
<1> DEFINE n == Len(v)
           g == Len(s)
           T == ends[off[n] + 1]
           Found1(m) == \A i \in Int : i \in ends[off[m] + 1] <=> i >= 1 /\ Rest(s, v, m, i, T)
           Good == {j \in 0..n : Found1(n - j)}
<1>1. n \in Nat /\ g \in Nat /\ Len(p) \in Nat
  BY LenProperties
<1>2. \A m \in 0..n : off[m] \in Nat
  BY DEF Spells
<1>0. n \in 0..n /\ off[n] <= Len(p)
  <2>1. off[n] <= Len(p)
    BY DEF Spells
  <2> QED BY <1>1, <2>1
<1>3. ASSUME NEW j \in 1..(Len(p) + 1) PROVE ends[j] \subseteq 1..(g + 1)
  BY <1>3 DEF Likes
<1>4. off[n] + 1 \in 1..(Len(p) + 1) /\ T \subseteq 1..(g + 1)
  <2>1. off[n] + 1 \in 1..(Len(p) + 1)
    BY <1>0, <1>1, <1>2
  <2> QED BY <1>3, <2>1
<1>5. 0 \in Good
  <2>1. ASSUME NEW i \in Int PROVE i \in T <=> i >= 1 /\ Rest(s, v, n, i, T)
    <3>1. i + (n - n) = i /\ (n + 1)..n = {}
      BY <1>1
    <3>2. i \in T => i >= 1
      BY <1>1, <1>4
    <3> HIDE DEF T
    <3> QED BY <3>1, <3>2 DEF Rest
  <2>2. n - 0 = n /\ 0 \in 0..n
    BY <1>1
  <2>3. Found1(n - 0)
    BY <2>1, <2>2
  <2> HIDE DEF Found1
  <2> QED BY <2>2, <2>3
<1> HIDE DEF T
<1>6. ASSUME NEW j \in 0..(n - 1), j \in Good PROVE j + 1 \in Good
  <2>0. n - j \in 1..n
    BY <1>1
  <2>1. PICK m \in 1..n : m = n - j
    BY <2>0
  <2>2. m - 1 = n - (j + 1) /\ j + 1 \in 0..n /\ m \in 0..n /\ m - 1 \in 0..n
    BY <1>1, <2>1
  <2>3. \A i \in Int : i \in ends[off[m] + 1] <=> i >= 1 /\ Rest(s, v, m, i, T)
    BY <1>6, <2>1
  <2>4. PICK x \in Nat : x = off[m - 1]
    BY <1>2, <2>2
  <2>5. ASSUME NEW i \in Int
        PROVE  i \in ends[x + 1] <=> i \in 1..g /\ s[i] = v[m] /\ i + 1 \in ends[off[m] + 1]
    <3>1. CASE v[m] \in Wild
      <4>1. off[m] = x + 2 /\ p[x + 1] = "\\" /\ p[x + 2] = v[m] /\ x + 2 <= Len(p)
        BY <2>4, <3>1 DEF Spells
      <4>2. x + 1 \in 1..Len(p) /\ x + 1 < Len(p) /\ x + 1 + 1 = x + 2 /\ x + 1 + 2 = off[m] + 1
        BY <1>1, <4>1
      <4>3. ends[x + 1] = {q \in 1..Len(s) : x + 1 < Len(p) /\ p[x + 1 + 1] = s[q]
                                             /\ q + 1 \in ends[x + 1 + 2]}
        BY <4>1, <4>2 DEF Likes
      <4> QED BY <4>1, <4>2, <4>3
    <3>2. CASE v[m] \notin Wild
      <4>1. off[m] = x + 1 /\ p[x + 1] = v[m] /\ x + 1 <= Len(p)
        BY <2>4, <3>2 DEF Spells
      <4>2. x + 1 \in 1..Len(p) /\ x + 1 + 1 = off[m] + 1
        BY <1>1, <4>1
      <4>3. p[x + 1] \notin {"%", "\\"} /\ \A c : Takes(p[x + 1], c) <=> p[x + 1] = c
        <5>1. "%" \in Signs /\ "\\" \in Wild /\ \A c : Takes(p[x + 1], c) <=>
                p[x + 1] = c \/ (p[x + 1] \in Signs /\ Takes(p[x + 1], c))
          BY Zenon DEF Signs, Wild, Takes
        <5>2. p[x + 1] \notin Signs /\ p[x + 1] \notin Wild /\ Signs \subseteq Wild
          BY <3>2, <4>1 DEF Wild
        <5>3. ASSUME NEW c PROVE Takes(p[x + 1], c) <=> p[x + 1] = c
          BY <5>1, <5>2
        <5>4. p[x + 1] # "%" /\ p[x + 1] # "\\"
          BY <5>1, <5>2
        <5> QED BY <5>3, <5>4
      <4>4. ends[x + 1] = {q \in 1..Len(s) : Takes(p[x + 1], s[q])
                                             /\ q + 1 \in ends[x + 1 + 1]}
        BY <4>2, <4>3 DEF Likes
      <4> QED BY <4>1, <4>2, <4>3, <4>4
    <3> QED BY <3>1, <3>2
  <2>6. ASSUME NEW i \in Int
        PROVE  i >= 1 /\ Rest(s, v, m - 1, i, T) <=>
               i \in 1..g /\ s[i] = v[m] /\ i + 1 >= 1 /\ Rest(s, v, m, i + 1, T)
    <3>1. i + (n - (m - 1)) = i + 1 + (n - m)
      BY <1>1
    <3>2. i >= 1 /\ i + 1 + (n - m) \in T => i \in 1..g /\ i + 1 >= 1
      <4>1. i + 1 + (n - m) \in T => i + 1 + (n - m) <= g + 1
        BY <1>4
      <4> QED BY <1>1, <4>1
    <3>3. i \in 1..g => i >= 1
      BY <1>1
    <3>4. (\A k \in (m - 1 + 1)..n : s[i + (k - (m - 1) - 1)] = v[k]) <=>
          s[i] = v[m] /\ \A k \in (m + 1)..n : s[i + 1 + (k - m - 1)] = v[k]
      <4>1. \A k \in Int : i + (k - (m - 1) - 1) = i + (k - m) /\ i + 1 + (k - m - 1) = i + (k - m)
        BY <1>1
      <4>2. m - 1 + 1 = m /\ i + (m - m) = i /\ m \in m..n
        BY <1>1
      <4>3. \A k : k \in m..n <=> k = m \/ k \in (m + 1)..n
        BY <1>1
      <4>4. ASSUME NEW k \in Int
            PROVE  /\ s[i + (k - (m - 1) - 1)] = s[i + (k - m)]
                   /\ s[i + 1 + (k - m - 1)] = s[i + (k - m)]
        BY <4>1
      <4>5. s[i + (m - m)] = s[i] /\ \A k \in m..n : k \in Int
        BY <1>1, <4>2
      <4>6. (\A k \in (m - 1 + 1)..n : s[i + (k - (m - 1) - 1)] = v[k]) <=>
            \A k \in m..n : s[i + (k - m)] = v[k]
        BY <4>2, <4>4, <4>5
      <4>7. (\A k \in (m + 1)..n : s[i + 1 + (k - m - 1)] = v[k]) <=>
            \A k \in (m + 1)..n : s[i + (k - m)] = v[k]
        BY <4>3, <4>4, <4>5
      <4> QED BY <4>2, <4>3, <4>5, <4>6, <4>7
    <3> QED BY <3>1, <3>2, <3>3, <3>4 DEF Rest
  <2>7. Found1(m - 1)
    <3>1. ASSUME NEW i \in Int
          PROVE  i \in ends[x + 1] <=> i >= 1 /\ Rest(s, v, m - 1, i, T)
      <4>1. i + 1 \in Int
        OBVIOUS
      <4>2. i + 1 \in ends[off[m] + 1] <=> i + 1 >= 1 /\ Rest(s, v, m, i + 1, T)
        BY <2>3, <4>1
      <4> QED BY <2>5, <2>6, <4>2
    <3> QED BY <2>4, <3>1
  <2> HIDE DEF Found1
  <2> QED BY <2>2, <2>7
<1> HIDE DEF Good
<1>7. \A j \in 0..n : j \in Good
  BY <1>1, <1>5, <1>6, Climb
<1>8. n \in Good /\ n - n = 0
  BY <1>1, <1>7
<1>9. Found1(0)
  <2> HIDE DEF Found1
  <2> QED BY <1>8 DEF Good
<1> QED BY <1>9 DEF T

\* v is in s after its place a.
Here(v, s, a) == a + Len(v) <= Len(s) /\ \A k \in 1..Len(v) : s[a + k] = v[k]

LEMMA PrefixIs ==
  ASSUME NEW S, NEW v \in Seq(S), NEW t \in Seq(S)
  PROVE  IsPrefix(v, t) <=> Len(v) <= Len(t) /\ \A k \in 1..Len(v) : t[k] = v[k]
<1> DEFINE n == Len(v)
<1>1. n \in Nat /\ Len(t) \in Nat
  BY LenProperties
<1>2. ~(n <= Len(t)) => ~IsPrefix(v, t)
  BY DEF IsPrefix
<1>3. ASSUME n <= Len(t)
      PROVE  IsPrefix(v, t) <=> \A k \in 1..n : t[k] = v[k]
  <2> DEFINE a == SubSeq(v, 1, n)
             b == SubSeq(t, 1, n)
  <2>1. a \in Seq(S) /\ Len(a) = n /\ \A i \in 1..n : a[i] = v[i]
    BY <1>1, PrefixHolds
  <2>2. b \in Seq(S) /\ Len(b) = n /\ \A i \in 1..n : b[i] = t[i]
    BY <1>1, <1>3, PrefixHolds
  <2>3. IsPrefix(v, t) <=> a = b
    BY <1>3 DEF IsPrefix
  <2> HIDE DEF a, b, n
  <2>4. ASSUME \A i \in 1..n : a[i] = b[i] PROVE a = b
    BY <2>1, <2>2, <2>4, SeqEqual
  <2> QED BY <2>1, <2>2, <2>3, <2>4
<1> QED BY <1>2, <1>3

LEMMA Reversed ==
  ASSUME NEW S, NEW s \in Seq(S)
  PROVE  /\ Reverse(s) \in Seq(S) /\ Len(Reverse(s)) = Len(s)
         /\ \A i \in 1..Len(s) : Reverse(s)[i] = s[Len(s) - i + 1]
<1> DEFINE n == Len(s)
<1>1. n \in Nat /\ \A i \in 1..n : s[i] \in S
  BY LenProperties, ElementOfSeq
<1> HIDE DEF n
<1>2. \A i \in 1..n : n - i + 1 \in 1..n
  BY <1>1
<1>3. Reverse(s) = [i \in 1..n |-> s[(n - i) + 1]]
  BY DEF Reverse, n
<1>4. Reverse(s) \in [1..n -> S]
  BY <1>1, <1>2, <1>3
<1> QED BY <1>1, <1>3, <1>4 DEF n

LEMMA FoundHere ==
  ASSUME NEW v \in Seq(STRING), NEW s \in Seq(STRING)
  PROVE  /\ Found("starts", s, v) <=> Here(v, s, 0)
         /\ Found("ends", s, v) <=> Len(v) <= Len(s) /\ Here(v, s, Len(s) - Len(v))
         /\ Found("contains", s, v) <=> \E a \in 0..Len(s) : Here(v, s, a)
<1> DEFINE n == Len(v)
           g == Len(s)
<1>1. n \in Nat /\ g \in Nat
  BY LenProperties
<1>2. Found("starts", s, v) <=> Here(v, s, 0)
  <2>1. \A k \in 1..n : 0 + k = k
    BY <1>1
  <2> QED BY <1>1, <2>1, PrefixIs DEF Found, Here
<1>3. Found("ends", s, v) <=> n <= g /\ Here(v, s, g - n)
  <2>1. /\ Reverse(v) \in Seq(STRING) /\ Len(Reverse(v)) = n
        /\ Reverse(s) \in Seq(STRING) /\ Len(Reverse(s)) = g
    BY Reversed
  <2>2. /\ \A i \in 1..n : Reverse(v)[i] = v[n - i + 1]
        /\ \A i \in 1..g : Reverse(s)[i] = s[g - i + 1]
    BY Reversed
  <2>3. Found("ends", s, v) <=> n <= g /\ \A k \in 1..n : Reverse(s)[k] = Reverse(v)[k]
    BY <2>1, PrefixIs DEF Found, IsSuffix
  <2> HIDE DEF n, g
  <2>4. ASSUME n <= g
        PROVE  (\A k \in 1..n : Reverse(s)[k] = Reverse(v)[k]) <=>
               \A k \in 1..n : s[g - n + k] = v[k]
    <3>1. \A k \in 1..n : Reverse(s)[k] = s[g - k + 1] /\ Reverse(v)[k] = v[n - k + 1]
      BY <1>1, <2>2, <2>4
    <3>2. \A k \in 1..n : /\ n - k + 1 \in 1..n /\ n - (n - k + 1) + 1 = k
                          /\ g - n + (n - k + 1) = g - k + 1
                          /\ g - (n - k + 1) + 1 = g - n + k
      BY <1>1
    <3>3. ASSUME \A k \in 1..n : Reverse(s)[k] = Reverse(v)[k], NEW k \in 1..n
          PROVE  s[g - n + k] = v[k]
      <4>1. PICK i \in 1..n : i = n - k + 1 /\ n - i + 1 = k /\ g - i + 1 = g - n + k
        BY <3>2
      <4> QED BY <3>1, <3>3, <4>1
    <3>4. ASSUME \A k \in 1..n : s[g - n + k] = v[k], NEW k \in 1..n
          PROVE  Reverse(s)[k] = Reverse(v)[k]
      <4>1. PICK i \in 1..n : i = n - k + 1 /\ g - n + i = g - k + 1
        BY <3>2
      <4> QED BY <3>1, <3>4, <4>1
    <3> QED BY <3>3, <3>4
  <2>5. n <= g => g - n + n <= g
    BY <1>1
  <2> QED BY <2>3, <2>4, <2>5 DEF Here, n, g
<1>4. Found("contains", s, v) <=> \E a \in 0..g : Here(v, s, a)
  <2>1. ASSUME NEW a \in 0..g PROVE IsPrefix(v, SubSeq(s, a + 1, g)) <=> Here(v, s, a)
    <3> DEFINE t == SubSeq(s, a + 1, g)
    <3>1. a \in Nat /\ g \in Nat /\ g <= Len(s)
      BY <1>1
    <3>2. t \in Seq(STRING) /\ Len(t) = g - a /\ \A i \in 1..Len(t) : t[i] = s[a + i]
      <4>1. /\ t \in Seq(STRING) /\ Len(t) \in Nat
            /\ a < g => Len(t) = g - a
            /\ g <= a => Len(t) = 0
            /\ \A i \in 1..Len(t) : t[i] = s[a + i]
        BY <3>1, SliceHolds
      <4> HIDE DEF t
      <4> QED BY <1>1, <4>1
    <3> HIDE DEF t
    <3>3. IsPrefix(v, t) <=> n <= Len(t) /\ \A k \in 1..n : t[k] = v[k]
      BY <3>2, PrefixIs
    <3> HIDE DEF n, g
    <3>4. n <= Len(t) <=> a + n <= g
      BY <1>1, <3>2
    <3>5. n <= Len(t) => \A k \in 1..n : t[k] = s[a + k]
      BY <1>1, <3>2
    <3> QED BY <3>3, <3>4, <3>5 DEF Here, n, g, t
  <2> HIDE DEF g, n
  <2>2. Found("contains", s, v) <=> \E a \in 0..g : IsPrefix(v, SubSeq(s, a + 1, g))
    BY DEF Found, g
  <2> QED BY <2>1, <2>2
<1> QED BY <1>2, <1>3, <1>4

\* LIKE with the pattern of a text finds the rows that hold the text.
LEMMA LikeFinds ==
  ASSUME NEW how \in {"contains", "starts", "ends"}, NEW s \in Seq(STRING),
         NEW v \in Seq(STRING)
  PROVE  Like(s, Pattern(how, Doubled(v))) = Found(how, s, v)
<1> DEFINE p == Pattern(how, Doubled(v))
           n == Len(v)
           g == Len(s)
<1>1. PICK off : Shaped(off, p, v, how)
  BY PatternShape
<1>2. Spells(off, p, v) /\ p \in Seq(Characters)
  BY <1>1 DEF Shaped
<1> HIDE DEF p
<1>3. PICK ends : Likes(ends, s, p) /\ Like(s, p) = (1 \in ends[1])
  BY <1>2, LikeOf
<1>4. n \in Nat /\ g \in Nat /\ Len(p) \in Nat /\ off[0] \in Nat /\ off[n] \in Nat
  <2>1. n \in Nat /\ g \in Nat /\ Len(p) \in Nat /\ 0 \in 0..n /\ n \in 0..n
    BY <1>2
  <2> QED BY <1>2, <2>1 DEF Spells
<1> DEFINE T == ends[off[n] + 1]
<1>5. \A i \in Int : i \in ends[off[0] + 1] <=> i >= 1 /\ Rest(s, v, 0, i, T)
  BY <1>2, <1>3, Matching
<1>6. how = "ends" => T = {g + 1}
  BY <1>1, <1>3 DEF Shaped, Likes
<1>7. how # "ends" => T = 1..(g + 1)
  <2> SUFFICES ASSUME how # "ends" PROVE T = 1..(g + 1)
    OBVIOUS
  <2>1. Len(p) = off[n] + 1 /\ p[Len(p)] = "%"
    BY <1>1 DEF Shaped
  <2>2. Len(p) \in 1..Len(p)
    BY <1>4, <2>1
  <2>3. ends[Len(p)] = {i \in 1..(g + 1) : \E k \in ends[Len(p) + 1] : i <= k}
    BY <1>3, <2>1, <2>2 DEF Likes
  <2>4. ends[Len(p) + 1] = {g + 1}
    BY <1>3 DEF Likes
  <2> HIDE DEF g, n
  <2> QED BY <1>4, <2>1, <2>3, <2>4
<1> HIDE DEF T, g, n
<1>8. ASSUME NEW i \in Int
      PROVE  i \in ends[off[0] + 1] <=> i >= 1 /\ i + n \in T /\ \A k \in 1..n : s[i - 1 + k] = v[k]
  <2>1. i + (n - 0) = i + n /\ \A k \in 1..n : i + (k - 0 - 1) = i - 1 + k
    BY <1>4
  <2>2. Rest(s, v, 0, i, T) <=> i + n \in T /\ \A k \in 1..n : s[i - 1 + k] = v[k]
    BY <2>1 DEF Rest, n
  <2> QED BY <1>5, <2>2
<1>9. CASE how = "starts"
  <2>1. off[0] + 1 = 1 /\ T = 1..(g + 1)
    BY <1>1, <1>7, <1>9 DEF Shaped
  <2>2. 1 \in ends[1] <=> 1 + n \in 1..(g + 1) /\ \A k \in 1..n : s[1 - 1 + k] = v[k]
    BY <1>8, <2>1
  <2>3. (1 + n \in 1..(g + 1) <=> 0 + n <= g) /\ 1 - 1 = 0
    BY <1>4
  <2>4. 1 \in ends[1] <=> Here(v, s, 0)
    BY <2>2, <2>3 DEF Here, n, g
  <2>5. Found("starts", s, v) <=> Here(v, s, 0)
    BY FoundHere
  <2>6. Found("starts", s, v) \in BOOLEAN
    BY DEF Found, IsPrefix
  <2> QED BY <1>3, <1>9, <2>4, <2>5, <2>6 DEF p
<1>10. ASSUME how # "starts"
       PROVE  /\ off[0] + 1 = 2 /\ ends[2] \subseteq Int
              /\ 1 \in ends[1] <=> \E k \in ends[2] : k >= 1
  <2>1. off[0] = 1 /\ p[1] = "%"
    BY <1>1, <1>10 DEF Shaped
  <2>2. 1 \in 1..Len(p)
    <3>1. CASE n = 0
      BY <1>2, <1>4, <2>1, <3>1 DEF Spells, n
    <3>2. CASE n # 0
      <4>1. 1 \in 1..n /\ 1 - 1 = 0
        BY <1>4, <3>2
      <4>2. off[1] <= Len(p) /\ (off[1] = off[0] + 2 \/ off[1] = off[0] + 1)
        BY <1>2, <4>1 DEF Spells, n
      <4> QED BY <1>4, <2>1, <4>2
    <3> QED BY <3>1, <3>2
  <2>3. ends[1] = {i \in 1..(g + 1) : \E k \in ends[1 + 1] : i <= k}
    BY <1>3, <2>1, <2>2 DEF Likes, g
  <2>4. 1 \in 1..(g + 1) /\ 1 + 1 = 2
    BY <1>4
  <2>5. 1 \in ends[1] <=> \E k \in ends[2] : 1 <= k
    BY <2>3, <2>4
  <2>6. ends[2] \subseteq Int
    <3>1. 2 \in 1..(Len(p) + 1)
      BY <1>4, <2>2
    <3>2. \A j \in 1..(Len(p) + 1) : ends[j] \in SUBSET (1..(g + 1))
      BY <1>3 DEF Likes, g
    <3> QED BY <1>4, <3>1, <3>2
  <2> QED BY <2>1, <2>5, <2>6
<1>11. ASSUME how # "starts"
       PROVE  1 \in ends[1] <=> \E a \in Nat : /\ a + 1 + n \in T
                                               /\ \A k \in 1..n : s[a + k] = v[k]
  <2>1. \A k \in Int : k \in ends[2] <=>
          k >= 1 /\ k + n \in T /\ \A j \in 1..n : s[k - 1 + j] = v[j]
    BY <1>8, <1>10, <1>11
  <2>2. ends[2] \subseteq Int /\ (1 \in ends[1] <=> \E k \in ends[2] : k >= 1)
    BY <1>10, <1>11
  <2>3. ASSUME NEW k \in ends[2], k >= 1
        PROVE  \E a \in Nat : a + 1 + n \in T /\ \A j \in 1..n : s[a + j] = v[j]
    <3>1. PICK a \in Nat : a = k - 1
      BY <2>2, <2>3
    <3>2. a + 1 + n = k + n
      BY <1>4, <2>2, <3>1
    <3> QED BY <2>1, <2>2, <3>1, <3>2
  <2>4. ASSUME NEW a \in Nat, a + 1 + n \in T, \A j \in 1..n : s[a + j] = v[j]
        PROVE  \E k \in ends[2] : k >= 1
    <3>1. PICK k \in Int : k = a + 1 /\ k >= 1 /\ k - 1 = a
      OBVIOUS
    <3>2. k \in ends[2]
      BY <2>1, <2>4, <3>1
    <3> QED BY <3>1, <3>2
  <2> QED BY <2>2, <2>3, <2>4
<1>12. CASE how = "ends"
  <2>1. \A a \in Nat : a + 1 + n \in T <=> n <= g /\ a = g - n
    BY <1>4, <1>6, <1>12
  <2>2. n <= g => g - n \in Nat /\ g - n + n <= g
    BY <1>4
  <2>3. 1 \in ends[1] <=> n <= g /\ \A k \in 1..n : s[g - n + k] = v[k]
    BY <1>11, <1>12, <2>1, <2>2
  <2>4. 1 \in ends[1] <=> n <= g /\ Here(v, s, g - n)
    BY <2>2, <2>3 DEF Here, n, g
  <2>5. Found("ends", s, v) <=> n <= g /\ Here(v, s, g - n)
    BY FoundHere DEF n, g
  <2>6. Found("ends", s, v) \in BOOLEAN
    BY DEF Found, IsSuffix, IsPrefix
  <2> QED BY <1>3, <1>12, <2>4, <2>5, <2>6 DEF p
<1>13. CASE how = "contains"
  <2>1. \A a \in Nat : a + 1 + n \in T <=> a + n <= g
    BY <1>4, <1>7, <1>13
  <2>2. \A a \in Nat : a + n <= g => a \in 0..g
    BY <1>4
  <2>3. 1 \in ends[1] <=> \E a \in 0..g : Here(v, s, a)
    <3>1. how # "starts"
      BY <1>13
    <3>2. 1 \in ends[1] <=> \E a \in Nat : a + 1 + n \in T /\ \A k \in 1..n : s[a + k] = v[k]
      BY <1>11, <3>1
    <3>3. \A a : Here(v, s, a) <=> a + n <= g /\ \A k \in 1..n : s[a + k] = v[k]
      BY DEF Here, n, g
    <3>4. \A a \in 0..g : a \in Nat
      BY <1>4
    <3> QED BY <2>1, <2>2, <3>2, <3>3, <3>4
  <2>4. Found("contains", s, v) <=> \E a \in 0..g : Here(v, s, a)
    BY FoundHere DEF g
  <2>5. Found("contains", s, v) \in BOOLEAN
    BY DEF Found
  <2> QED BY <1>3, <1>13, <2>3, <2>4, <2>5 DEF p
<1> QED BY <1>9, <1>12, <1>13

-----------------------------------------------------------------------------
(* Tests: one that is straight is to SQL Server what it is in Cypher.      *)

\* What a column of a row may hold.
LEMMA CellOf ==
  ASSUME NEW x \in Operands
  PROVE  /\ x[1] = "null" => x = Null
         /\ x[1] = "text" => x[2] \in Seq(STRING)
BY DEF Operands, InternalIds, Null

LEMMA MeaningIsText ==
  ASSUME NEW x \in Operands, x[1] = "text"
  PROVE  Meaning(x)[2] \in Seq(STRING)
<1>1. x[2] \in Seq(STRING)
  BY CellOf
<1> DEFINE chars == {"'", "\\"}
<1>2. PICK rest : Unescapes(rest, x[2], chars) /\ Unescaped(x[2], chars) = rest[1]
  BY <1>1, UnescapedOf
<1>3. 1 \in 1..(Len(x[2]) + 1)
  BY <1>1
<1>4. rest[1] \in Seq(STRING)
  BY <1>2, <1>3 DEF Unescapes
<1> QED BY <1>2, <1>4 DEF Meaning

LEMMA TestShapes ==
  ASSUME NEW l \in Tests
  PROVE  /\ l[1] = "cmp" => l[3] \in Operands /\ l[4] \in Operands
         /\ l[1] = "like" => /\ l[2] \in {"contains", "starts", "ends", "regex"}
                             /\ l[3] \in Operands /\ l[4] \in Operands
         /\ l[1] = "in" => l[3] \in Seq(Operands)
         /\ l[1] = "idin" => l[2] \in Seq(InternalIds)
BY DEF Tests

\* Literals that mean what they say, sent as they are.
LEMMA SameListTest ==
  ASSUME NEW items \in Seq(Operands), NEW a, NEW b, NEW values,
         values = [i \in DOMAIN items |-> Literal(items[i])],
         \A i \in DOMAIN items : ~Backslashed(items[i]) /\ Sent(values, b)[i] = Literal(items[i])
  PROVE  ListTest(a, values, b) =
           IF items = <<>> THEN 0 ELSE Among(a, [i \in DOMAIN items |-> Meaning(items[i])])
<1> DEFINE n == Len(items)
           means == [i \in DOMAIN items |-> Meaning(items[i])]
<1>1. n \in Nat /\ DOMAIN items = 1..n /\ \A i \in 1..n : items[i] \in Operands
  BY InList
<1>2. \A i \in 1..n : Literal(items[i]) = Meaning(items[i])
  BY <1>1, LiteralMeans
<1>3. values = means
  BY <1>1, <1>2
<1>4. CASE items = <<>>
  <2>1. DOMAIN items = {}
    BY <1>4
  <2>2. values = <<>>
    BY <2>1
  <2> QED BY <1>4, <2>2 DEF ListTest
<1>5. CASE items # <<>>
  <2>1. n # 0
    BY <1>1, <1>5, EmptySeq
  <2>2. values # <<>>
    BY <1>1, <2>1
  <2>3. Sent(values, b) = means
    <3>1. CASE Len(values) <= InlineMax \/ b
      BY <1>3, <3>1 DEF Sent
    <3>2. CASE ~(Len(values) <= InlineMax \/ b)
      <4>1. DOMAIN values = 1..n
        BY <1>1
      <4>2. Sent(values, b) = [i \in 1..n |-> Sent(values, b)[i]]
        BY <3>2, <4>1 DEF Sent
      <4>3. \A i \in 1..n : Sent(values, b)[i] = Meaning(items[i])
        BY <1>1, <1>2
      <4> QED BY <1>1, <4>2, <4>3
    <3> QED BY <3>1, <3>2
  <2> QED BY <1>5, <2>2, <2>3 DEF ListTest
<1> QED BY <1>4, <1>5

\* A row that the joins may find.
Row(row) == /\ row.label = Label /\ row.key \in Int /\ DOMAIN row.columns = DOMAIN Columns
            /\ \A c \in DOMAIN Columns : row.columns[c] \in Cells(Columns[c])

\* What Refuses, Raises, Breaks and Straight say of one test.
Plain(l, b) ==
  /\ ~(l[1] = "like" /\ l[2] = "regex")
  /\ Looks(l) => IsColumn(Operand(l))
  /\ l[1] = "idin" => \A i \in DOMAIN l[2] : l[2][i][2] = Label
  /\ l[1] = "cmp" => ~Backslashed(l[4])
  /\ l[1] = "like" => /\ l[4][1] = "text" /\ Columns[l[3][2]] = "text"
                      /\ Literal(l[4])[2] = Doubled(Meaning(l[4])[2])
  /\ l[1] = "in" => \A i \in DOMAIN l[3] :
       ~Backslashed(l[3][i]) /\ Sent(Listed(l), b)[i] = Literal(l[3][i])

LEMMA SameTest ==
  ASSUME NEW l \in Tests, NEW row, Row(row), NEW b, Plain(l, b)
  PROVE  SqlLeaf(l, row, b) = CypherLeaf(l, row)
<1>1. CASE l[1] = "cmp"
  <2>1. Literal(l[4]) = Meaning(l[4])
    BY <1>1, TestShapes, LiteralMeans DEF Plain
  <2>2. SqlLeaf(l, row, b) = Compared(l[2], Value(Operand(l), row), Value(Literal(l[4]), row))
    BY <1>1 DEF SqlLeaf
  <2>3. CypherLeaf(l, row) = Compared(l[2], Value(Operand(l), row), Value(Meaning(l[4]), row))
    BY <1>1 DEF CypherLeaf
  <2> QED BY <2>1, <2>2, <2>3
<1>2. CASE l[1] = "like"
  <2> DEFINE a == Value(Operand(l), row)
             v == Meaning(l[4])[2]
  <2>1. l[2] \in {"contains", "starts", "ends"} /\ l[4] \in Operands /\ l[4][1] = "text"
    BY <1>2, TestShapes DEF Plain
  <2>2. v \in Seq(STRING)
    BY <2>1, MeaningIsText
  <2>3. Spelled(l[4]) = Doubled(v)
    BY <1>2, <2>1 DEF Plain, Spelled
  <2>4. a \in Cells("text")
    <3>1. Operand(l) = l[3]
      BY <1>2 DEF Operand
    <3>2. l[3][1] = "prop" /\ l[3][2] \in DOMAIN Columns /\ Columns[l[3][2]] = "text"
      BY <1>2, <3>1 DEF Plain, IsColumn, Looks
    <3>3. a = row.columns[l[3][2]]
      BY <3>1, <3>2 DEF Value
    <3> QED BY <3>2, <3>3 DEF Row
  <2>5. a \in Operands /\ (a[1] = "text" \/ a[1] = "null")
    BY <2>4 DEF Cells
  <2>6. a # Null => a[2] \in Seq(STRING)
    BY <2>5, CellOf
  <2>7. SqlLeaf(l, row, b) = IF a = Null THEN 1
                             ELSE Degree(Like(a[2], Pattern(l[2], Spelled(l[4]))))
    BY <1>2, Zenon DEF SqlLeaf
  <2>8. CypherLeaf(l, row) = IF a = Null THEN 1 ELSE Degree(Found(l[2], a[2], v))
    BY <1>2, Zenon DEF CypherLeaf
  <2> HIDE DEF a, v
  <2>9. a # Null => Like(a[2], Pattern(l[2], Doubled(v))) = Found(l[2], a[2], v)
    BY <2>1, <2>2, <2>6, LikeFinds
  <2> QED BY <2>3, <2>7, <2>8, <2>9
<1>3. CASE l[1] = "in"
  <2> DEFINE a == Value(Operand(l), row)
             means == [i \in DOMAIN l[3] |-> Meaning(l[3][i])]
             sql == ListTest(a, Listed(l), b)
             cypher == IF l[3] = <<>> THEN 0 ELSE Among(a, means)
  <2>1. l[3] \in Seq(Operands)
    BY <1>3, TestShapes
  <2>2. Listed(l) = [i \in DOMAIN l[3] |-> Literal(l[3][i])]
    BY <1>3 DEF Listed
  <2>3. \A i \in DOMAIN l[3] : ~Backslashed(l[3][i]) /\ Sent(Listed(l), b)[i] = Literal(l[3][i])
    BY <1>3 DEF Plain
  <2>4. sql = cypher
    <3> HIDE DEF a
    <3> QED BY <2>1, <2>2, <2>3, SameListTest
  <2>5. SqlLeaf(l, row, b) = IF l[4] THEN 2 - sql ELSE sql
    BY <1>3, Zenon DEF SqlLeaf
  <2>6. CypherLeaf(l, row) = IF l[4] THEN 2 - cypher ELSE cypher
    BY <1>3, Zenon DEF CypherLeaf
  <2> HIDE DEF sql, cypher
  <2> QED BY <2>4, <2>5, <2>6
<1>4. CASE l[1] = "idin"
  <2> DEFINE refs == l[2]
             sql == ListTest(<<"number", row.key>>, Keys(refs), b)
             here == \E i \in DOMAIN refs : refs[i][2] = row.label /\ refs[i][3] = row.key
  <2>1. refs \in Seq(InternalIds) /\ row.key \in Int /\ row.label = Label
    BY <1>4, TestShapes DEF Row
  <2>2. sql = Degree(\E i \in 1..Len(refs) : refs[i][2] # NoLabel /\ refs[i][3] = row.key)
    BY <2>1, KeysSent
  <2>3. DOMAIN refs = 1..Len(refs) /\ \A i \in DOMAIN refs : refs[i][2] = Label
    BY <1>4, <2>1, InList DEF Plain
  <2>4. here <=> \E i \in 1..Len(refs) : refs[i][2] # NoLabel /\ refs[i][3] = row.key
    BY <2>1, <2>3, WhereAssumption
  <2>5. Listed(l) = Keys(refs)
    BY <1>4 DEF Listed
  <2>6. SqlLeaf(l, row, b) = IF l[3] THEN 2 - sql ELSE sql
    BY <1>4, <2>5, Zenon DEF SqlLeaf
  <2>7. CypherLeaf(l, row) = IF l[3] THEN 2 - Degree(here) ELSE Degree(here)
    BY <1>4, Zenon DEF CypherLeaf
  <2> HIDE DEF sql, here
  <2>8. sql = Degree(here)
    BY <2>2, <2>4 DEF Degree
  <2> QED BY <2>6, <2>7, <2>8
<1>5. CASE l[1] = "isnull"
  BY <1>5, Zenon DEF SqlLeaf, CypherLeaf
<1>6. CASE l[1] = "flag"
  BY <1>6, Zenon DEF SqlLeaf, CypherLeaf
<1> QED BY <1>1, <1>2, <1>3, <1>4, <1>5, <1>6, TestKinds

LEMMA CypherDegrees ==
  ASSUME NEW row
  PROVE  \A l \in Tests : CypherLeaf(l, row) \in 0..2
<1> TAKE l \in Tests
<1>1. CASE l[1] = "cmp"
  <2>1. \E p, q, r : CypherLeaf(l, row) = Compared(p, q, r)
    BY <1>1, Zenon DEF CypherLeaf
  <2> QED BY <2>1, ThreeDegrees
<1>2. CASE l[1] = "like"
  <2>1. CypherLeaf(l, row) = 1 \/ \E p : CypherLeaf(l, row) = Degree(p)
    BY <1>2, Zenon DEF CypherLeaf
  <2> QED BY <2>1, TwoDegrees
<1>3. CASE l[1] = "in"
  <2> DEFINE cypher == IF l[3] = <<>> THEN 0
                       ELSE Among(Value(Operand(l), row), [i \in DOMAIN l[3] |-> Meaning(l[3][i])])
  <2>1. CypherLeaf(l, row) = IF l[4] THEN 2 - cypher ELSE cypher
    BY <1>3, Zenon DEF CypherLeaf
  <2>2. cypher \in 0..2
    BY ThreeDegrees
  <2> HIDE DEF cypher
  <2> QED BY <2>1, <2>2
<1>4. CASE l[1] \in {"idin", "isnull"}
  <2>1. \E p : CypherLeaf(l, row) = Degree(p) \/ CypherLeaf(l, row) = 2 - Degree(p)
    BY <1>4 DEF CypherLeaf
  <2>2. PICK p : CypherLeaf(l, row) = Degree(p) \/ CypherLeaf(l, row) = 2 - Degree(p)
    BY <2>1
  <2> QED BY <2>2, TwoDegrees
<1>5. CASE l[1] = "flag"
  <2>1. \E p, q, r : CypherLeaf(l, row) = Compared(p, q, r)
    BY <1>5 DEF CypherLeaf
  <2> QED BY <2>1, ThreeDegrees
<1> QED BY <1>1, <1>2, <1>3, <1>4, <1>5, TestKinds

\* Trees whose tests have the same degrees have the same degree.
LEMMA SameConnected ==
  ASSUME NEW c, NEW d, \A l \in Tests : c[l] \in 0..2 /\ d[l] \in 0..2
  PROVE  \A x \in Trees : (\A l \in Leaves(x) : c[l] = d[l]) => Connected(x, c) = Connected(x, d)
<1> DEFINE P == {x \in Trees : (\A l \in Leaves(x) : c[l] = d[l]) => Connected(x, c) = Connected(x, d)}
<1>1. Tests \subseteq P
  <2> SUFFICES ASSUME NEW x \in Tests PROVE x \in P
    OBVIOUS
  <2>1. x \in Trees
    BY TreesGrow, TreeLevels
  <2>2. Leaves(x) = {x} /\ Connected(x, c) = c[x] /\ Connected(x, d) = d[x]
    BY <2>1, LeavesOf, DegreeOf
  <2> QED BY <2>1, <2>2
<1>2. ASSUME NEW x \in Trees, x[1] \in {"and", "or"}, x[2] \in P, x[3] \in P PROVE x \in P
  <2>1. Leaves(x) = Leaves(x[2]) \cup Leaves(x[3])
    BY <1>2, LeavesOf
  <2>2. /\ Connected(x, c) = IF x[1] = "and" THEN Min({Connected(x[2], c), Connected(x[3], c)})
                             ELSE Max({Connected(x[2], c), Connected(x[3], c)})
        /\ Connected(x, d) = IF x[1] = "and" THEN Min({Connected(x[2], d), Connected(x[3], d)})
                             ELSE Max({Connected(x[2], d), Connected(x[3], d)})
    BY <1>2, DegreeOf
  <2> QED BY <1>2, <2>1, <2>2
<1>3. ASSUME NEW x \in Trees, x[1] = "not", x[2] \in P PROVE x \in P
  <2>1. Leaves(x) = Leaves(x[2])
    BY <1>3, LeavesOf
  <2>2. Connected(x, c) = 2 - Connected(x[2], c) /\ Connected(x, d) = 2 - Connected(x[2], d)
    BY <1>3, DegreeOf
  <2> QED BY <1>3, <2>1, <2>2
<1> HIDE DEF P
<1>4. Trees \subseteq P
  BY <1>1, <1>2, <1>3, PartsInduction
<1> QED BY <1>4 DEF P

LEMMA SameAnswer ==
  ASSUME NEW e \in Trees, NEW row, Row(row), NEW b, \A l \in Leaves(e) : Plain(l, b)
  PROVE  Keeps(e, row, b) <=> Matches(e, row)
<1> DEFINE c == [l \in Tests |-> SqlLeaf(l, row, b)]
           d == [l \in Tests |-> CypherLeaf(l, row)]
<1>1. \A l \in Tests : c[l] = SqlLeaf(l, row, b) /\ d[l] = CypherLeaf(l, row)
  OBVIOUS
<1>2. (Keeps(e, row, b) <=> Connected(e, c) = 2) /\ (Matches(e, row) <=> Connected(e, d) = 2)
  BY DEF Keeps, Matches
<1> HIDE DEF c, d
<1>3. \A l \in Tests : c[l] \in 0..2 /\ d[l] \in 0..2
  BY <1>1, SqlDegrees, CypherDegrees
<1>4. Leaves(e) \in SUBSET Tests
  BY LeavesOf
<1>5. ASSUME NEW l \in Leaves(e) PROVE c[l] = d[l]
  <2>1. l \in Tests /\ Plain(l, b)
    BY <1>4
  <2>2. SqlLeaf(l, row, b) = CypherLeaf(l, row)
    BY <2>1, SameTest
  <2> QED BY <1>1, <2>1, <2>2
<1>6. Connected(e, c) = Connected(e, d)
  BY <1>3, <1>5, SameConnected
<1> QED BY <1>2, <1>6

(***************************************************************************)
(* An answer keeps the rows that Cypher keeps, whatever is null in them,   *)
(* whichever wildcards and quotes the filter holds, however long its lists *)
(* are and whichever way they are sent (predicate.py:425).                 *)
(***************************************************************************)
THEOREM CypherRowsKept == Spec => []KeepsWhatCypherKeeps
<1>1. IInv => KeepsWhatCypherKeeps
  <2> SUFFICES ASSUME IInv, stage = "answered", JoinsFirst
               PROVE  /\ where = <<"all">> => kept = Rows
                      /\ where # <<"all">> /\ Straight(where, openjson) =>
                           kept = {r \in Rows : Matches(where, r)}
    BY DEF KeepsWhatCypherKeeps
  <2>1. where \in {<<"all">>} \cup Trees /\ routes \in Seq(Seq(Hops))
    BY Meanings
  <2>2. holes = Holes(where, routes) /\ params = Bound(where, routes)
    BY DEF IInv, Assembled
  <2>3. ~Misbound
    <3>1. \A k \in DOMAIN routes : Orderly(routes[k], where)
      BY DEF JoinsFirst, Orderly
    <3> QED BY <2>1, <2>2, <3>1, QueryBinds DEF Misbound
  <2>4. kept = {r \in Rows : ~Misbound /\ (where # <<"all">> => Keeps(where, r, openjson))}
    BY DEF IInv, Answered
  <2>5. where = <<"all">> => kept = Rows
    BY <2>3, <2>4
  <2>6. ASSUME where # <<"all">>, Straight(where, openjson)
        PROVE  kept = {r \in Rows : Matches(where, r)}
    <3>1. where \in Trees /\ ~Refuses(where) /\ ~Breaks(where, openjson)
      BY <2>1, <2>6 DEF IInv, Answered
    <3>2. ASSUME NEW l \in Leaves(where) PROVE Plain(l, openjson)
      <4>1. ~(l[1] = "like" /\ l[2] = "regex")
        BY <3>1 DEF Refuses
      <4>2. Looks(l) => IsColumn(Operand(l))
        BY <3>1 DEF Breaks
      <4>3. /\ l[1] = "idin" => \A i \in DOMAIN l[2] : l[2][i][2] = Label
            /\ l[1] = "cmp" => ~Backslashed(l[4])
            /\ l[1] = "like" => /\ l[4][1] = "text" /\ Columns[l[3][2]] = "text"
                                /\ Literal(l[4])[2] = Doubled(Meaning(l[4])[2])
            /\ l[1] = "in" => \A i \in DOMAIN l[3] :
                 ~Backslashed(l[3][i]) /\ Sent(Listed(l), openjson)[i] = Literal(l[3][i])
        BY <2>6, Zenon DEF Straight
      <4> QED BY <4>1, <4>2, <4>3, Zenon DEF Plain
    <3>3. ASSUME NEW r \in Rows PROVE Keeps(where, r, openjson) <=> Matches(where, r)
      <4>1. Row(r)
        BY StatementsAssumption DEF Row
      <4> QED BY <3>1, <3>2, <4>1, SameAnswer
    <3> QED BY <2>3, <2>4, <2>6, <3>3
  <2> QED BY <2>5, <2>6
<1> QED BY <1>1, IInvHolds, PTL

-----------------------------------------------------------------------------
(* The parser: each of its recursive functions exists, and goes forward.   *)

Starts == Literals \cup {"prop", "id", "internal_id"}

WordOf(t, j, a) ==
  CASE Word(t, j) = "(" -> Closing(t, a, ")")
    [] Word(t, j) \in Starts -> Got(t[j], j + 1)
    [] Word(t, j) \in Keywords -> Got(<<"var">>, j + 1)
    [] OTHER -> ParseError

LEMMA WordSets == /\ "(" \notin Starts /\ "(" \notin Keywords /\ Starts \cap Keywords = {}
                  /\ "end" \notin Starts /\ "end" \notin Keywords
BY Zenon DEF Starts, Literals, Keywords

LEMMA WordCases ==
  ASSUME NEW t, NEW j, NEW a
  PROVE  /\ Word(t, j) = "(" => WordOf(t, j, a) = Closing(t, a, ")")
         /\ Word(t, j) \in Starts => WordOf(t, j, a) = Got(t[j], j + 1)
         /\ Word(t, j) \in Keywords => WordOf(t, j, a) = Got(<<"var">>, j + 1)
         /\ Word(t, j) # "(" /\ Word(t, j) \notin Starts \cup Keywords => WordOf(t, j, a) = ParseError
<1>1. ASSUME Word(t, j) = "(" PROVE WordOf(t, j, a) = Closing(t, a, ")")
  BY <1>1, WordSets, Zenon DEF WordOf
<1>2. ASSUME Word(t, j) \in Starts PROVE WordOf(t, j, a) = Got(t[j], j + 1)
  BY <1>2, WordSets, Zenon DEF WordOf
<1>3. ASSUME Word(t, j) \in Keywords PROVE WordOf(t, j, a) = Got(<<"var">>, j + 1)
  BY <1>3, WordSets, Zenon DEF WordOf
<1>4. ASSUME Word(t, j) # "(", Word(t, j) \notin Starts \cup Keywords PROVE WordOf(t, j, a) = ParseError
  BY <1>4, Zenon DEF WordOf
<1> QED BY <1>1, <1>2, <1>3, <1>4

LEMMA WordEnds ==
  ASSUME NEW S, NEW t \in Seq(S), NEW j, j \notin 1..Len(t)
  PROVE  Word(t, j) = "end"
BY InList DEF Word

\* An error, or something that ends after i.
Forth(got, i) == got.next \in Nat /\ (got.next = 0 \/ got.next > i)

LEMMA OperandRule ==
  ASSUME NEW S, NEW t \in Seq(S)
  PROVE  \A j \in Nat : OperandAt(t, j) = WordOf(t, j, OperandAt(t, j + 1))
<1> DEFINE n == Len(t)
           V == [tree : ToSet(t) \cup {<<"var">>, <<"error">>}, next : Nat]
           step == [x \in (1..(n + 1)) \X V \X V |-> WordOf(t, x[1], x[2])]
           Fits(f) == f = [j \in Nat |->
             CASE Word(t, j) = "(" -> Closing(t, f[j + 1], ")")
               [] Word(t, j) \in Literals \cup {"prop", "id", "internal_id"} -> Got(t[j], j + 1)
               [] Word(t, j) \in Keywords -> Got(<<"var">>, j + 1)
               [] OTHER -> ParseError]
<1>1. n \in Nat /\ DOMAIN t = 1..n /\ \A j \in 1..n : t[j] \in ToSet(t)
  BY InList
<1>2. ParseError \in V
  BY DEF ParseError, Got
<1>3. ASSUME NEW j \in Nat, NEW a \in V PROVE WordOf(t, j, a) \in V
  <2>1. CASE Word(t, j) = "("
    <3>1. Closing(t, a, ")") \in V
      BY <1>2 DEF Closing, Got
    <3> HIDE DEF V
    <3> QED BY <2>1, <3>1, WordCases
  <2>2. CASE Word(t, j) \in Starts
    <3>1. j \in 1..n
      BY <1>1, <2>2, WordSets DEF Word
    <3>2. Got(t[j], j + 1) \in V
      BY <1>1, <3>1 DEF Got
    <3> HIDE DEF V
    <3> QED BY <2>2, <3>2, WordCases
  <2>3. CASE Word(t, j) \in Keywords
    <3>1. Got(<<"var">>, j + 1) \in V
      BY DEF Got
    <3> HIDE DEF V
    <3> QED BY <2>3, <3>1, WordCases
  <2>4. CASE Word(t, j) # "(" /\ Word(t, j) \notin Starts /\ Word(t, j) \notin Keywords
    <3> HIDE DEF V
    <3> QED BY <1>2, <2>4, WordCases
  <2> QED BY <2>1, <2>2, <2>3, <2>4
<1>4. PlaceSteps(n, V, ParseError, step)
  <2>1. ASSUME NEW j \in 1..(n + 1), NEW a \in V, NEW b \in V PROVE step[<<j, a, b>>] \in V
    <3>1. j \in Nat
      OBVIOUS
    <3>2. step[<<j, a, b>>] = WordOf(t, j, a)
      <4> HIDE DEF V
      <4> QED OBVIOUS
    <3> HIDE DEF V, step
    <3> QED BY <1>3, <3>1, <3>2
  <2> HIDE DEF V, step
  <2> QED BY <1>1, <1>2, <2>1 DEF PlaceSteps
<1>5. PICK f \in [1..(n + 1) -> V] : \A j \in 1..(n + 1) :
        f[j] = step[<<j, Next1(f, j, n, ParseError), Next2(f, j, n, ParseError)>>]
  <2> HIDE DEF V, step
  <2> QED BY <1>4, PlaceRecursion
<1> DEFINE g == [j \in Nat |-> IF j \in 1..(n + 1) THEN f[j] ELSE ParseError]
<1>6. ASSUME NEW j \in Nat PROVE g[j] = WordOf(t, j, g[j + 1])
  <2>1. CASE j \in 1..n
    <3>1. j \in 1..(n + 1) /\ j + 1 \in 1..(n + 1) /\ j <= n /\ (j < n => j + 2 \in 1..(n + 1))
      BY <1>1, <2>1
    <3>2. /\ Next1(f, j, n, ParseError) = f[j + 1] /\ f[j + 1] \in V
          /\ Next2(f, j, n, ParseError) \in V
      <4> HIDE DEF V
      <4> QED BY <1>2, <3>1 DEF Next1, Next2
    <3>3. f[j] = WordOf(t, j, f[j + 1])
      <4> HIDE DEF V
      <4> QED BY <1>5, <3>1, <3>2
    <3> QED BY <3>1, <3>3
  <2>2. CASE j \notin 1..n
    <3>1. Word(t, j) = "end"
      BY <2>2, WordEnds
    <3>2. \A a : WordOf(t, j, a) = ParseError
      BY <3>1, WordSets DEF WordOf
    <3>3. CASE j = n + 1
      <4>1. j \in 1..(n + 1) /\ ~(j <= n) /\ ~(j < n)
        BY <1>1, <3>3
      <4>2. /\ Next1(f, j, n, ParseError) = ParseError
            /\ Next2(f, j, n, ParseError) = ParseError
        BY <4>1 DEF Next1, Next2
      <4>3. f[j] = WordOf(t, j, ParseError)
        <5> HIDE DEF V
        <5> QED BY <1>2, <1>5, <4>1, <4>2
      <4> QED BY <3>2, <4>1, <4>3
    <3>4. CASE j # n + 1
      <4>1. j \notin 1..(n + 1)
        BY <1>1, <2>2, <3>4
      <4> QED BY <3>2, <4>1
    <3> QED BY <3>3, <3>4
  <2> QED BY <2>1, <2>2
<1>7. Fits(g)
  <2>1. g = [j \in Nat |-> g[j]]
    OBVIOUS
  <2> HIDE DEF g
  <2> QED BY <1>6, <2>1 DEF WordOf, Starts
<1>8. ASSUME NEW j \in Nat PROVE OperandAt(t, j) = WordOf(t, j, OperandAt(t, j + 1))
  <2> DEFINE h == CHOOSE h : Fits(h)
  <2>1. OperandAt(t, j) = h[j] /\ OperandAt(t, j + 1) = h[j + 1]
    BY DEF OperandAt
  <2>2. Fits(h)
    <3> HIDE DEF Fits
    <3> QED BY <1>7
  <2> HIDE DEF h
  <2>3. h[j] = WordOf(t, j, h[j + 1])
    BY <2>2 DEF WordOf, Starts
  <2> QED BY <2>1, <2>3
<1> QED BY <1>8

LEMMA OperandForth ==
  ASSUME NEW S, NEW t \in Seq(S)
  PROVE  \A j \in Nat : Forth(OperandAt(t, j), j)
<1> DEFINE n == Len(t)
           Good == {j \in 1..(n + 1) : Forth(OperandAt(t, j), j)}
<1>1. n \in Nat /\ DOMAIN t = 1..n
  BY InList
<1>2. ASSUME NEW j \in Nat, j \notin 1..n PROVE Forth(OperandAt(t, j), j)
  <2>1. Word(t, j) = "end"
    BY <1>2, WordEnds
  <2>2. OperandAt(t, j) = ParseError
    BY <2>1, OperandRule, WordSets DEF WordOf
  <2> QED BY <2>2 DEF ParseError, Got, Forth
<1>3. n + 1 \in Good
  <2>1. n + 1 \in Nat /\ n + 1 \notin 1..n /\ n + 1 \in 1..(n + 1)
    BY <1>1
  <2> QED BY <1>2, <2>1
<1>4. ASSUME NEW j \in 1..n, \A k \in (j + 1)..(n + 1) : k \in Good PROVE j \in Good
  <2>1. j \in Nat /\ j \in 1..(n + 1) /\ j + 1 \in (j + 1)..(n + 1)
    BY <1>1
  <2> DEFINE a == OperandAt(t, j + 1)
  <2>2. Forth(a, j + 1)
    BY <1>4, <2>1
  <2>3. OperandAt(t, j) = WordOf(t, j, a)
    BY <2>1, OperandRule
  <2> HIDE DEF a
  <2>4. CASE Word(t, j) = "("
    <3>1. OperandAt(t, j) = Closing(t, a, ")")
      BY <2>3, <2>4, WordCases
    <3>2. Word(t, a.next) = ")" => a.next # 0
      BY <1>1 DEF Word
    <3>3. Forth(Closing(t, a, ")"), j)
      BY <2>2, <3>2 DEF Forth, Closing, Got, ParseError
    <3> QED BY <2>1, <3>1, <3>3
  <2>5. CASE Word(t, j) # "("
    <3>1. OperandAt(t, j) \in {Got(t[j], j + 1), Got(<<"var">>, j + 1), ParseError}
      BY <2>3, <2>5, WordCases
    <3>2. OperandAt(t, j).next \in {j + 1, 0}
      BY <3>1 DEF Got, ParseError
    <3> QED BY <2>1, <3>2 DEF Forth
  <2> QED BY <2>4, <2>5
<1> HIDE DEF Good
<1>5. \A j \in 1..(n + 1) : j \in Good
  BY <1>1, <1>3, <1>4, Descend
<1>6. ASSUME NEW j \in Nat PROVE Forth(OperandAt(t, j), j)
  <2>1. CASE j \in 1..n
    <3>1. j \in 1..(n + 1)
      BY <1>1, <2>1
    <3> QED BY <1>5, <3>1 DEF Good
  <2> QED BY <1>2, <2>1
<1> QED BY <1>6

\* One element of a list, and what follows its comma.
OneItem(t, j, more) ==
  LET item == OperandAt(t, j)
  IN  IF Word(t, item.next) = "," THEN Got(<<item.tree>> \o more.tree, more.next)
      ELSE Got(<<item.tree>>, item.next)

\* A word that is there comes after i, if its place does not go back.
LEMMA WordForth ==
  ASSUME NEW S, NEW t \in Seq(S), NEW i \in Nat, NEW got, Forth(got, i), Word(t, got.next) # "end"
  PROVE  got.next \in 1..Len(t) /\ got.next > i
<1>1. got.next \in 1..Len(t)
  BY WordEnds
<1> QED BY <1>1 DEF Forth

LEMMA OneItemEnds ==
  ASSUME NEW t, NEW j, NEW more
  PROVE  /\ Word(t, OperandAt(t, j).next) = "," => OneItem(t, j, more).next = more.next
         /\ Word(t, OperandAt(t, j).next) # "," => OneItem(t, j, more).next = OperandAt(t, j).next
BY DEF OneItem, Got

LEMMA ItemsRule ==
  ASSUME NEW S, NEW t \in Seq(S)
  PROVE  \A j \in Nat : ItemsAt(t, j) = OneItem(t, j, ItemsAt(t, OperandAt(t, j).next + 1))
<1> DEFINE n == Len(t)
           After(j) == OperandAt(t, j).next + 1
           From(m, g) == \A j \in Nat : j > n - m => g[j] = OneItem(t, j, g[After(j)])
           Good == {m \in 0..(n + 1) : \E g : DOMAIN g = Nat /\ From(m, g)}
           Fits(f) == f = [j \in Nat |->
             LET item == OperandAt(t, j)
                 rest == f[item.next + 1]
             IN  IF Word(t, item.next) = "," THEN Got(<<item.tree>> \o rest.tree, rest.next)
                 ELSE Got(<<item.tree>>, item.next)]
<1>1. n \in Nat
  BY InList
<1>2. ASSUME NEW j \in Nat, Word(t, OperandAt(t, j).next) = ","
      PROVE  After(j) \in Nat /\ After(j) > j /\ j <= n
  <2>1. OperandAt(t, j).next \in 1..n /\ OperandAt(t, j).next > j
    BY <1>2, OperandForth, WordForth, WordSets
  <2> QED BY <1>1, <2>1
<1> HIDE DEF n
<1>3. ASSUME NEW j \in Nat, NEW a, NEW b, Word(t, OperandAt(t, j).next) # ","
      PROVE  OneItem(t, j, a) = OneItem(t, j, b)
  BY <1>3 DEF OneItem
<1> HIDE DEF After
<1>4. 0 \in Good
  <2> DEFINE g == [j \in Nat |-> OneItem(t, j, ParseError)]
  <2>1. ASSUME NEW j \in Nat, j > n - 0 PROVE g[j] = OneItem(t, j, g[After(j)])
    <3>1. Word(t, OperandAt(t, j).next) # ","
      <4>1. ~(j <= n)
        BY <1>1, <2>1
      <4> QED BY <1>2, <4>1
    <3>2. OneItem(t, j, ParseError) = OneItem(t, j, g[After(j)])
      BY <1>3, <3>1
    <3> QED BY <3>2
  <2>2. DOMAIN g = Nat /\ From(0, g)
    BY <2>1
  <2> HIDE DEF g, From
  <2> QED BY <1>1, <2>2
<1>5. ASSUME NEW m \in 0..n, m \in Good PROVE m + 1 \in Good
  <2>1. PICK g : DOMAIN g = Nat /\ From(m, g)
    BY <1>5
  <2>2. PICK i \in 0..n : i = n - m
    BY <1>1
  <2> DEFINE h == [j \in Nat |-> IF j = i THEN OneItem(t, i, g[After(i)]) ELSE g[j]]
  <2>3. ASSUME NEW j \in Nat, j > n - (m + 1) PROVE h[j] = OneItem(t, j, h[After(j)])
    <3>1. h[j] = OneItem(t, j, g[After(j)])
      BY <1>1, <2>1, <2>2, <2>3
    <3>2. CASE Word(t, OperandAt(t, j).next) = ","
      <4>1. After(j) \in Nat /\ After(j) # i
        <5>1. After(j) \in Nat /\ After(j) > j
          BY <1>2, <3>2
        <5> QED BY <1>1, <2>2, <2>3, <5>1
      <4>2. h[After(j)] = g[After(j)]
        BY <4>1
      <4> QED BY <3>1, <4>2
    <3>3. CASE Word(t, OperandAt(t, j).next) # ","
      <4> HIDE DEF h
      <4> QED BY <1>3, <3>1, <3>3
    <3> QED BY <3>2, <3>3
  <2>4. DOMAIN h = Nat /\ From(m + 1, h)
    BY <2>3
  <2>5. m + 1 \in 0..(n + 1)
    BY <1>1
  <2> HIDE DEF h, From
  <2> QED BY <2>4, <2>5
<1> HIDE DEF Good
<1>6. n + 1 \in Good
  <2> DEFINE top == n + 1
  <2>1. top \in Nat /\ 0..(top - 1) = 0..n
    BY <1>1
  <2> HIDE DEF top
  <2>2. \A m \in 0..(top - 1) : m \in Good => m + 1 \in Good
    BY <1>5, <2>1
  <2>3. \A m \in 0..top : m \in Good
    BY ONLY <2>1, <2>2, <1>4, Climb
  <2> QED BY <2>1, <2>3 DEF top
<1>7. PICK g : DOMAIN g = Nat /\ From(n + 1, g)
  BY <1>6 DEF Good
<1>8. \A j \in Nat : g[j] = OneItem(t, j, g[After(j)])
  BY <1>1, <1>7
<1>9. Fits([j \in Nat |-> g[j]])
  <2> DEFINE f == [j \in Nat |-> g[j]]
  <2>1. \A j \in Nat : f[j] = OneItem(t, j, f[After(j)])
    <3> TAKE j \in Nat
    <3>1. CASE Word(t, OperandAt(t, j).next) = ","
      <4>1. After(j) \in Nat
        BY <1>2, <3>1
      <4> QED BY <1>8, <4>1
    <3>2. CASE Word(t, OperandAt(t, j).next) # ","
      <4>1. f[j] = OneItem(t, j, g[After(j)])
        BY <1>8
      <4> HIDE DEF f
      <4> QED BY <1>3, <3>2, <4>1
    <3> QED BY <3>1, <3>2
  <2>2. f = [j \in Nat |-> OneItem(t, j, f[After(j)])]
    BY <2>1
  <2> HIDE DEF f
  <2>3. Fits(f)
    BY <2>2, Zenon DEF OneItem, After
  <2> QED BY <2>3 DEF f
<1>10. ASSUME NEW j \in Nat PROVE ItemsAt(t, j) = OneItem(t, j, ItemsAt(t, OperandAt(t, j).next + 1))
  <2> DEFINE h == CHOOSE h : Fits(h)
  <2>1. \A k : ItemsAt(t, k) = h[k]
    BY DEF ItemsAt
  <2>2. Fits(h)
    <3> HIDE DEF Fits
    <3> QED BY <1>9
  <2> HIDE DEF h
  <2>3. h[j] = OneItem(t, j, h[OperandAt(t, j).next + 1])
    BY <2>2 DEF OneItem
  <2> HIDE DEF Fits
  <2> QED BY <2>1, <2>3
<1> QED BY <1>10

LEMMA NoOperand ==
  ASSUME NEW S, NEW t \in Seq(S), NEW j \in Nat, j \notin 1..Len(t)
  PROVE  OperandAt(t, j) = ParseError
<1>1. Word(t, j) = "end"
  BY WordEnds
<1> QED BY <1>1, OperandRule, WordCases, WordSets

LEMMA ErrorForth == \A i \in Nat : Forth(ParseError, i)
BY DEF ParseError, Got, Forth

LEMMA ClosingForth ==
  ASSUME NEW S, NEW t \in Seq(S), NEW i \in Nat, NEW got, Forth(got, i), NEW word, word # "end"
  PROVE  Forth(Closing(t, got, word), i)
<1>1. CASE Word(t, got.next) = word
  <2>1. got.next \in Nat /\ got.next > i
    BY <1>1, WordForth
  <2>2. Closing(t, got, word).next = got.next + 1
    BY <1>1 DEF Closing, Got
  <2> QED BY <2>1, <2>2 DEF Forth
<1>2. CASE Word(t, got.next) # word
  BY <1>2, ErrorForth DEF Closing
<1> QED BY <1>1, <1>2

LEMMA ItemsForth ==
  ASSUME NEW S, NEW t \in Seq(S)
  PROVE  \A j \in Nat : Forth(ItemsAt(t, j), j)
<1> DEFINE n == Len(t)
           Good == {j \in 1..(n + 1) : Forth(ItemsAt(t, j), j)}
<1>1. n \in Nat
  BY InList
<1>2. ASSUME NEW j \in Nat, Word(t, OperandAt(t, j).next) # "," PROVE Forth(ItemsAt(t, j), j)
  <2>1. ItemsAt(t, j).next = OperandAt(t, j).next
    <3>1. ItemsAt(t, j) = OneItem(t, j, ItemsAt(t, OperandAt(t, j).next + 1))
      BY ItemsRule
    <3>2. \A more : OneItem(t, j, more).next = OperandAt(t, j).next
      BY <1>2, OneItemEnds
    <3> QED BY <3>1, <3>2
  <2>2. Forth(OperandAt(t, j), j)
    BY OperandForth
  <2> QED BY <2>1, <2>2 DEF Forth
<1>3. ASSUME NEW j \in Nat, j \notin 1..n PROVE Forth(ItemsAt(t, j), j)
  <2>1. OperandAt(t, j).next = 0
    BY <1>3, NoOperand DEF ParseError, Got
  <2>2. Word(t, 0) = "end"
    BY WordEnds
  <2> QED BY <1>2, <2>1, <2>2
<1>4. n + 1 \in Good
  <2>1. n + 1 \in Nat /\ n + 1 \notin 1..n /\ n + 1 \in 1..(n + 1)
    BY <1>1
  <2> QED BY <1>3, <2>1
<1>5. ASSUME NEW j \in 1..n, \A k \in (j + 1)..(n + 1) : k \in Good PROVE j \in Good
  <2>1. j \in Nat /\ j \in 1..(n + 1)
    BY <1>1
  <2> DEFINE k == OperandAt(t, j).next
  <2>2. CASE Word(t, k) = ","
    <3>1. k \in 1..n /\ k > j
      BY <2>1, <2>2, OperandForth, WordForth, WordSets
    <3>2. Forth(ItemsAt(t, k + 1), k + 1)
      BY <1>1, <1>5, <3>1
    <3>3. ItemsAt(t, j).next = ItemsAt(t, k + 1).next
      <4>1. ItemsAt(t, j) = OneItem(t, j, ItemsAt(t, k + 1))
        BY <2>1, ItemsRule
      <4>2. \A more : OneItem(t, j, more).next = more.next
        BY <2>2, OneItemEnds
      <4> QED BY <4>1, <4>2
    <3> HIDE DEF k
    <3>4. Forth(ItemsAt(t, j), j)
      BY <3>1, <3>2, <3>3 DEF Forth
    <3> QED BY <2>1, <3>4
  <2>3. CASE Word(t, k) # ","
    BY <1>2, <2>1, <2>3
  <2> QED BY <2>2, <2>3
<1> HIDE DEF Good
<1>6. \A j \in 1..(n + 1) : j \in Good
  BY <1>1, <1>4, <1>5, Descend
<1>7. ASSUME NEW j \in Nat PROVE Forth(ItemsAt(t, j), j)
  <2>1. CASE j \in 1..n
    <3>1. j \in 1..(n + 1)
      BY <1>1, <2>1
    <3> QED BY <1>6, <3>1 DEF Good
  <2> QED BY <1>3, <2>1
<1> QED BY <1>7

LEMMA Later ==
  ASSUME NEW i \in Nat, NEW k \in Nat, k > i
  PROVE  \A got : Forth(got, k) => Forth(got, i)
BY DEF Forth

LEMMA BracketForth ==
  ASSUME NEW S, NEW t \in Seq(S)
  PROVE  \A i \in Nat : Forth(BracketAt(t, i), i)
<1> TAKE i \in Nat
<1>1. Forth(Closing(t, ItemsAt(t, i + 1), "]"), i + 1)
  <2>1. i + 1 \in Nat /\ Forth(ItemsAt(t, i + 1), i + 1)
    BY ItemsForth
  <2> QED BY <2>1, ClosingForth
<1>2. Forth(Closing(t, ItemsAt(t, i + 1), "]"), i)
  BY <1>1, Later
<1>3. Forth(Got(<<>>, i + 2), i)
  BY DEF Forth, Got
<1> QED BY <1>2, <1>3, ErrorForth DEF BracketAt

LEMMA ListForth ==
  ASSUME NEW S, NEW t \in Seq(S)
  PROVE  \A i \in Nat : Forth(ListAt(t, i), i)
<1> TAKE i \in Nat
<1>1. ASSUME NEW k \in Nat, k > i PROVE Forth(Closing(t, BracketAt(t, k), ")"), i)
  <2>1. Forth(Closing(t, BracketAt(t, k), ")"), k)
    <3>1. Forth(BracketAt(t, k), k)
      BY BracketForth
    <3> QED BY <3>1, ClosingForth
  <2> QED BY <1>1, <2>1, Later
<1>2. Forth(BracketAt(t, i), i)
  BY BracketForth
<1>3. i + 1 \in Nat /\ i + 1 > i /\ i + 2 \in Nat /\ i + 2 > i
  OBVIOUS
<1>4. Forth(Closing(t, BracketAt(t, i + 1), ")"), i) /\ Forth(Closing(t, BracketAt(t, i + 2), ")"), i)
  BY <1>1, <1>3
<1>5. ListAt(t, i) \in {Closing(t, BracketAt(t, i + 1), ")"), Closing(t, BracketAt(t, i + 2), ")"), BracketAt(t, i)}
  BY Zenon DEF ListAt
<1> QED BY <1>2, <1>4, <1>5

\* What may follow an operand, one case at a time.
IsAt(t, left, k) == IF Word(t, k) = "null"
                    THEN Got(<<"isnull", left.tree, k = left.next + 2>>, k + 1) ELSE ParseError

LikeAt(t, left, k) ==
  Got(<<"like", Word(t, left.next), left.tree, OperandAt(t, k).tree>>, OperandAt(t, k).next)

InAt(t, left, k) ==
  IF ListAt(t, k).next = 0 THEN ParseError
  ELSE Got(Membership(left.tree, ListAt(t, k).tree, NotIn(t, left.next)), ListAt(t, k).next)

OpAt(t, left, right) ==
  Got(IF t[left.next][2] = "=~" THEN <<"like", "regex", left.tree, right.tree>>
      ELSE <<"cmp", t[left.next][2], left.tree, right.tree>>, right.next)

AfterIs(t, i) == IF Word(t, i + 1) = "not" THEN i + 2 ELSE i + 1
AfterLike(t, i) == IF Word(t, i) # "contains" /\ Word(t, i + 1) = "with" THEN i + 2 ELSE i + 1
AfterIn(t, i) == IF NotIn(t, i) THEN i + 2 ELSE i + 1

LEMMA TestRule ==
  ASSUME NEW t, NEW left, NEW i, i = left.next
  PROVE  /\ Word(t, i) = "is" => TestAt(t, left) = IsAt(t, left, AfterIs(t, i))
         /\ Word(t, i) \in {"contains", "starts", "ends"} =>
              TestAt(t, left) = LikeAt(t, left, AfterLike(t, i))
         /\ Word(t, i) = "in" \/ NotIn(t, i) => TestAt(t, left) = InAt(t, left, AfterIn(t, i))
         /\ Word(t, i) = "op" => TestAt(t, left) = OpAt(t, left, OperandAt(t, i + 1))
         /\ Word(t, i) \notin {"is", "contains", "starts", "ends", "in", "not", "op"} =>
              TestAt(t, left) = IF left.tree[1] \in {"prop", "var"} THEN Got(<<"flag", left.tree>>, i)
                                ELSE ParseError
         /\ Word(t, i) = "not" /\ ~NotIn(t, i) =>
              TestAt(t, left) = IF left.tree[1] \in {"prop", "var"} THEN Got(<<"flag", left.tree>>, i)
                                ELSE ParseError
<1>1. ASSUME Word(t, i) = "is" PROVE TestAt(t, left) = IsAt(t, left, AfterIs(t, i))
  <2>1. ~NotIn(t, i)
    BY <1>1 DEF NotIn
  <2> QED BY <1>1, <2>1 DEF TestAt, IsAt, AfterIs
<1>2. ASSUME Word(t, i) \in {"contains", "starts", "ends"}
      PROVE  TestAt(t, left) = LikeAt(t, left, AfterLike(t, i))
  <2>1. ~NotIn(t, i)
    BY <1>2 DEF NotIn
  <2> QED BY <1>2, <2>1 DEF TestAt, LikeAt, AfterLike
<1>3. ASSUME Word(t, i) = "in" \/ NotIn(t, i) PROVE TestAt(t, left) = InAt(t, left, AfterIn(t, i))
  <2>1. Word(t, i) \in {"in", "not"}
    BY <1>3 DEF NotIn
  <2> QED BY <1>3, <2>1 DEF TestAt, InAt, AfterIn
<1>4. ASSUME Word(t, i) = "op" PROVE TestAt(t, left) = OpAt(t, left, OperandAt(t, i + 1))
  <2>1. ~NotIn(t, i)
    BY <1>4 DEF NotIn
  <2> QED BY <1>4, <2>1 DEF TestAt, OpAt
<1>5. ASSUME Word(t, i) \notin {"is", "contains", "starts", "ends", "in", "op"}, ~NotIn(t, i)
      PROVE  TestAt(t, left) = IF left.tree[1] \in {"prop", "var"} THEN Got(<<"flag", left.tree>>, i)
                               ELSE ParseError
  BY <1>5 DEF TestAt
<1>6. Word(t, i) # "not" => ~NotIn(t, i)
  BY DEF NotIn
<1> QED BY <1>1, <1>2, <1>3, <1>4, <1>5, <1>6

LEMMA TestForth ==
  ASSUME NEW S, NEW t \in Seq(S), NEW i \in Nat, NEW left, Forth(left, i)
  PROVE  Forth(TestAt(t, left), i)
<1> DEFINE j == left.next
<1>0. j \in Nat /\ (j = 0 \/ j > i)
  BY DEF Forth
<1>1. CASE Word(t, j) \in {"is", "contains", "starts", "ends", "in", "op"} \/ NotIn(t, j)
  <2>1. Word(t, j) # "end"
    BY <1>1 DEF NotIn
  <2>2. j > i
    BY <2>1, WordForth
  <2>3. CASE Word(t, j) = "is"
    <3>1. TestAt(t, left) = IsAt(t, left, AfterIs(t, j))
      BY <2>3, TestRule
    <3>2. AfterIs(t, j) \in {j + 1, j + 2}
      BY DEF AfterIs
    <3>3. IsAt(t, left, AfterIs(t, j)).next \in {0, AfterIs(t, j) + 1}
      BY DEF IsAt, Got, ParseError
    <3> QED BY <1>0, <2>2, <3>1, <3>2, <3>3 DEF Forth
  <2>4. CASE Word(t, j) \in {"contains", "starts", "ends"}
    <3> DEFINE k == AfterLike(t, j)
    <3>1. TestAt(t, left) = LikeAt(t, left, k)
      BY <2>4, TestRule
    <3>2. k \in {j + 1, j + 2}
      BY DEF AfterLike
    <3>3. TestAt(t, left).next = OperandAt(t, k).next
      BY <3>1 DEF LikeAt, Got
    <3> HIDE DEF k
    <3>4. k \in Nat /\ k > i
      BY <1>0, <2>2, <3>2
    <3>5. Forth(OperandAt(t, k), k)
      BY <3>4, OperandForth
    <3> QED BY <3>3, <3>4, <3>5 DEF Forth
  <2>5. CASE Word(t, j) = "in" \/ NotIn(t, j)
    <3> DEFINE k == AfterIn(t, j)
    <3>1. TestAt(t, left) = InAt(t, left, k)
      BY <2>5, TestRule
    <3>2. k \in {j + 1, j + 2}
      BY DEF AfterIn
    <3>3. TestAt(t, left).next \in {0, ListAt(t, k).next}
      BY <3>1 DEF InAt, Got, ParseError
    <3> HIDE DEF k
    <3>4. k \in Nat /\ k > i
      BY <1>0, <2>2, <3>2
    <3>5. Forth(ListAt(t, k), k)
      BY <3>4, ListForth
    <3> QED BY <3>3, <3>4, <3>5 DEF Forth
  <2>6. CASE Word(t, j) = "op"
    <3> DEFINE k == j + 1
    <3>1. TestAt(t, left) = OpAt(t, left, OperandAt(t, k))
      BY <2>6, TestRule
    <3>3. TestAt(t, left).next = OperandAt(t, k).next
      BY <3>1 DEF OpAt, Got
    <3>4. k \in Nat /\ k > i
      BY <1>0, <2>2
    <3> HIDE DEF k
    <3>5. Forth(OperandAt(t, k), k)
      BY <3>4, OperandForth
    <3> QED BY <3>3, <3>4, <3>5 DEF Forth
  <2> QED BY <1>1, <2>3, <2>4, <2>5, <2>6
<1>2. CASE Word(t, j) \notin {"is", "contains", "starts", "ends", "in", "op"} /\ ~NotIn(t, j)
  <2>1. TestAt(t, left) = IF left.tree[1] \in {"prop", "var"} THEN Got(<<"flag", left.tree>>, j)
                          ELSE ParseError
    BY <1>2, TestRule
  <2>2. TestAt(t, left).next \in {0, j}
    BY <2>1 DEF Got, ParseError
  <2> QED BY <1>0, <2>2 DEF Forth
<1> QED BY <1>1, <1>2

-----------------------------------------------------------------------------
(* The rules for OR, AND and NOT: whatever the text, there is a function   *)
(* that follows them.                                                      *)

Rules == {"or", "and", "not"}
Under1(word) == IF word = "or" THEN "and" ELSE "not"

Ruled(t, at, i) ==
  /\ at[<<i, "not">>] = NotAt(t, at, i)
  /\ at[<<i, "and">>] = JoinedAt(t, at, i, "and")
  /\ at[<<i, "or">>] = JoinedAt(t, at, i, "or")

Reads(t, at) == \A i \in Nat : Ruled(t, at, i)

LEMMA JoinedRule ==
  ASSUME NEW t, NEW at, NEW i, NEW word \in {"and", "or"}, NEW left, NEW right,
         left = at[<<i, Under1(word)>>], right = at[<<left.next + 1, word>>]
  PROVE  JoinedAt(t, at, i, word) = IF Word(t, left.next) = word
                                    THEN Got(<<word, left.tree, right.tree>>, right.next)
                                    ELSE left
BY DEF JoinedAt, Under1

LEMMA NotRule ==
  ASSUME NEW t, NEW at, NEW i
  PROVE  /\ Word(t, i) = "not" /\ Word(t, i + 1) # "in" =>
              NotAt(t, at, i) = Got(<<"not", at[<<i + 1, "not">>].tree>>, at[<<i + 1, "not">>].next)
         /\ Word(t, i) = "(" => NotAt(t, at, i) = Closing(t, at[<<i + 1, "or">>], ")")
         /\ Word(t, i) \notin {"not", "("} => NotAt(t, at, i) = TestAt(t, OperandAt(t, i))
         /\ Word(t, i) = "not" /\ Word(t, i + 1) = "in" => NotAt(t, at, i) = TestAt(t, OperandAt(t, i))
<1>1. NotIn(t, i) <=> Word(t, i) = "not" /\ Word(t, i + 1) = "in"
  BY DEF NotIn
<1>2. ASSUME Word(t, i) = "not", Word(t, i + 1) # "in"
      PROVE  NotAt(t, at, i) = Got(<<"not", at[<<i + 1, "not">>].tree>>, at[<<i + 1, "not">>].next)
  BY <1>1, <1>2 DEF NotAt
<1>3. ASSUME ~(Word(t, i) = "not" /\ Word(t, i + 1) # "in") PROVE NotAt(t, at, i) = PredicateAt(t, at, i)
  BY <1>1, <1>3 DEF NotAt
<1>4. ASSUME Word(t, i) = "(" PROVE PredicateAt(t, at, i) = Closing(t, at[<<i + 1, "or">>], ")")
  BY <1>4 DEF PredicateAt
<1>5. ASSUME Word(t, i) # "(" PROVE PredicateAt(t, at, i) = TestAt(t, OperandAt(t, i))
  BY <1>5 DEF PredicateAt
<1>6. CASE Word(t, i) = "("
  <2>1. Word(t, i) # "not"
    BY <1>6
  <2> QED BY <1>3, <1>4, <1>6, <2>1
<1>7. CASE Word(t, i) # "("
  BY <1>2, <1>3, <1>5, <1>7
<1> QED BY <1>6, <1>7

LEMMA NotForth ==
  ASSUME NEW S, NEW t \in Seq(S), NEW at, NEW i \in Nat, NEW k \in Nat, k = i + 1,
         Forth(at[<<k, "or">>], k), Forth(at[<<k, "not">>], k)
  PROVE  Forth(NotAt(t, at, i), i)
<1>1. Forth(TestAt(t, OperandAt(t, i)), i)
  BY OperandForth, TestForth
<1>2. Forth(Closing(t, at[<<k, "or">>], ")"), i)
  <2>1. Forth(Closing(t, at[<<k, "or">>], ")"), k)
    BY ClosingForth
  <2> QED BY <2>1, Later
<1>3. Forth(Got(<<"not", at[<<k, "not">>].tree>>, at[<<k, "not">>].next), i)
  BY DEF Forth, Got
<1>4. NotAt(t, at, i) \in {TestAt(t, OperandAt(t, i)), Closing(t, at[<<k, "or">>], ")"),
                          Got(<<"not", at[<<k, "not">>].tree>>, at[<<k, "not">>].next)}
  BY NotRule
<1> QED BY <1>1, <1>2, <1>3, <1>4

LEMMA JoinedForth ==
  ASSUME NEW S, NEW t \in Seq(S), NEW at, NEW i \in Nat, NEW word \in {"and", "or"},
         Forth(at[<<i, Under1(word)>>], i),
         \A k \in Nat : k > i => Forth(at[<<k, word>>], k)
  PROVE  Forth(JoinedAt(t, at, i, word), i)
<1> DEFINE left == at[<<i, Under1(word)>>]
           k == left.next + 1
<1>0. JoinedAt(t, at, i, word) = IF Word(t, left.next) = word
                                 THEN Got(<<word, left.tree, at[<<k, word>>].tree>>, at[<<k, word>>].next)
                                 ELSE left
  BY DEF JoinedAt, Under1
<1>1. CASE Word(t, left.next) = word
  <2>1. word # "end"
    OBVIOUS
  <2>2. left.next \in 1..Len(t) /\ left.next > i
    BY <1>1, <2>1, WordForth
  <2>3. k \in Nat /\ k > i
    BY <2>2
  <2>4. JoinedAt(t, at, i, word) = Got(<<word, left.tree, at[<<k, word>>].tree>>, at[<<k, word>>].next)
    BY <1>1, <1>0
  <2> HIDE DEF k, left
  <2>5. Forth(at[<<k, word>>], k)
    BY <2>3
  <2> QED BY <2>3, <2>4, <2>5 DEF Forth, Got
<1>2. CASE Word(t, left.next) # word
  BY <1>2, <1>0
<1> QED BY <1>1, <1>2

LEMMA SameJoined ==
  ASSUME NEW S, NEW t \in Seq(S), NEW g, NEW h, NEW i \in Nat, NEW word \in {"and", "or"},
         Forth(g[<<i, Under1(word)>>], i), g[<<i, Under1(word)>>] = h[<<i, Under1(word)>>],
         \A k \in Nat : k > i => g[<<k, word>>] = h[<<k, word>>]
  PROVE  JoinedAt(t, g, i, word) = JoinedAt(t, h, i, word)
<1> DEFINE left == g[<<i, Under1(word)>>]
           k == left.next + 1
<1>0. /\ JoinedAt(t, g, i, word) = IF Word(t, left.next) = word
                                   THEN Got(<<word, left.tree, g[<<k, word>>].tree>>, g[<<k, word>>].next)
                                   ELSE left
      /\ JoinedAt(t, h, i, word) = IF Word(t, left.next) = word
                                   THEN Got(<<word, left.tree, h[<<k, word>>].tree>>, h[<<k, word>>].next)
                                   ELSE left
  BY DEF JoinedAt, Under1
<1>1. CASE Word(t, left.next) = word
  <2>1. word # "end"
    OBVIOUS
  <2>2. left.next \in 1..Len(t) /\ left.next > i
    BY <1>1, <2>1, WordForth
  <2>3. k \in Nat /\ k > i
    BY <2>2
  <2>4. /\ JoinedAt(t, g, i, word) = Got(<<word, left.tree, g[<<k, word>>].tree>>, g[<<k, word>>].next)
        /\ JoinedAt(t, h, i, word) = Got(<<word, left.tree, h[<<k, word>>].tree>>, h[<<k, word>>].next)
    BY <1>1, <1>0
  <2> HIDE DEF k, left
  <2>5. g[<<k, word>>] = h[<<k, word>>]
    BY <2>3
  <2> QED BY <2>4, <2>5
<1>2. CASE Word(t, left.next) # word
  BY <1>2, <1>0
<1> QED BY <1>1, <1>2

LEMMA SameNot ==
  ASSUME NEW t, NEW g, NEW h, NEW i, g[<<i + 1, "or">>] = h[<<i + 1, "or">>],
         g[<<i + 1, "not">>] = h[<<i + 1, "not">>]
  PROVE  NotAt(t, g, i) = NotAt(t, h, i)
BY DEF NotAt, PredicateAt

LEMMA SameRules ==
  ASSUME NEW S, NEW t \in Seq(S), NEW g, NEW h, NEW i \in Nat,
         \A k \in Nat : k >= i => \A w \in Rules : g[<<k, w>>] = h[<<k, w>>],
         \A w \in Rules : Forth(g[<<i, w>>], i), Ruled(t, g, i)
  PROVE  Ruled(t, h, i)
<1>1. i + 1 \in Nat /\ i + 1 >= i /\ i >= i
  OBVIOUS
<1>2. \A w \in Rules : g[<<i, w>>] = h[<<i, w>>] /\ g[<<i + 1, w>>] = h[<<i + 1, w>>]
  BY <1>1
<1>3. NotAt(t, g, i) = NotAt(t, h, i)
  BY <1>2, SameNot DEF Rules
<1>4. ASSUME NEW word \in {"and", "or"} PROVE JoinedAt(t, g, i, word) = JoinedAt(t, h, i, word)
  <2>1. Under1(word) \in Rules /\ word \in Rules
    BY DEF Under1, Rules
  <2>2. \A k \in Nat : k > i => g[<<k, word>>] = h[<<k, word>>]
    BY <2>1
  <2> QED BY <1>2, <2>1, <2>2, SameJoined
<1>5. {"or", "and", "not"} \subseteq Rules
  BY DEF Rules
<1> QED BY <1>2, <1>3, <1>4, <1>5 DEF Ruled

LEMMA RulesFollowed ==
  ASSUME NEW S, NEW t \in Seq(S)
  PROVE  \E at : at = [p \in Nat \X Rules |-> at[p]] /\ Reads(t, at)
<1> DEFINE n == Len(t)
           D == Nat \X Rules
           Fine(g, i) == Ruled(t, g, i) /\ \A w \in Rules : Forth(g[<<i, w>>], i)
           From(m, g) == g = [p \in D |-> g[p]] /\ \A i \in Nat : i > n - m => Fine(g, i)
           Good == {m \in 0..(n + 1) : \E g : From(m, g)}
<1>1. n \in Nat /\ "or" \in Rules /\ "and" \in Rules /\ "not" \in Rules
  BY InList DEF Rules
<1>2. 0 \in Good
  <2> DEFINE v(i) == TestAt(t, OperandAt(t, i))
             g == [p \in D |-> v(p[1])]
  <2>1. ASSUME NEW i \in Nat, i > n PROVE Fine(g, i)
    <3>1. \A w \in Rules : g[<<i, w>>] = v(i)
      OBVIOUS
    <3>2. Forth(v(i), i)
      BY OperandForth, TestForth
    <3> HIDE DEF g
    <3>3. Word(t, i) = "end"
      BY <1>1, <2>1, WordEnds
    <3>4. NotAt(t, g, i) = v(i)
      BY <3>3, NotRule
    <3>5. Word(t, v(i).next) = "end"
      <4>1. v(i).next \notin 1..n
        BY <1>1, <2>1, <3>2 DEF Forth
      <4> QED BY <4>1, WordEnds
    <3> HIDE DEF v
    <3>6. ASSUME NEW word \in {"and", "or"} PROVE JoinedAt(t, g, i, word) = v(i)
      <4>1. g[<<i, Under1(word)>>] = v(i)
        BY <1>1, <3>1 DEF Under1
      <4> QED BY <3>5, <4>1, JoinedRule
    <3> QED BY <1>1, <3>1, <3>2, <3>4, <3>6 DEF Ruled
  <2>2. g = [p \in D |-> g[p]]
    OBVIOUS
  <2> HIDE DEF g, Fine
  <2>3. From(0, g)
    <3>1. n - 0 = n
      BY <1>1
    <3> QED BY <2>1, <2>2, <3>1
  <2> HIDE DEF From
  <2> QED BY <1>1, <2>3
<1>3. ASSUME NEW m \in 0..n, m \in Good PROVE m + 1 \in Good
  <2>1. PICK g : From(m, g)
    BY <1>3
  <2>2. PICK i \in 0..n : i = n - m
    BY <1>1
  <2> DEFINE h1 == [p \in D |-> IF p = <<i, "not">> THEN NotAt(t, g, i) ELSE g[p]]
             h2 == [p \in D |-> IF p = <<i, "and">> THEN JoinedAt(t, h1, i, "and") ELSE h1[p]]
             h == [p \in D |-> IF p = <<i, "or">> THEN JoinedAt(t, h2, i, "or") ELSE h2[p]]
  <2>3. i \in Nat /\ i + 1 \in Nat /\ i + 1 > i
    BY <1>1
  <2>4. /\ \A k \in Nat : k > i => \A w \in Rules : h1[<<k, w>>] = g[<<k, w>>]
        /\ h1[<<i, "not">>] = NotAt(t, g, i)
    BY <1>1, <2>3
  <2>5. /\ \A k \in Nat : k > i => \A w \in Rules : h2[<<k, w>>] = g[<<k, w>>]
        /\ h2[<<i, "not">>] = NotAt(t, g, i)
        /\ h2[<<i, "and">>] = JoinedAt(t, h1, i, "and")
    <3> HIDE DEF h1
    <3> QED BY <1>1, <2>3, <2>4
  <2>6. /\ \A k \in Nat : k > i => \A w \in Rules : h[<<k, w>>] = g[<<k, w>>]
        /\ h[<<i, "not">>] = NotAt(t, g, i)
        /\ h[<<i, "and">>] = JoinedAt(t, h1, i, "and")
        /\ h[<<i, "or">>] = JoinedAt(t, h2, i, "or")
        /\ h = [p \in D |-> h[p]]
    <3> HIDE DEF h2
    <3> QED BY <1>1, <2>3, <2>5
  <2> HIDE DEF h, h1, h2
  <2>7. \A k \in Nat : k > i => Fine(g, k)
    BY <2>1, <2>2
  <2>8. \A k \in Nat : k > i => \A w \in Rules : Forth(h[<<k, w>>], k) /\ Forth(h1[<<k, w>>], k)
                                                /\ Forth(h2[<<k, w>>], k)
    BY <2>4, <2>5, <2>6, <2>7
  <2>9. Forth(h[<<i, "not">>], i) /\ h[<<i, "not">>] = NotAt(t, h, i)
    <3>1. Forth(NotAt(t, g, i), i)
      <4>1. Forth(g[<<i + 1, "or">>], i + 1) /\ Forth(g[<<i + 1, "not">>], i + 1)
        BY <1>1, <2>3, <2>7
      <4> QED BY <2>3, <4>1, NotForth
    <3>2. NotAt(t, g, i) = NotAt(t, h, i)
      <4>1. h[<<i + 1, "or">>] = g[<<i + 1, "or">>] /\ h[<<i + 1, "not">>] = g[<<i + 1, "not">>]
        BY <1>1, <2>3, <2>6
      <4> QED BY <4>1, SameNot
    <3> QED BY <2>6, <3>1, <3>2
  <2>10. Forth(h[<<i, "and">>], i) /\ h[<<i, "and">>] = JoinedAt(t, h, i, "and")
    <3>1. Under1("and") = "not"
      BY DEF Under1
    <3>2. h1[<<i, "not">>] = h[<<i, "not">>]
      BY <2>4, <2>6
    <3>3. \A k \in Nat : k > i => h1[<<k, "and">>] = h[<<k, "and">>] /\ Forth(h1[<<k, "and">>], k)
      BY <1>1, <2>4, <2>6, <2>8
    <3>4. Forth(JoinedAt(t, h1, i, "and"), i)
      BY <2>3, <2>9, <3>1, <3>2, <3>3, JoinedForth
    <3>5. JoinedAt(t, h1, i, "and") = JoinedAt(t, h, i, "and")
      <4>1. /\ Forth(h1[<<i, Under1("and")>>], i)
            /\ h1[<<i, Under1("and")>>] = h[<<i, Under1("and")>>]
            /\ \A k \in Nat : k > i => h1[<<k, "and">>] = h[<<k, "and">>]
        BY <2>9, <3>1, <3>2, <3>3
      <4> QED BY <2>3, <4>1, SameJoined
    <3> QED BY <2>6, <3>4, <3>5
  <2>11. Forth(h[<<i, "or">>], i) /\ h[<<i, "or">>] = JoinedAt(t, h, i, "or")
    <3>1. Under1("or") = "and"
      BY DEF Under1
    <3>2. h2[<<i, "and">>] = h[<<i, "and">>]
      BY <2>5, <2>6
    <3>3. \A k \in Nat : k > i => h2[<<k, "or">>] = h[<<k, "or">>] /\ Forth(h2[<<k, "or">>], k)
      BY <1>1, <2>5, <2>6, <2>8
    <3>4. Forth(JoinedAt(t, h2, i, "or"), i)
      BY <2>3, <2>10, <3>1, <3>2, <3>3, JoinedForth
    <3>5. JoinedAt(t, h2, i, "or") = JoinedAt(t, h, i, "or")
      <4>1. /\ Forth(h2[<<i, Under1("or")>>], i)
            /\ h2[<<i, Under1("or")>>] = h[<<i, Under1("or")>>]
            /\ \A k \in Nat : k > i => h2[<<k, "or">>] = h[<<k, "or">>]
        BY <2>10, <3>1, <3>2, <3>3
      <4> QED BY <2>3, <4>1, SameJoined
    <3> QED BY <2>6, <3>4, <3>5
  <2>12. ASSUME NEW k \in Nat, k > n - (m + 1) PROVE Fine(h, k)
    <3>1. CASE k = i
      BY <2>9, <2>10, <2>11, <3>1 DEF Ruled, Rules
    <3>2. CASE k # i
      <4>1. k > i
        BY <1>1, <2>2, <2>12, <3>2
      <4>2. \A j \in Nat : j >= k => \A w \in Rules : g[<<j, w>>] = h[<<j, w>>]
        <5> TAKE j \in Nat
        <5> HAVE j >= k
        <5>1. j > i
          BY <1>1, <4>1
        <5> QED BY <2>6, <5>1
      <4>3. Fine(g, k)
        BY <2>7, <4>1
      <4>4. Ruled(t, h, k)
        BY <4>2, <4>3, SameRules
      <4> QED BY <2>8, <4>1, <4>4
    <3> QED BY <3>1, <3>2
  <2>13. m + 1 \in 0..(n + 1)
    BY <1>1
  <2> HIDE DEF Fine
  <2>14. From(m + 1, h)
    BY <2>6, <2>12
  <2> HIDE DEF From
  <2> QED BY <2>13, <2>14
<1> HIDE DEF Good
<1>4. n + 1 \in Good
  <2> DEFINE top == n + 1
  <2>1. top \in Nat /\ 0..(top - 1) = 0..n
    BY <1>1
  <2> HIDE DEF top
  <2>2. \A m \in 0..(top - 1) : m \in Good => m + 1 \in Good
    BY <1>3, <2>1
  <2>3. \A m \in 0..top : m \in Good
    BY ONLY <2>1, <2>2, <1>2, Climb
  <2> QED BY <2>1, <2>3 DEF top
<1>5. PICK g : From(n + 1, g)
  BY <1>4 DEF Good
<1>6. \A i \in Nat : i > n - (n + 1)
  BY <1>1
<1> QED BY <1>5, <1>6 DEF Reads

LEMMA ParseRules ==
  ASSUME NEW S, NEW t \in Seq(S)
  PROVE  \E at : /\ Reads(t, at)
                 /\ Parse(t) = IF at[<<1, "or">>].next = Len(t) + 1 THEN at[<<1, "or">>].tree
                               ELSE <<"error">>
<1> DEFINE Fits(at) == at = [p \in Nat \X {"or", "and", "not"} |->
             IF p[2] = "not" THEN NotAt(t, at, p[1]) ELSE JoinedAt(t, at, p[1], p[2])]
<1>1. PICK g : g = [p \in Nat \X Rules |-> g[p]] /\ Reads(t, g)
  BY RulesFollowed
<1>2. Fits(g)
  <2>1. ASSUME NEW p \in Nat \X {"or", "and", "not"}
        PROVE  g[p] = IF p[2] = "not" THEN NotAt(t, g, p[1]) ELSE JoinedAt(t, g, p[1], p[2])
    <3>1. p = <<p[1], p[2]>> /\ p[1] \in Nat /\ p[2] \in {"or", "and", "not"}
      OBVIOUS
    <3> QED BY <1>1, <3>1 DEF Reads, Ruled
  <2>2. g = [p \in Nat \X {"or", "and", "not"} |-> g[p]]
    BY <1>1 DEF Rules
  <2> QED BY <2>1, <2>2
<1> DEFINE at == CHOOSE at : Fits(at)
<1>3. Parse(t) = IF at[<<1, "or">>].next = Len(t) + 1 THEN at[<<1, "or">>].tree ELSE <<"error">>
  BY DEF Parse
<1>4. Fits(at)
  <2> HIDE DEF Fits
  <2> QED BY <1>2
<1> HIDE DEF at
<1>5. Reads(t, at)
  <2> SUFFICES ASSUME NEW i \in Nat PROVE Ruled(t, at, i)
    BY DEF Reads
  <2>1. \A w \in {"or", "and", "not"} : <<i, w>> \in Nat \X {"or", "and", "not"}
    OBVIOUS
  <2>2. \A w \in {"or", "and", "not"} :
          at[<<i, w>>] = IF w = "not" THEN NotAt(t, at, i) ELSE JoinedAt(t, at, i, w)
    BY <1>4, <2>1
  <2> QED BY <2>2 DEF Ruled
<1> QED BY <1>3, <1>5

-----------------------------------------------------------------------------
(* How a tree is written.                                                  *)

Words == {"and", "or", "not", "in", "is", "null", "with", "contains", "starts", "ends",
          "(", ")", "[", "]", ","}
Tokens == Operands \cup ({"op"} \X (Comparisons \cup {"=~"})) \cup {<<w>> : w \in Words}

LEMMA SomeTokens ==
  /\ Operands \subseteq Tokens /\ InternalIds \subseteq Operands
  /\ \A w \in Words : <<w>> \in Tokens
  /\ \A c \in Comparisons \cup {"=~"} : <<"op", c>> \in Tokens
BY DEF Tokens, Operands

LEMMA CommasOf ==
  ASSUME NEW items \in Seq(Operands), NEW n \in Nat, n = Len(items), NEW m \in Nat,
         m = IF n = 0 THEN 0 ELSE 2 * n - 1
  PROVE  /\ Commas(items) \in Seq(Tokens) /\ Len(Commas(items)) = m
         /\ \A k \in 1..n : 2 * k - 1 \in 1..m /\ Commas(items)[2 * k - 1] = items[k]
         /\ \A k \in 1..(n - 1) : 2 * k \in 1..m /\ Commas(items)[2 * k] = <<",">>
<1> DEFINE c == [k \in 1..m |-> IF k % 2 = 1 THEN items[(k + 1) \div 2] ELSE <<",">>]
<1>1. DOMAIN items = 1..n /\ \A k \in 1..n : items[k] \in Operands
  BY InList
<1>2. 1..(2 * n - 1) = 1..m
  OBVIOUS
<1>3. Commas(items) = c
  BY <1>2 DEF Commas
<1>4. ASSUME NEW k \in 1..m PROVE c[k] \in Tokens
  <2>1. CASE k % 2 = 1
    <3>1. (k + 1) \div 2 \in 1..n
      BY <2>1
    <3>2. items[(k + 1) \div 2] \in Tokens
      BY <1>1, <3>1, SomeTokens
    <3> QED BY <2>1, <3>2
  <2>2. CASE k % 2 # 1
    <3>1. <<",">> \in Tokens
      BY SomeTokens DEF Words
    <3> QED BY <2>2, <3>1
  <2> QED BY <2>1, <2>2
<1>5. c \in [1..m -> Tokens]
  BY <1>4
<1>6. c \in Seq(Tokens) /\ Len(c) = m
  <2> HIDE DEF c
  <2>1. c \in Seq(Tokens)
    BY <1>5, IsASeq
  <2> QED BY <1>5, <2>1, LenProperties
<1>7. ASSUME NEW k \in 1..n PROVE 2 * k - 1 \in 1..m /\ c[2 * k - 1] = items[k]
  <2>1. 2 * k - 1 \in 1..m /\ (2 * k - 1) % 2 = 1 /\ ((2 * k - 1) + 1) \div 2 = k
    OBVIOUS
  <2> QED BY <2>1
<1>8. ASSUME NEW k \in 1..(n - 1) PROVE 2 * k \in 1..m /\ c[2 * k] = <<",">>
  <2>1. 2 * k \in 1..m /\ (2 * k) % 2 = 0 /\ (2 * k) % 2 # 1
    OBVIOUS
  <2> QED BY <2>1
<1> HIDE DEF c
<1> QED BY <1>3, <1>6, <1>7, <1>8

NotWord(negated) == IF negated THEN <<<<"not">>>> ELSE <<>>

LEMMA NotWords ==
  ASSUME NEW b \in BOOLEAN
  PROVE  NotWord(b) \in Seq(Tokens) /\ Len(NotWord(b)) = (IF b THEN 1 ELSE 0)
<1>1. <<"not">> \in Tokens
  BY SomeTokens DEF Words
<1>2. <<<<"not">>>> \in Seq(Tokens) /\ <<>> \in Seq(Tokens)
  BY <1>1, EmptyList
<1> QED BY <1>2 DEF NotWord

LEMMA InWrites ==
  ASSUME NEW o \in Operands, NEW items \in Seq(Operands), NEW b \in BOOLEAN
  PROVE  \E w1, w2, w3, w4 \in Seq(Tokens) :
           /\ w1 = <<o>> \o NotWord(b) /\ w2 = w1 \o <<<<"in">>, <<"[">>>>
           /\ w3 = w2 \o Commas(items) /\ w4 = w3 \o <<<<"]">>>>
           /\ InWritten(o, items, b) = w4
<1>1. <<o>> \in Seq(Tokens) /\ <<<<"in">>, <<"[">>>> \in Seq(Tokens) /\ <<<<"]">>>> \in Seq(Tokens)
  <2>1. o \in Tokens /\ <<"in">> \in Tokens /\ <<"[">> \in Tokens /\ <<"]">> \in Tokens
    BY SomeTokens DEF Words
  <2> QED BY <2>1
<1>2. Commas(items) \in Seq(Tokens)
  <2>1. PICK n \in Nat : n = Len(items)
    OBVIOUS
  <2>2. PICK m \in Nat : m = IF n = 0 THEN 0 ELSE 2 * n - 1
    OBVIOUS
  <2> QED BY <2>1, <2>2, CommasOf
<1>3. NotWord(b) \in Seq(Tokens)
  BY NotWords
<1>4. PICK w1 \in Seq(Tokens) : w1 = <<o>> \o NotWord(b)
  BY <1>1, <1>3, InBoth
<1>5. PICK w2 \in Seq(Tokens) : w2 = w1 \o <<<<"in">>, <<"[">>>>
  BY <1>1, InBoth
<1>6. PICK w3 \in Seq(Tokens) : w3 = w2 \o Commas(items)
  BY <1>2, InBoth
<1>7. PICK w4 \in Seq(Tokens) : w4 = w3 \o <<<<"]">>>>
  BY <1>1, InBoth
<1>8. InWritten(o, items, b) = w4
  BY <1>4, <1>5, <1>6, <1>7 DEF InWritten, NotWord
<1> QED BY <1>4, <1>5, <1>6, <1>7, <1>8

LEMMA InTokens ==
  ASSUME NEW o \in Operands, NEW items \in Seq(Operands), NEW b \in BOOLEAN
  PROVE  InWritten(o, items, b) \in Seq(Tokens)
<1>1. PICK w1, w2, w3, w4 \in Seq(Tokens) : InWritten(o, items, b) = w4
  BY InWrites
<1> QED BY <1>1

\* The parts of a test, by its kind.
LEMMA TestForms ==
  ASSUME NEW l \in Tests
  PROVE  /\ l[1] = "cmp" => /\ l = <<"cmp", l[2], l[3], l[4]>> /\ l[2] \in Comparisons
                            /\ l[3] \in Operands /\ l[4] \in Operands
         /\ l[1] = "like" => /\ l = <<"like", l[2], l[3], l[4]>>
                             /\ l[2] \in {"contains", "starts", "ends", "regex"}
                             /\ l[3] \in Operands /\ l[4] \in Operands
         /\ l[1] = "in" => /\ l = <<"in", l[2], l[3], l[4]>> /\ l[2] \in Operands
                           /\ l[3] \in Seq(Operands) /\ l[4] \in BOOLEAN
         /\ l[1] = "idin" => /\ l = <<"idin", l[2], l[3]>> /\ l[2] \in Seq(InternalIds)
                             /\ l[2] \in Seq(Operands) /\ l[3] \in BOOLEAN
         /\ l[1] = "isnull" => /\ l = <<"isnull", l[2], l[3]>> /\ l[2] \in Operands
                               /\ l[3] \in BOOLEAN
         /\ l[1] = "flag" => l = <<"flag", l[2]>> /\ l[2] \in Operands
<1>1. InternalIds \subseteq Operands
  BY SomeTokens
<1>2. \A s \in Seq(InternalIds) : s \in Seq(Operands)
  BY <1>1
<1> QED BY <1>2 DEF Tests

LEMMA TestWrites ==
  ASSUME NEW l \in Tests
  PROVE  /\ l[1] = "cmp" => TestWritten(l) = <<l[3], <<"op", l[2]>>, l[4]>>
         /\ l[1] = "like" /\ l[2] = "regex" => TestWritten(l) = <<l[3], <<"op", "=~">>, l[4]>>
         /\ l[1] = "like" /\ l[2] = "contains" => TestWritten(l) = <<l[3], <<"contains">>, l[4]>>
         /\ l[1] = "like" /\ l[2] \in {"starts", "ends"} =>
              TestWritten(l) = <<l[3], <<l[2]>>, <<"with">>, l[4]>>
         /\ l[1] = "in" => TestWritten(l) = InWritten(l[2], l[3], l[4])
         /\ l[1] = "idin" => TestWritten(l) = InWritten(<<"id">>, l[2], l[3])
         /\ l[1] = "isnull" /\ l[3] => TestWritten(l) = <<l[2], <<"is">>, <<"not">>, <<"null">>>>
         /\ l[1] = "isnull" /\ ~l[3] => TestWritten(l) = <<l[2], <<"is">>, <<"null">>>>
         /\ l[1] = "flag" => TestWritten(l) = <<l[2]>>
<1>1. ASSUME l[1] = "cmp" PROVE TestWritten(l) = <<l[3], <<"op", l[2]>>, l[4]>>
  BY <1>1 DEF TestWritten
<1>2. ASSUME l[1] = "like", l[2] = "regex" PROVE TestWritten(l) = <<l[3], <<"op", "=~">>, l[4]>>
  BY <1>2 DEF TestWritten
<1>3. ASSUME l[1] = "like", l[2] = "contains" PROVE TestWritten(l) = <<l[3], <<"contains">>, l[4]>>
  BY <1>3 DEF TestWritten
<1>4. ASSUME l[1] = "like", l[2] \in {"starts", "ends"}
      PROVE  TestWritten(l) = <<l[3], <<l[2]>>, <<"with">>, l[4]>>
  BY <1>4 DEF TestWritten
<1>5. ASSUME l[1] = "in" PROVE TestWritten(l) = InWritten(l[2], l[3], l[4])
  BY <1>5 DEF TestWritten
<1>6. ASSUME l[1] = "idin" PROVE TestWritten(l) = InWritten(<<"id">>, l[2], l[3])
  BY <1>6 DEF TestWritten
<1>7. ASSUME l[1] = "isnull"
      PROVE  TestWritten(l) = <<l[2], <<"is">>>> \o (IF l[3] THEN <<<<"not">>>> ELSE <<>>) \o <<<<"null">>>>
  BY <1>7 DEF TestWritten
<1>8. ASSUME l[1] = "isnull", l[3] PROVE TestWritten(l) = <<l[2], <<"is">>, <<"not">>, <<"null">>>>
  BY <1>7, <1>8
<1>9. ASSUME l[1] = "isnull", ~l[3] PROVE TestWritten(l) = <<l[2], <<"is">>, <<"null">>>>
  BY <1>7, <1>9
<1>10. ASSUME l[1] = "flag" PROVE TestWritten(l) = <<l[2]>>
  BY <1>10 DEF TestWritten
<1> QED BY <1>1, <1>2, <1>3, <1>4, <1>5, <1>6, <1>8, <1>9, <1>10

LEMMA TestTokens ==
  ASSUME NEW l \in Tests
  PROVE  TestWritten(l) \in Seq(Tokens)
<1>1. /\ Operands \subseteq Tokens /\ <<"contains">> \in Tokens /\ <<"starts">> \in Tokens
      /\ <<"ends">> \in Tokens /\ <<"with">> \in Tokens /\ <<"is">> \in Tokens
      /\ <<"not">> \in Tokens /\ <<"null">> \in Tokens /\ <<"op", "=~">> \in Tokens
      /\ \A c \in Comparisons : <<"op", c>> \in Tokens
  BY SomeTokens DEF Words
<1>2. CASE l[1] = "cmp"
  <2>1. l[3] \in Tokens /\ l[4] \in Tokens /\ <<"op", l[2]>> \in Tokens
    BY <1>1, <1>2, TestForms
  <2>2. TestWritten(l) = <<l[3], <<"op", l[2]>>, l[4]>>
    BY <1>2, TestWrites
  <2> QED BY <2>1, <2>2
<1>3. CASE l[1] = "like"
  <2>1. l[3] \in Tokens /\ l[4] \in Tokens /\ l[2] \in {"contains", "starts", "ends", "regex"}
    BY <1>1, <1>3, TestForms
  <2>2. CASE l[2] = "regex"
    <3>1. TestWritten(l) = <<l[3], <<"op", "=~">>, l[4]>>
      BY <1>3, <2>2, TestWrites
    <3> QED BY <1>1, <2>1, <3>1
  <2>3. CASE l[2] = "contains"
    <3>1. TestWritten(l) = <<l[3], <<"contains">>, l[4]>>
      BY <1>3, <2>3, TestWrites
    <3> QED BY <1>1, <2>1, <3>1
  <2>4. CASE l[2] \in {"starts", "ends"}
    <3>1. TestWritten(l) = <<l[3], <<l[2]>>, <<"with">>, l[4]>>
      BY <1>3, <2>4, TestWrites
    <3>2. <<l[2]>> \in Tokens
      BY <1>1, <2>4
    <3> QED BY <1>1, <2>1, <3>1, <3>2
  <2> QED BY <2>1, <2>2, <2>3, <2>4
<1>4. CASE l[1] = "in"
  <2>1. /\ TestWritten(l) = InWritten(l[2], l[3], l[4])
        /\ l[2] \in Operands /\ l[3] \in Seq(Operands) /\ l[4] \in BOOLEAN
    BY <1>4, TestForms, TestWrites
  <2>2. InWritten(l[2], l[3], l[4]) \in Seq(Tokens)
    BY <2>1, InTokens
  <2> QED BY <2>1, <2>2
<1>5. CASE l[1] = "idin"
  <2>1. <<"id">> \in Operands
    BY DEF Operands
  <2>2. TestWritten(l) = InWritten(<<"id">>, l[2], l[3]) /\ l[2] \in Seq(Operands) /\ l[3] \in BOOLEAN
    BY <1>5, TestForms, TestWrites
  <2>3. InWritten(<<"id">>, l[2], l[3]) \in Seq(Tokens)
    BY <2>1, <2>2, InTokens
  <2> QED BY <2>2, <2>3
<1>6. CASE l[1] = "isnull"
  <2>1. l[2] \in Tokens /\ l[3] \in BOOLEAN
    BY <1>1, <1>6, TestForms
  <2>2. CASE l[3]
    <3>1. TestWritten(l) = <<l[2], <<"is">>, <<"not">>, <<"null">>>>
      BY <1>6, <2>2, TestWrites
    <3> QED BY <1>1, <2>1, <3>1
  <2>3. CASE ~l[3]
    <3>1. TestWritten(l) = <<l[2], <<"is">>, <<"null">>>>
      BY <1>6, <2>3, TestWrites
    <3> QED BY <1>1, <2>1, <3>1
  <2> QED BY <2>2, <2>3
<1>7. CASE l[1] = "flag"
  <2>1. TestWritten(l) = <<l[2]>> /\ l[2] \in Tokens
    BY <1>1, <1>7, TestForms, TestWrites
  <2> QED BY <2>1
<1> QED BY <1>2, <1>3, <1>4, <1>5, <1>6, <1>7, TestKinds

LEMMA WordLists == \A w \in Words : <<<<w>>>> \in Seq(Tokens)
<1> TAKE w \in Words
<1>1. <<w>> \in Tokens
  BY SomeTokens
<1> QED BY <1>1

LEMMA WrappedList ==
  ASSUME NEW text \in Seq(Tokens)
  PROVE  /\ Wrapped(text) = <<<<"(">>>> \o (text \o <<<<")">>>>)
         /\ Wrapped(text) \in Seq(Tokens) /\ text \o <<<<")">>>> \in Seq(Tokens)
<1>1. <<<<"(">>>> \in Seq(Tokens) /\ <<<<")">>>> \in Seq(Tokens)
  BY WordLists DEF Words
<1>2. text \o <<<<")">>>> \in Seq(Tokens)
  BY <1>1
<1>3. Wrapped(text) = <<<<"(">>>> \o (text \o <<<<")">>>>)
  BY <1>1 DEF Wrapped
<1>4. <<<<"(">>>> \o (text \o <<<<")">>>>) \in Seq(Tokens)
  BY <1>1, <1>2, InBoth
<1> QED BY <1>2, <1>3, <1>4

LEMMA UnderList ==
  ASSUME NEW text \in Seq(Tokens), NEW x, NEW words
  PROVE  Under(text, x, words) \in Seq(Tokens)
BY WrappedList DEF Under

\* The text of a tree, by what joins its parts.
LEMMA WrittenOf ==
  \A x \in Trees :
    /\ Written(x) \in Seq(Tokens)
    /\ x[1] = "and" => Written(x) = Under(Written(x[2]), x[2], {"and", "or"}) \o <<<<"and">>>>
                                      \o Under(Written(x[3]), x[3], {"or"})
    /\ x[1] = "or" => Written(x) = Under(Written(x[2]), x[2], {"or"}) \o <<<<"or">>>> \o Written(x[3])
    /\ x[1] = "not" => Written(x) = <<<<"not">>>> \o Under(Written(x[2]), x[2], {"and", "or"})
    /\ x \in Tests => Written(x) = TestWritten(x)
<1> DEFINE V == Seq(Tokens)
           Joined(x, a, b) == IF x[1] = "and" THEN Under(a, x[2], {"and", "or"}) \o <<<<"and">>>> \o Under(b, x[3], {"or"})
                             ELSE Under(a, x[2], {"or"}) \o <<<<"or">>>> \o b
           Negated(x, a) == <<<<"not">>>> \o Under(a, x[2], {"and", "or"})
           Test(x) == TestWritten(x)
           step == [p \in Trees \X V \X V |->
                      IF p[1][1] \in {"and", "or"} THEN Joined(p[1], p[2], p[3])
                      ELSE IF p[1][1] = "not" THEN Negated(p[1], p[2]) ELSE Test(p[1])]
           Fits(g) == g = [x \in Trees |->
                             CASE x[1] = "and" -> Under(g[x[2]], x[2], {"and", "or"})
                                                    \o <<<<"and">>>> \o Under(g[x[3]], x[3], {"or"})
                               [] x[1] = "or" -> Under(g[x[2]], x[2], {"or"}) \o <<<<"or">>>> \o g[x[3]]
                               [] x[1] = "not" -> <<<<"not">>>> \o Under(g[x[2]], x[2], {"and", "or"})
                               [] OTHER -> TestWritten(x)]
<1>1. PICK v0 \in V : TRUE
  BY EmptyList
<1>2. ASSUME NEW x \in Trees, x[1] \in {"and", "or"}, NEW a \in V, NEW b \in V
      PROVE  Joined(x, a, b) \in V
  <2>1. <<<<"and">>>> \in V /\ <<<<"or">>>> \in V
    BY WordLists DEF Words
  <2>2. /\ Under(a, x[2], {"and", "or"}) \in V /\ Under(b, x[3], {"or"}) \in V
        /\ Under(a, x[2], {"or"}) \in V
    BY UnderList
  <2> HIDE DEF V
  <2>3. \A p, q \in V : p \o q \in V
    BY DEF V
  <2> QED BY <2>1, <2>2, <2>3
<1>3. ASSUME NEW x \in Trees, x[1] = "not", NEW a \in V PROVE Negated(x, a) \in V
  <2>1. <<<<"not">>>> \in V /\ Under(a, x[2], {"and", "or"}) \in V
    BY WordLists, UnderList DEF Words
  <2> QED BY <2>1, InBoth
<1>4. ASSUME NEW x \in Tests PROVE Test(x) \in V
  BY TestTokens
<1> HIDE DEF V, Joined, Negated, Test
<1>5. /\ \A x \in Trees : \A a, b \in V : x[1] \in {"and", "or"} => step[<<x, a, b>>] = Joined(x, a, b)
      /\ \A x \in Trees : \A a, b \in V : x[1] = "not" => step[<<x, a, b>>] = Negated(x, a)
      /\ \A x \in Trees : \A a, b \in V : x[1] \notin {"and", "or", "not"} => step[<<x, a, b>>] = Test(x)
  OBVIOUS
<1> HIDE DEF step
<1>6. Steps(V, v0, step)
  BY <1>2, <1>3, <1>4, <1>5, TreeParts DEF Steps
<1>7. PICK f \in [Trees -> V] : Stepped(f, v0, step)
  BY <1>6, TreeRecursion
<1>8. \A x \in Trees : f[x] = IF x[1] \in {"and", "or"} THEN Joined(x, f[x[2]], f[x[3]])
                             ELSE IF x[1] = "not" THEN Negated(x, f[x[2]]) ELSE Test(x)
  <2> TAKE x \in Trees
  <2>1. CASE x[1] \in {"and", "or"}
    <3>1. f[x[2]] \in V /\ f[x[3]] \in V
      BY <2>1, TreeParts
    <3> QED BY <1>5, <1>7, <2>1, <3>1 DEF Stepped
  <2>2. CASE x[1] = "not"
    <3>1. f[x[2]] \in V
      BY <2>2, TreeParts
    <3> QED BY <1>1, <1>5, <1>7, <2>2, <3>1 DEF Stepped
  <2>3. CASE x[1] \notin {"and", "or", "not"}
    <3>1. x \in Tests
      BY <2>3, TreeParts
    <3> QED BY <1>1, <1>5, <1>7, <2>3, <3>1 DEF Stepped
  <2> QED BY <2>1, <2>2, <2>3
<1>9. Fits(f)
  BY <1>8 DEF Joined, Negated, Test
<1>10. PICK g : Fits(g) /\ \A x \in Trees : Written(x) = g[x]
  <2> DEFINE g == CHOOSE g : Fits(g)
  <2>1. \A x \in Trees : Written(x) = g[x]
    BY DEF Written
  <2> HIDE DEF Fits
  <2>2. Fits(g)
    BY <1>9
  <2> HIDE DEF g
  <2> QED BY <2>1, <2>2
<1>11. \A x \in Trees : g[x] = IF x[1] \in {"and", "or"} THEN Joined(x, g[x[2]], g[x[3]])
                              ELSE IF x[1] = "not" THEN Negated(x, g[x[2]]) ELSE Test(x)
  BY <1>10 DEF Joined, Negated, Test
<1> HIDE DEF Fits
<1>12. \A l \in Tests : l \in Trees /\ l[1] \notin {"and", "or", "not"}
  BY TreeLevels, TreesGrow, TestKinds
<1>13. /\ \A l \in Tests : g[l] \in V
       /\ \A x \in Trees : x[1] \in {"and", "or"} /\ g[x[2]] \in V /\ g[x[3]] \in V => g[x] \in V
       /\ \A x \in Trees : x[1] = "not" /\ g[x[2]] \in V => g[x] \in V
  BY <1>2, <1>3, <1>4, <1>11, <1>12
<1>14. \A x \in Trees : g[x] \in V
  BY <1>13, TreeValues
<1>15. ASSUME NEW x \in Trees
      PROVE  /\ Written(x) \in V
             /\ x[1] \in {"and", "or"} => Written(x) = Joined(x, Written(x[2]), Written(x[3]))
             /\ x[1] = "not" => Written(x) = Negated(x, Written(x[2]))
             /\ x \in Tests => Written(x) = Test(x)
  <2>1. Written(x) = g[x] /\ g[x] \in V
    BY <1>10, <1>14
  <2>2. ASSUME x[1] \in {"and", "or"} PROVE Written(x) = Joined(x, Written(x[2]), Written(x[3]))
    <3>0. x[2] \in Trees /\ x[3] \in Trees
      BY <2>2, TreeParts
    <3>1. Written(x[2]) = g[x[2]] /\ Written(x[3]) = g[x[3]]
      BY <1>10, <3>0
    <3> QED BY <1>11, <2>1, <2>2, <3>1
  <2>3. ASSUME x[1] = "not" PROVE Written(x) = Negated(x, Written(x[2]))
    <3>1. Written(x[2]) = g[x[2]]
      BY <1>10, <2>3, TreeParts
    <3> QED BY <1>11, <2>1, <2>3, <3>1
  <2>4. ASSUME x \in Tests PROVE Written(x) = Test(x)
    BY <1>11, <1>12, <2>1, <2>4
  <2> QED BY <2>1, <2>2, <2>3, <2>4
<1> QED BY <1>15 DEF V, Joined, Negated, Test

-----------------------------------------------------------------------------
(* Reading a test.                                                         *)

\* From place i on, w stands in t.
Says(t, i, w) == \A k \in 1..Len(w) : i + k - 1 \in DOMAIN t /\ t[i + k - 1] = w[k]

Parted(t, i, a, b, w) ==
  /\ Len(a) \in Nat /\ Len(b) \in Nat /\ Len(w) = Len(a) + Len(b)
  /\ Says(t, i, a) /\ Says(t, i + Len(a), b)

LEMMA SaysParts ==
  \A t, w : \A i \in Nat : \A a, b \in Seq(Tokens) :
    w = a \o b /\ Says(t, i, w) => Parted(t, i, a, b, w)
<1> TAKE t, w
<1> TAKE i \in Nat
<1> TAKE a, b \in Seq(Tokens)
<1> HAVE w = a \o b /\ Says(t, i, w)
<1>1. PICK m \in Nat, n \in Nat : m = Len(a) /\ n = Len(b)
  OBVIOUS
<1>2. /\ Len(w) = m + n
      /\ \A k \in 1..m : w[k] = a[k]
      /\ \A k \in 1..n : w[m + k] = b[k]
  BY <1>1, BothPlaces
<1>3. \A k \in 1..(m + n) : i + k - 1 \in DOMAIN t /\ t[i + k - 1] = w[k]
  BY <1>2 DEF Says
<1>4. Says(t, i, a)
  <2>1. ASSUME NEW k \in 1..m PROVE i + k - 1 \in DOMAIN t /\ t[i + k - 1] = a[k]
    <3>1. k \in 1..(m + n)
      OBVIOUS
    <3> QED BY <1>2, <1>3, <3>1
  <2> QED BY <1>1, <2>1 DEF Says
<1>5. Says(t, i + m, b)
  <2>1. ASSUME NEW k \in 1..n PROVE (i + m) + k - 1 \in DOMAIN t /\ t[(i + m) + k - 1] = b[k]
    <3>1. m + k \in 1..(m + n) /\ i + (m + k) - 1 = (i + m) + k - 1
      OBVIOUS
    <3>2. i + (m + k) - 1 \in DOMAIN t /\ t[i + (m + k) - 1] = w[m + k]
      BY <1>3, <3>1
    <3> QED BY <1>2, <3>1, <3>2
  <2> QED BY <1>1, <2>1 DEF Says
<1> QED BY <1>1, <1>2, <1>4, <1>5 DEF Parted

LEMMA SaysOne ==
  ASSUME NEW t, NEW i \in Nat, NEW x, Says(t, i, <<x>>)
  PROVE  t[i] = x /\ Word(t, i) = x[1]
<1>1. Len(<<x>>) = 1 /\ <<x>>[1] = x /\ i + 1 - 1 = i /\ 1 \in 1..1
  OBVIOUS
<1>2. i \in DOMAIN t /\ t[i] = x
  BY <1>1 DEF Says
<1> QED BY <1>2 DEF Word

LEMMA SaysTwo ==
  ASSUME NEW t, NEW i \in Nat, NEW x, NEW y, Says(t, i, <<x, y>>)
  PROVE  /\ t[i] = x /\ Word(t, i) = x[1]
         /\ t[i + 1] = y /\ Word(t, i + 1) = y[1]
<1> DEFINE w == <<x, y>>
<1>1. Len(w) = 2 /\ w[1] = x /\ w[2] = y /\ i + 1 - 1 = i /\ i + 2 - 1 = i + 1 /\ 1 \in 1..2 /\ 2 \in 1..2
  OBVIOUS
<1> HIDE DEF w
<1>2. Says(t, i, w)
  BY DEF w
<1>3. i \in DOMAIN t /\ t[i] = x /\ i + 1 \in DOMAIN t /\ t[i + 1] = y
  BY <1>1, <1>2 DEF Says
<1> QED BY <1>3 DEF Word

LEMMA SaysThree ==
  ASSUME NEW t, NEW i \in Nat, NEW x, NEW y, NEW z, Says(t, i, <<x, y, z>>)
  PROVE  /\ t[i] = x /\ Word(t, i) = x[1]
         /\ t[i + 1] = y /\ Word(t, i + 1) = y[1]
         /\ t[i + 2] = z /\ Word(t, i + 2) = z[1]
<1> DEFINE w == <<x, y, z>>
<1>1. /\ Len(w) = 3 /\ w[1] = x /\ w[2] = y /\ w[3] = z
      /\ i + 1 - 1 = i /\ i + 2 - 1 = i + 1 /\ i + 3 - 1 = i + 2
      /\ 1 \in 1..3 /\ 2 \in 1..3 /\ 3 \in 1..3
  OBVIOUS
<1> HIDE DEF w
<1>2. Says(t, i, w)
  BY DEF w
<1>3. /\ i \in DOMAIN t /\ t[i] = x /\ i + 1 \in DOMAIN t /\ t[i + 1] = y
      /\ i + 2 \in DOMAIN t /\ t[i + 2] = z
  BY <1>1, <1>2 DEF Says
<1> QED BY <1>3 DEF Word

LEMMA SaysFour ==
  ASSUME NEW t, NEW i \in Nat, NEW x, NEW y, NEW z, NEW u, Says(t, i, <<x, y, z, u>>)
  PROVE  /\ t[i] = x /\ Word(t, i) = x[1]
         /\ t[i + 1] = y /\ Word(t, i + 1) = y[1]
         /\ t[i + 2] = z /\ Word(t, i + 2) = z[1]
         /\ t[i + 3] = u /\ Word(t, i + 3) = u[1]
<1> DEFINE w == <<x, y, z, u>>
<1>1. /\ Len(w) = 4 /\ w[1] = x /\ w[2] = y /\ w[3] = z /\ w[4] = u
      /\ i + 1 - 1 = i /\ i + 2 - 1 = i + 1 /\ i + 3 - 1 = i + 2 /\ i + 4 - 1 = i + 3
      /\ 1 \in 1..4 /\ 2 \in 1..4 /\ 3 \in 1..4 /\ 4 \in 1..4
  OBVIOUS
<1> HIDE DEF w
<1>2. Says(t, i, w)
  BY DEF w
<1>3. /\ i \in DOMAIN t /\ t[i] = x /\ i + 1 \in DOMAIN t /\ t[i + 1] = y
      /\ i + 2 \in DOMAIN t /\ t[i + 2] = z /\ i + 3 \in DOMAIN t /\ t[i + 3] = u
  BY <1>1, <1>2 DEF Says
<1> QED BY <1>3 DEF Word

\* Operands that a text can name: not the names that keywords out of place become.
Named == {x \in Operands : x[1] \in Starts}

LEMMA OperandRead ==
  ASSUME NEW S, NEW t \in Seq(S), NEW i \in Nat, NEW x \in Named, Word(t, i) = x[1], t[i] = x
  PROVE  OperandAt(t, i) = Got(x, i + 1)
<1>1. Word(t, i) \in Starts
  BY DEF Named
<1>2. OperandAt(t, i) = WordOf(t, i, OperandAt(t, i + 1))
  BY OperandRule
<1>3. WordOf(t, i, OperandAt(t, i + 1)) = Got(t[i], i + 1)
  BY <1>1, WordCases
<1> QED BY <1>2, <1>3

\* A list of which all may stay.
LEMMA KeptAll ==
  ASSUME NEW S, NEW s \in Seq(S), NEW T, \A i \in 1..Len(s) : s[i] \in T
  PROVE  Kept(s, T) = s
<1> DEFINE n == Len(s)
           ss == [i \in DOMAIN s |-> IF s[i] \in T THEN <<s[i]>> ELSE <<>>]
<1>1. n \in Nat /\ DOMAIN s = 1..n /\ \A i \in 1..n : s[i] \in S
  BY InList
<1>2. \A i \in 1..n : ss[i] = <<s[i]>>
  BY <1>1
<1>3. ss \in Seq(Seq(S)) /\ Len(ss) = n
  <2>1. \A i \in 1..n : <<s[i]>> \in Seq(S)
    BY <1>1
  <2>2. DOMAIN ss = 1..n /\ ss = [i \in DOMAIN ss |-> ss[i]]
    BY <1>1
  <2>3. n \in Nat /\ \A i \in 1..n : ss[i] \in Seq(S)
    BY <1>1, <1>2, <2>1
  <2> HIDE DEF ss, n
  <2> QED BY <2>2, <2>3, AsList
<1>4. Kept(s, T) = FlattenSeq(ss)
  BY DEF Kept
<1> HIDE DEF ss
<1>5. PICK off : Offsets(off, ss, FlattenSeq(ss))
  BY <1>3, FlattenPlaces
<1>6. FlattenSeq(ss) \in Seq(S)
  BY <1>3, FlattenHolds
<1>7. \A k \in 1..n : /\ off[k] = off[k - 1] + 1 /\ FlattenSeq(ss)[off[k - 1] + 1] = s[k]
  <2> TAKE k \in 1..n
  <2>0. PICK x : x = s[k]
    OBVIOUS
  <2>1. ss[k] = <<x>>
    BY <1>2, <2>0
  <2>2. Len(ss[k]) = 1 /\ ss[k][1] = x /\ 1 \in 1..1
    BY <2>1
  <2> QED BY <1>3, <1>5, <2>0, <2>2 DEF Offsets
<1> DEFINE Good == {k \in 0..n : off[k] = k}
<1>8. \A k \in 0..n : k \in Good
  <2>1. 0 \in Good
    BY <1>1, <1>5 DEF Offsets
  <2>2. ASSUME NEW k \in 0..(n - 1), k \in Good PROVE k + 1 \in Good
    <3>1. PICK j \in 1..n : j = k + 1 /\ j - 1 = k
      BY <1>1
    <3>2. off[j] = off[j - 1] + 1 /\ off[k] = k
      BY <1>7, <2>2
    <3> QED BY <3>1, <3>2
  <2> HIDE DEF Good, n
  <2> QED BY <1>1, <2>1, <2>2, Climb
<1>9. Len(FlattenSeq(ss)) = n
  <2>1. n \in Good /\ off[n] = Len(FlattenSeq(ss))
    BY <1>1, <1>3, <1>5, <1>8 DEF Offsets
  <2> QED BY <2>1
<1>10. \A k \in 1..n : FlattenSeq(ss)[k] = s[k]
  <2> TAKE k \in 1..n
  <2>1. PICK j \in 0..n : j = k - 1 /\ j + 1 = k
    BY <1>1
  <2>2. off[j] = j
    BY <1>8
  <2> QED BY <1>7, <2>1, <2>2
<1>11. FlattenSeq(ss) = s
  <2> DEFINE w == FlattenSeq(ss)
  <2>1. w \in Seq(S) /\ Len(w) = n /\ \A k \in 1..n : w[k] = s[k]
    BY <1>6, <1>9, <1>10
  <2> HIDE DEF w
  <2> QED BY <2>1 DEF w
<1> QED BY <1>4, <1>11

\* From its m-th item on, a list is read to its end.
ReadFrom(t, i, items, n, m) ==
  LET got == ItemsAt(t, i + 2 * (m - 1))
  IN  /\ got.next = i + 2 * n - 1 /\ got.tree \in Seq(Named) /\ Len(got.tree) = n + 1 - m
      /\ \A k \in 1..(n + 1 - m) : got.tree[k] = items[m - 1 + k]

LEMMA ItemsRead ==
  ASSUME NEW S, NEW t \in Seq(S), NEW i \in Nat, NEW items \in Seq(Named), NEW n \in Nat, n > 0,
         n = Len(items), Says(t, i, Commas(items)), Word(t, i + 2 * n - 1) = "]"
  PROVE  ItemsAt(t, i) = Got(items, i + 2 * n - 1)
<1>1. \A m \in 1..n : items[m] \in Named
  BY InList
<1>2. items \in Seq(Operands)
  BY DEF Named
<1>3. PICK l \in Nat : l = 2 * n - 1
  <2>1. 2 * n - 1 \in Nat
    OBVIOUS
  <2> QED BY <2>1
<1>4. /\ Len(Commas(items)) = l
      /\ \A k \in 1..n : 2 * k - 1 \in 1..l /\ Commas(items)[2 * k - 1] = items[k]
      /\ \A k \in 1..(n - 1) : 2 * k \in 1..l /\ Commas(items)[2 * k] = <<",">>
  <2>1. l = IF n = 0 THEN 0 ELSE 2 * n - 1
    BY <1>3
  <2> DEFINE P(x) ==
        /\ Len(Commas(items)) = x
        /\ \A k \in 1..n : 2 * k - 1 \in 1..x /\ Commas(items)[2 * k - 1] = items[k]
        /\ \A k \in 1..(n - 1) : 2 * k \in 1..x /\ Commas(items)[2 * k] = <<",">>
  <2>2. \A m \in Nat : m = (IF n = 0 THEN 0 ELSE 2 * n - 1) => P(m)
    BY <1>2, CommasOf
  <2> HIDE DEF P
  <2>3. P(l)
    BY <2>1, <2>2
  <2> QED BY <2>3 DEF P
<1>5. \A k \in 1..l : i + k - 1 \in DOMAIN t /\ t[i + k - 1] = Commas(items)[k]
  BY <1>4 DEF Says
<1>6. ASSUME NEW m \in 1..n, NEW j \in Nat, j = i + 2 * (m - 1)
      PROVE  OperandAt(t, j) = Got(items[m], j + 1)
  <2>0. i + (2 * m - 1) - 1 = j
    BY <1>6
  <2>1. 2 * m - 1 \in 1..l /\ Commas(items)[2 * m - 1] = items[m] /\ i + (2 * m - 1) - 1 = j
    BY <1>4, <2>0
  <2>2. j \in DOMAIN t /\ t[j] = items[m]
    BY <1>5, <2>1
  <2>3. Word(t, j) = items[m][1]
    BY <2>2 DEF Word
  <2>4. items[m] \in Named
    BY <1>1
  <2> QED BY <2>2, <2>3, <2>4, OperandRead
<1>7. ASSUME NEW m \in 1..n, m < n, NEW j \in Nat, j = i + 2 * (m - 1) PROVE Word(t, j + 1) = ","
  <2>0. i + 2 * m - 1 = j + 1 /\ m \in 1..(n - 1)
    BY <1>7
  <2>1. 2 * m \in 1..l /\ Commas(items)[2 * m] = <<",">> /\ i + 2 * m - 1 = j + 1
    BY <1>4, <2>0
  <2>2. j + 1 \in DOMAIN t /\ t[j + 1] = <<",">>
    BY <1>5, <2>1
  <2>3. <<",">>[1] = ","
    OBVIOUS
  <2> QED BY <2>2, <2>3 DEF Word
<1> DEFINE Good == {m \in 1..(n + 1) : m = n + 1 \/ ReadFrom(t, i, items, n, m)}
<1>8. ASSUME NEW m \in 1..n, \A k \in (m + 1)..(n + 1) : k \in Good PROVE m \in Good
  <2>1. PICK j \in Nat : j = i + 2 * (m - 1)
    OBVIOUS
  <2>2. OperandAt(t, j) = Got(items[m], j + 1)
    BY <1>6, <2>1
  <2>3. OperandAt(t, j).next = j + 1 /\ OperandAt(t, j).tree = items[m]
    BY <2>2 DEF Got
  <2>4. ItemsAt(t, j) = OneItem(t, j, ItemsAt(t, j + 1 + 1))
    BY <2>3, ItemsRule
  <2>5. items[m] \in Named /\ m \in 1..(n + 1)
    BY <1>1
  <2>6. CASE m = n
    <3>1. j + 1 = i + 2 * n - 1
      BY <2>1, <2>6
    <3>2. Word(t, j + 1) # ","
      BY <3>1
    <3>3. ItemsAt(t, j) = Got(<<items[m]>>, j + 1)
      BY <2>3, <2>4, <3>2 DEF OneItem
    <3>4. /\ ItemsAt(t, j).next = i + 2 * n - 1 /\ ItemsAt(t, j).tree = <<items[m]>>
      BY <3>1, <3>3 DEF Got
    <3>5. /\ <<items[m]>> \in Seq(Named) /\ Len(<<items[m]>>) = 1 /\ <<items[m]>>[1] = items[m]
      BY <2>5
    <3>6. n + 1 - m = 1 /\ \A k \in 1..1 : k = 1 /\ m - 1 + k = m
      BY <2>6
    <3>7. ReadFrom(t, i, items, n, m)
      BY <2>1, <3>4, <3>5, <3>6 DEF ReadFrom
    <3> QED BY <2>5, <3>7
  <2>7. CASE m # n
    <3>1. m < n
      BY <2>7
    <3>2. Word(t, j + 1) = ","
      BY <1>7, <2>1, <3>1
    <3>3. PICK u \in 1..n : u = m + 1 /\ u - 1 = m
      BY <3>1
    <3>4. u \in Good /\ u # n + 1
      BY <1>8, <3>3
    <3>5. ReadFrom(t, i, items, n, u)
      BY <3>4
    <3> DEFINE more == ItemsAt(t, j + 1 + 1)
    <3>6. j + 1 + 1 = i + 2 * (u - 1)
      BY <2>1, <3>3
    <3>7. /\ more.next = i + 2 * n - 1 /\ more.tree \in Seq(Named) /\ Len(more.tree) = n + 1 - u
          /\ \A k \in 1..(n + 1 - u) : more.tree[k] = items[u - 1 + k]
      BY <3>5, <3>6 DEF ReadFrom
    <3> HIDE DEF more
    <3>8. ItemsAt(t, j) = Got(<<items[m]>> \o more.tree, more.next)
      BY <2>3, <2>4, <3>2 DEF OneItem, more
    <3>9. ItemsAt(t, j).next = i + 2 * n - 1 /\ ItemsAt(t, j).tree = <<items[m]>> \o more.tree
      BY <3>7, <3>8 DEF Got
    <3> DEFINE w == <<items[m]>> \o more.tree
    <3>10. /\ w \in Seq(Named) /\ Len(w) = Len(more.tree) + 1 /\ w[1] = items[m]
           /\ \A k \in 1..Len(more.tree) : w[k + 1] = more.tree[k]
      BY <2>5, <3>7, JoinFront
    <3> HIDE DEF w
    <3>11. \A k \in 1..(n + 1 - m) : w[k] = items[m - 1 + k]
      <4> TAKE k \in 1..(n + 1 - m)
      <4>1. CASE k = 1
        BY <3>10, <4>1
      <4>2. CASE k # 1
        <5>1. PICK h \in 1..(n + 1 - u) : h + 1 = k
          BY <3>3, <4>2
        <5>2. w[k] = more.tree[h]
          BY <3>7, <3>10, <5>1
        <5>3. u - 1 + h = m - 1 + k
          BY <3>3, <5>1
        <5> QED BY <3>7, <5>1, <5>2, <5>3
      <4> QED BY <4>1, <4>2
    <3>12. Len(w) = n + 1 - m
      BY <3>3, <3>7, <3>10
    <3>13. ItemsAt(t, j).tree = w
      BY <3>9 DEF w
    <3>14. ReadFrom(t, i, items, n, m)
      BY <2>1, <3>9, <3>10, <3>11, <3>12, <3>13 DEF ReadFrom
    <3> QED BY <2>5, <3>14
  <2> QED BY <2>6, <2>7
<1>9. \A m \in 1..(n + 1) : m \in Good
  <2>1. n + 1 \in Good
    OBVIOUS
  <2> HIDE DEF Good
  <2> QED BY <1>8, <2>1, Descend
<1>10. 1 \in 1..(n + 1) /\ 1 # n + 1
  OBVIOUS
<1>11. ReadFrom(t, i, items, n, 1)
  BY <1>9, <1>10
<1>12. i + 2 * (1 - 1) = i /\ n + 1 - 1 = n /\ \A k \in 1..n : 1 - 1 + k = k
  OBVIOUS
<1>13. PICK got : got = ItemsAt(t, i)
  OBVIOUS
<1>14. /\ got.next = i + 2 * n - 1 /\ got.tree \in Seq(Named) /\ Len(got.tree) = n
       /\ \A k \in 1..n : got.tree[k] = items[k]
  BY <1>11, <1>12, <1>13 DEF ReadFrom
<1>15. got.tree = items
  BY <1>14
<1>16. \E x, y : got = Got(x, y)
  <2>1. got = OneItem(t, i, ItemsAt(t, OperandAt(t, i).next + 1))
    BY <1>13, ItemsRule
  <2> QED BY <2>1 DEF OneItem
<1>17. got = Got(got.tree, got.next)
  BY <1>16 DEF Got
<1> QED BY <1>13, <1>14, <1>15, <1>17

\* From i on, t says a list in brackets that takes m tokens between them.
SaysList(t, i, items, n, m) ==
  /\ n \in Nat /\ n = Len(items) /\ m \in Nat /\ m = (IF n = 0 THEN 0 ELSE 2 * n - 1)
  /\ Word(t, i) = "[" /\ Says(t, i + 1, Commas(items)) /\ Word(t, i + 1 + m) = "]"

LEMMA ListRead ==
  ASSUME NEW S, NEW t \in Seq(S), NEW i \in Nat, NEW items \in Seq(Named), NEW n, NEW m,
         SaysList(t, i, items, n, m)
  PROVE  ListAt(t, i) = Got(items, i + m + 2)
<1>0. /\ n \in Nat /\ n = Len(items) /\ m \in Nat /\ m = (IF n = 0 THEN 0 ELSE 2 * n - 1)
      /\ Word(t, i) = "[" /\ Says(t, i + 1, Commas(items)) /\ Word(t, i + 1 + m) = "]"
  BY DEF SaysList
<1>1. ListAt(t, i) = BracketAt(t, i)
  BY <1>0 DEF ListAt
<1>2. CASE n = 0
  <2>0. items = <<>>
    BY <1>0, <1>2, EmptySeq
  <2>1. items = <<>> /\ i + 1 + m = i + 1 /\ i + m + 2 = i + 2
    BY <1>0, <1>2, <2>0
  <2>2. Word(t, i + 1) = "]"
    BY <1>0, <2>1
  <2>3. BracketAt(t, i) = Got(<<>>, i + 2)
    BY <1>0, <2>2 DEF BracketAt
  <2> QED BY <1>1, <2>1, <2>3
<1>3. CASE n # 0
  <2>1. n > 0 /\ i + 1 + m = (i + 1) + 2 * n - 1 /\ i + 1 \in Nat /\ 1 \in 1..n
    BY <1>0, <1>3
  <2>2. Word(t, (i + 1) + 2 * n - 1) = "]"
    BY <1>0, <2>1
  <2>3. ItemsAt(t, i + 1) = Got(items, (i + 1) + 2 * n - 1)
    BY <1>0, <2>1, <2>2, ItemsRead
  <2>4. Word(t, i + 1) # "]"
    <3>1. items[1] \in Named /\ items \in Seq(Operands)
      BY <1>0, <2>1, InList DEF Named
    <3> DEFINE P(x) ==
          /\ Commas(items) \in Seq(Tokens) /\ Len(Commas(items)) = x
          /\ \A k \in 1..n : 2 * k - 1 \in 1..x /\ Commas(items)[2 * k - 1] = items[k]
          /\ \A k \in 1..(n - 1) : 2 * k \in 1..x /\ Commas(items)[2 * k] = <<",">>
    <3>2. \A x \in Nat : x = (IF n = 0 THEN 0 ELSE 2 * n - 1) => P(x)
      BY <1>0, <3>1, CommasOf
    <3> HIDE DEF P
    <3>3. P(m)
      BY <1>0, <3>2
    <3>4. 2 * 1 - 1 = 1 /\ i + 1 + 1 - 1 = i + 1
      OBVIOUS
    <3>5. 2 * 1 - 1 \in 1..m /\ Commas(items)[2 * 1 - 1] = items[1] /\ Len(Commas(items)) = m
      BY <1>0, <2>1, <3>3 DEF P
    <3>6. i + 1 \in DOMAIN t /\ t[i + 1] = items[1]
      BY <1>0, <3>4, <3>5 DEF Says
    <3>7. Word(t, i + 1) = items[1][1]
      BY <3>6 DEF Word
    <3>8. items[1][1] \in Starts
      BY <3>1 DEF Named
    <3> QED BY <3>7, <3>8 DEF Starts, Literals
  <2>5. BracketAt(t, i) = Closing(t, ItemsAt(t, i + 1), "]")
    BY <1>0, <2>4 DEF BracketAt
  <2>6. Closing(t, Got(items, (i + 1) + 2 * n - 1), "]") = Got(items, (i + 1) + 2 * n - 1 + 1)
    BY <2>2 DEF Closing, Got
  <2>7. (i + 1) + 2 * n - 1 + 1 = i + m + 2
    BY <1>0, <2>1
  <2> QED BY <1>1, <2>3, <2>5, <2>6, <2>7
<1> QED BY <1>2, <1>3

LEMMA InRead ==
  ASSUME NEW S, NEW t \in Seq(S), NEW i \in Nat, NEW o \in Named, NEW items \in Seq(Named),
         NEW b \in BOOLEAN, Says(t, i, InWritten(o, items, b))
  PROVE  /\ TestAt(t, OperandAt(t, i)) = Got(Membership(o, items, b), i + Len(InWritten(o, items, b)))
         /\ Word(t, i) \in Starts
<1>1. o \in Operands /\ o[1] \in Starts /\ items \in Seq(Operands)
  BY DEF Named
<1>2. PICK n \in Nat : n = Len(items)
  OBVIOUS
<1>3. PICK m \in Nat : m = IF n = 0 THEN 0 ELSE 2 * n - 1
  OBVIOUS
<1>4. PICK q \in Nat : q = IF b THEN 1 ELSE 0
  OBVIOUS
<1>5. Commas(items) \in Seq(Tokens) /\ Len(Commas(items)) = m
  <2> DEFINE P(x) == Commas(items) \in Seq(Tokens) /\ Len(Commas(items)) = x
  <2>1. \A x \in Nat : x = (IF n = 0 THEN 0 ELSE 2 * n - 1) => P(x)
    BY <1>1, <1>2, CommasOf
  <2> HIDE DEF P
  <2>2. P(m)
    BY <1>3, <2>1
  <2> QED BY <2>2 DEF P
<1>6. PICK w1, w2, w3, w4 \in Seq(Tokens) :
        /\ w1 = <<o>> \o NotWord(b) /\ w2 = w1 \o <<<<"in">>, <<"[">>>>
        /\ w3 = w2 \o Commas(items) /\ w4 = w3 \o <<<<"]">>>>
        /\ InWritten(o, items, b) = w4
  BY <1>1, InWrites
<1>7. /\ <<o>> \in Seq(Tokens) /\ <<<<"in">>, <<"[">>>> \in Seq(Tokens) /\ <<<<"]">>>> \in Seq(Tokens)
      /\ NotWord(b) \in Seq(Tokens) /\ Len(NotWord(b)) = q
  <2>1. o \in Tokens /\ <<"in">> \in Tokens /\ <<"[">> \in Tokens /\ <<"]">> \in Tokens
    BY <1>1, SomeTokens DEF Words
  <2>2. NotWord(b) \in Seq(Tokens) /\ Len(NotWord(b)) = q
    BY <1>4, NotWords
  <2> QED BY <2>1, <2>2
<1>8. PICK c4, c2 \in Seq(Tokens) : c4 = <<<<"]">>>> /\ c2 = <<<<"in">>, <<"[">>>>
  BY <1>7
<1>9. /\ Says(t, i, w3) /\ Says(t, i + Len(w3), c4) /\ Len(w4) = Len(w3) + Len(c4)
  <2>1. w4 = w3 \o c4 /\ Says(t, i, w4)
    BY <1>6, <1>8
  <2>2. Parted(t, i, w3, c4, w4)
    BY <2>1, SaysParts
  <2> QED BY <2>2 DEF Parted
<1>10. /\ Says(t, i, w2) /\ Says(t, i + Len(w2), Commas(items)) /\ Len(w3) = Len(w2) + m
  <2>1. w3 = w2 \o Commas(items) /\ Commas(items) \in Seq(Tokens) /\ Says(t, i, w3)
    BY <1>5, <1>6, <1>9
  <2>2. Parted(t, i, w2, Commas(items), w3)
    BY <2>1, SaysParts
  <2> QED BY <1>5, <2>2 DEF Parted
<1>11. /\ Says(t, i, w1) /\ Says(t, i + Len(w1), c2) /\ Len(w2) = Len(w1) + Len(c2)
  <2>1. w2 = w1 \o c2 /\ Says(t, i, w2)
    BY <1>6, <1>8, <1>10
  <2>2. Parted(t, i, w1, c2, w2)
    BY <2>1, SaysParts
  <2> QED BY <2>2 DEF Parted
<1>12. /\ Says(t, i, <<o>>) /\ Says(t, i + Len(<<o>>), NotWord(b)) /\ Len(w1) = Len(<<o>>) + q
  <2>1. w1 = <<o>> \o NotWord(b) /\ Says(t, i, w1) /\ <<o>> \in Seq(Tokens) /\ NotWord(b) \in Seq(Tokens)
    BY <1>6, <1>7, <1>11
  <2>2. Parted(t, i, <<o>>, NotWord(b), w1)
    BY <2>1, SaysParts
  <2> QED BY <1>7, <2>2 DEF Parted
<1>13. Len(<<o>>) = 1 /\ Len(<<<<"in">>, <<"[">>>>) = 2 /\ Len(<<<<"]">>>>) = 1
  OBVIOUS
<1>14. Len(w1) = 1 + q /\ Len(w2) = 3 + q /\ Len(w3) = 3 + q + m /\ Len(w4) = 4 + q + m
  BY <1>8, <1>9, <1>10, <1>11, <1>12, <1>13
<1>15. t[i] = o /\ Word(t, i) = o[1]
  BY <1>12, SaysOne
<1>16. OperandAt(t, i) = Got(o, i + 1)
  BY <1>15, OperandRead
<1>17. PICK k \in Nat : k = i + 1 + q
  OBVIOUS
<1>18. Word(t, k) = "in" /\ Word(t, k + 1) = "["
  <2>1. Says(t, k, <<<<"in">>, <<"[">>>>)
    <3>1. i + (1 + q) = k
      BY <1>17
    <3> QED BY <1>8, <1>11, <1>14, <3>1
  <2>2. Word(t, k) = <<"in">>[1] /\ Word(t, k + 1) = <<"[">>[1]
    BY <2>1, SaysTwo
  <2> QED BY <2>2
<1>19. Says(t, k + 2, Commas(items))
  <2>1. i + (3 + q) = k + 2
    BY <1>17
  <2> QED BY <1>10, <1>14, <2>1
<1>20. Word(t, k + 2 + m) = "]"
  <2>1. i + (3 + q + m) = k + 2 + m /\ k + 2 + m \in Nat
    BY <1>17
  <2>2. Says(t, k + 2 + m, <<<<"]">>>>)
    BY <1>8, <1>9, <1>14, <2>1
  <2>3. Word(t, k + 2 + m) = <<"]">>[1]
    BY <2>1, <2>2, SaysOne
  <2> QED BY <2>3
<1>21. ListAt(t, k + 1) = Got(items, k + m + 3)
  <2>1. PICK j \in Nat : j = k + 1
    OBVIOUS
  <2>2. j + 1 = k + 2 /\ j + 1 + m = k + 2 + m /\ j + m + 2 = k + m + 3
    BY <2>1
  <2>3. Word(t, j) = "[" /\ Says(t, j + 1, Commas(items)) /\ Word(t, j + 1 + m) = "]"
    BY <1>18, <1>19, <1>20, <2>1, <2>2
  <2>4. ListAt(t, j) = Got(items, j + m + 2)
    <3>1. SaysList(t, j, items, n, m)
      BY <1>2, <1>3, <2>3 DEF SaysList
    <3> QED BY <3>1, ListRead
  <2> QED BY <2>1, <2>2, <2>4
<1>22. (Word(t, i + 1) = "in" \/ NotIn(t, i + 1)) /\ AfterIn(t, i + 1) = k + 1 /\ (NotIn(t, i + 1) <=> b)
  <2>1. CASE b
    <3>1. k = i + 2 /\ k = i + 1 + 1 /\ i + 1 + 2 = k + 1
      BY <1>4, <1>17, <2>1
    <3>2. Says(t, i + 1, <<<<"not">>>>)
      BY <1>12, <1>13, <2>1 DEF NotWord
    <3>3. Word(t, i + 1) = "not"
      BY <3>2, SaysOne
    <3>4. NotIn(t, i + 1)
      BY <1>18, <3>1, <3>3 DEF NotIn
    <3> QED BY <2>1, <3>1, <3>4 DEF AfterIn
  <2>2. CASE ~b
    <3>1. k = i + 1 /\ i + 1 + 1 = k + 1
      BY <1>4, <1>17, <2>2
    <3>2. Word(t, i + 1) = "in"
      BY <1>18, <3>1
    <3>3. ~NotIn(t, i + 1)
      BY <3>2 DEF NotIn
    <3> QED BY <2>2, <3>1, <3>2, <3>3 DEF AfterIn
  <2> QED BY <2>1, <2>2
<1>23. PICK left : left = Got(o, i + 1)
  OBVIOUS
<1>24. left.next = i + 1 /\ left.tree = o
  BY <1>23 DEF Got
<1>25. TestAt(t, left) = InAt(t, left, k + 1)
  BY <1>22, <1>24, TestRule
<1>26. PICK list : list = ListAt(t, k + 1)
  OBVIOUS
<1>27. list.next = k + m + 3 /\ list.tree = items /\ list.next # 0
  BY <1>21, <1>26 DEF Got
<1>28. InAt(t, left, k + 1) = Got(Membership(o, items, NotIn(t, i + 1)), k + m + 3)
  BY <1>24, <1>26, <1>27 DEF InAt
<1>29. i + Len(w4) = k + m + 3
  BY <1>14, <1>17
<1>30. NotIn(t, i + 1) = b
  BY <1>22 DEF NotIn
<1> QED BY <1>1, <1>6, <1>15, <1>16, <1>23, <1>25, <1>28, <1>29, <1>30

(***************************************************************************)
(* Tests that a text can say: no keyword stands for a variable, id(n) in a *)
(* list asks for ids, and only a column is a test of its own.              *)
(***************************************************************************)
Readable(l) ==
  /\ l[1] \in {"cmp", "like"} => l[3] \in Named /\ l[4] \in Named
  /\ l[1] = "in" => l[2] \in Named /\ l[2][1] # "id" /\ l[3] \in Seq(Named)
  /\ l[1] = "isnull" => l[2] \in Named
  /\ l[1] = "flag" => l[2] \in Named /\ l[2][1] = "prop"

\* What may follow a test.
Closers == {"and", "or", ")", "end"}

IsRead(t, i, l) == /\ TestAt(t, OperandAt(t, i)) = Got(l, i + Len(TestWritten(l)))
                   /\ Word(t, i) \in Starts

LEMMA OpRead ==
  ASSUME NEW S, NEW t \in Seq(S), NEW i \in Nat, NEW l \in Tests, NEW x \in Named, NEW y \in Named,
         NEW op, TestWritten(l) = <<x, <<"op", op>>, y>>, Says(t, i, TestWritten(l)),
         l = IF op = "=~" THEN <<"like", "regex", x, y>> ELSE <<"cmp", op, x, y>>
  PROVE  IsRead(t, i, l)
<1>1. /\ t[i] = x /\ Word(t, i) = x[1] /\ t[i + 1] = <<"op", op>> /\ Word(t, i + 1) = <<"op", op>>[1]
      /\ t[i + 2] = y /\ Word(t, i + 2) = y[1]
  <2>1. Says(t, i, <<x, <<"op", op>>, y>>)
    OBVIOUS
  <2> QED BY <2>1, SaysThree
<1>2. OperandAt(t, i) = Got(x, i + 1)
  BY <1>1, OperandRead
<1>3. OperandAt(t, i + 2) = Got(y, i + 3)
  <2>1. i + 2 \in Nat /\ i + 2 + 1 = i + 3
    OBVIOUS
  <2> QED BY <1>1, <2>1, OperandRead
<1>4. PICK left, right : left = Got(x, i + 1) /\ right = Got(y, i + 3)
  OBVIOUS
<1>5. left.next = i + 1 /\ left.tree = x /\ right.tree = y /\ right.next = i + 3
  BY <1>4 DEF Got
<1>6. Word(t, i + 1) = "op" /\ t[i + 1][2] = op
  BY <1>1
<1>7. i + 1 + 1 = i + 2
  OBVIOUS
<1>8. TestAt(t, left) = OpAt(t, left, right)
  BY <1>3, <1>4, <1>5, <1>6, <1>7, TestRule
<1>9. OpAt(t, left, right) = Got(l, i + 3)
  BY <1>5, <1>6 DEF OpAt
<1>10. Len(TestWritten(l)) = 3 /\ x[1] \in Starts
  BY DEF Named
<1> QED BY <1>1, <1>2, <1>4, <1>8, <1>9, <1>10 DEF IsRead

LEMMA LikeRead ==
  ASSUME NEW S, NEW t \in Seq(S), NEW i \in Nat, NEW l \in Tests, l[1] = "like", l[2] # "regex",
         Readable(l), Says(t, i, TestWritten(l))
  PROVE  IsRead(t, i, l)
<1>0. l = <<"like", l[2], l[3], l[4]>> /\ l[2] \in {"contains", "starts", "ends"}
  BY TestForms
<1>1. l[3] \in Named /\ l[4] \in Named /\ l[3][1] \in Starts
  BY DEF Readable, Named
<1>2. PICK left : left = Got(l[3], i + 1)
  OBVIOUS
<1>3. left.next = i + 1 /\ left.tree = l[3]
  BY <1>2 DEF Got
<1>4. CASE l[2] = "contains"
  <2>1. TestWritten(l) = <<l[3], <<"contains">>, l[4]>>
    BY <1>4, TestWrites
  <2>2. Says(t, i, <<l[3], <<"contains">>, l[4]>>)
    BY <2>1
  <2>3. /\ t[i] = l[3] /\ Word(t, i) = l[3][1] /\ Word(t, i + 1) = <<"contains">>[1]
        /\ t[i + 2] = l[4] /\ Word(t, i + 2) = l[4][1]
    BY <2>2, SaysThree
  <2>4. OperandAt(t, i) = left
    BY <1>1, <1>2, <2>3, OperandRead
  <2>5. OperandAt(t, i + 2) = Got(l[4], i + 3)
    <3>1. i + 2 \in Nat /\ i + 2 + 1 = i + 3
      OBVIOUS
    <3> QED BY <1>1, <2>3, <3>1, OperandRead
  <2>6. Word(t, i + 1) = "contains" /\ i + 1 + 1 = i + 2
    BY <2>3
  <2>7. AfterLike(t, i + 1) = i + 2
    BY <2>6 DEF AfterLike
  <2>8. TestAt(t, left) = LikeAt(t, left, i + 2)
    BY <1>3, <2>6, <2>7, TestRule
  <2>9. LikeAt(t, left, i + 2) = Got(l, i + 3)
    BY <1>0, <1>3, <1>4, <2>5, <2>6 DEF LikeAt, Got
  <2>10. Len(TestWritten(l)) = 3
    BY <2>1
  <2> QED BY <1>1, <2>3, <2>4, <2>8, <2>9, <2>10 DEF IsRead
<1>5. CASE l[2] \in {"starts", "ends"}
  <2>1. TestWritten(l) = <<l[3], <<l[2]>>, <<"with">>, l[4]>>
    BY <1>5, TestWrites
  <2>2. Says(t, i, <<l[3], <<l[2]>>, <<"with">>, l[4]>>)
    BY <2>1
  <2>3. /\ t[i] = l[3] /\ Word(t, i) = l[3][1] /\ Word(t, i + 1) = <<l[2]>>[1]
        /\ Word(t, i + 2) = <<"with">>[1]
        /\ t[i + 3] = l[4] /\ Word(t, i + 3) = l[4][1]
    BY <2>2, SaysFour
  <2>4. OperandAt(t, i) = left
    BY <1>1, <1>2, <2>3, OperandRead
  <2>5. OperandAt(t, i + 3) = Got(l[4], i + 4)
    <3>1. i + 3 \in Nat /\ i + 3 + 1 = i + 4
      OBVIOUS
    <3> QED BY <1>1, <2>3, <3>1, OperandRead
  <2>6. /\ Word(t, i + 1) = l[2] /\ Word(t, i + 2) = "with"
        /\ i + 1 + 1 = i + 2 /\ i + 1 + 2 = i + 3
    BY <2>3
  <2>7. AfterLike(t, i + 1) = i + 3
    BY <1>5, <2>6 DEF AfterLike
  <2>8. TestAt(t, left) = LikeAt(t, left, i + 3)
    <3>1. Word(t, i + 1) \in {"contains", "starts", "ends"}
      BY <1>5, <2>6
    <3> QED BY <1>3, <2>7, <3>1, TestRule
  <2>9. LikeAt(t, left, i + 3) = Got(l, i + 4)
    BY <1>0, <1>3, <2>5, <2>6 DEF LikeAt, Got
  <2>10. Len(TestWritten(l)) = 4
    BY <2>1
  <2> QED BY <1>1, <2>3, <2>4, <2>8, <2>9, <2>10 DEF IsRead
<1> QED BY <1>0, <1>4, <1>5

LEMMA NullRead ==
  ASSUME NEW S, NEW t \in Seq(S), NEW i \in Nat, NEW l \in Tests, l[1] = "isnull",
         Readable(l), Says(t, i, TestWritten(l))
  PROVE  IsRead(t, i, l)
<1>0. l = <<"isnull", l[2], l[3]>> /\ l[3] \in BOOLEAN
  BY TestForms
<1>1. l[2] \in Named /\ l[2][1] \in Starts
  BY DEF Readable, Named
<1>2. PICK left : left = Got(l[2], i + 1)
  OBVIOUS
<1>3. left.next = i + 1 /\ left.tree = l[2]
  BY <1>2 DEF Got
<1>4. CASE l[3]
  <2>1. TestWritten(l) = <<l[2], <<"is">>, <<"not">>, <<"null">>>>
    BY <1>4, TestWrites
  <2>2. Says(t, i, <<l[2], <<"is">>, <<"not">>, <<"null">>>>)
    BY <2>1
  <2>3. /\ t[i] = l[2] /\ Word(t, i) = l[2][1] /\ Word(t, i + 1) = <<"is">>[1]
        /\ Word(t, i + 2) = <<"not">>[1] /\ Word(t, i + 3) = <<"null">>[1]
    BY <2>2, SaysFour
  <2>4. OperandAt(t, i) = left
    BY <1>1, <1>2, <2>3, OperandRead
  <2>5. /\ Word(t, i + 1) = "is" /\ Word(t, i + 2) = "not" /\ Word(t, i + 3) = "null"
        /\ i + 1 + 1 = i + 2 /\ i + 1 + 2 = i + 3 /\ i + 3 + 1 = i + 4
    BY <2>3
  <2>6. AfterIs(t, i + 1) = i + 3
    BY <2>5 DEF AfterIs
  <2>7. TestAt(t, left) = IsAt(t, left, i + 3)
    BY <1>3, <2>5, <2>6, TestRule
  <2>8. (i + 3 = left.next + 2) = TRUE
    BY <1>3, <2>5
  <2>9. l[3] = TRUE
    BY <1>0, <1>4
  <2>10. IsAt(t, left, i + 3) = Got(l, i + 4)
    BY <1>0, <1>3, <2>5, <2>8, <2>9 DEF IsAt
  <2>11. Len(TestWritten(l)) = 4
    BY <2>1
  <2> QED BY <1>1, <2>3, <2>4, <2>7, <2>10, <2>11 DEF IsRead
<1>5. CASE ~l[3]
  <2>1. TestWritten(l) = <<l[2], <<"is">>, <<"null">>>>
    BY <1>5, TestWrites
  <2>2. Says(t, i, <<l[2], <<"is">>, <<"null">>>>)
    BY <2>1
  <2>3. /\ t[i] = l[2] /\ Word(t, i) = l[2][1] /\ Word(t, i + 1) = <<"is">>[1]
        /\ Word(t, i + 2) = <<"null">>[1]
    BY <2>2, SaysThree
  <2>4. OperandAt(t, i) = left
    BY <1>1, <1>2, <2>3, OperandRead
  <2>5. /\ Word(t, i + 1) = "is" /\ Word(t, i + 2) = "null"
        /\ i + 1 + 1 = i + 2 /\ i + 2 + 1 = i + 3
    BY <2>3
  <2>6. AfterIs(t, i + 1) = i + 2
    BY <2>5 DEF AfterIs
  <2>7. TestAt(t, left) = IsAt(t, left, i + 2)
    BY <1>3, <2>5, <2>6, TestRule
  <2>8. (i + 2 = left.next + 2) = FALSE
    BY <1>3
  <2>9. l[3] = FALSE
    BY <1>0, <1>5
  <2>10. IsAt(t, left, i + 2) = Got(l, i + 3)
    BY <1>0, <1>3, <2>5, <2>8, <2>9 DEF IsAt
  <2>11. Len(TestWritten(l)) = 3
    BY <2>1
  <2> QED BY <1>1, <2>3, <2>4, <2>7, <2>10, <2>11 DEF IsRead
<1> QED BY <1>4, <1>5

\* Every test is read back as it was written.
LEMMA TestRead ==
  ASSUME NEW S, NEW t \in Seq(S), NEW i \in Nat, NEW l \in Tests, Readable(l),
         Says(t, i, TestWritten(l)), Word(t, i + Len(TestWritten(l))) \in Closers
  PROVE  IsRead(t, i, l)
<1>1. CASE l[1] = "cmp"
  <2>1. /\ l = <<"cmp", l[2], l[3], l[4]>> /\ l[2] \in Comparisons
        /\ TestWritten(l) = <<l[3], <<"op", l[2]>>, l[4]>>
    BY <1>1, TestForms, TestWrites
  <2>2. l[3] \in Named /\ l[4] \in Named /\ l[2] # "=~"
    BY <1>1, <2>1 DEF Readable, Comparisons
  <2> DEFINE op == l[2]
  <2>3. PICK x \in Named, y \in Named : x = l[3] /\ y = l[4]
    BY <2>2
  <2>4. TestWritten(l) = <<x, <<"op", op>>, y>> /\ op # "=~" /\ l = <<"cmp", op, x, y>>
    BY <2>1, <2>2, <2>3
  <2> HIDE DEF op
  <2> QED BY <2>4, OpRead
<1>2. CASE l[1] = "like" /\ l[2] = "regex"
  <2>1. /\ l = <<"like", l[2], l[3], l[4]>>
        /\ TestWritten(l) = <<l[3], <<"op", "=~">>, l[4]>>
    BY <1>2, TestForms, TestWrites
  <2>2. l[3] \in Named /\ l[4] \in Named
    BY <1>2 DEF Readable
  <2> DEFINE op == "=~"
  <2>3. PICK x \in Named, y \in Named : x = l[3] /\ y = l[4]
    BY <2>2
  <2>4. TestWritten(l) = <<x, <<"op", op>>, y>> /\ l = <<"like", "regex", x, y>>
    BY <1>2, <2>1, <2>3
  <2>5. l = IF op = "=~" THEN <<"like", "regex", x, y>> ELSE <<"cmp", op, x, y>>
    BY <2>4
  <2> HIDE DEF op
  <2> QED BY <2>4, <2>5, OpRead
<1>3. CASE l[1] = "like" /\ l[2] # "regex"
  BY <1>3, LikeRead
<1>4. CASE l[1] = "in"
  <2>1. /\ l = <<"in", l[2], l[3], l[4]>> /\ l[4] \in BOOLEAN
        /\ TestWritten(l) = InWritten(l[2], l[3], l[4])
    BY <1>4, TestForms, TestWrites
  <2>2. l[2] \in Named /\ l[3] \in Seq(Named) /\ l[2][1] # "id"
    BY <1>4 DEF Readable
  <2>3. Says(t, i, InWritten(l[2], l[3], l[4]))
    BY <2>1
  <2>4. PICK o \in Named, items \in Seq(Named), b \in BOOLEAN : o = l[2] /\ items = l[3] /\ b = l[4]
    BY <2>1, <2>2
  <2>5. Says(t, i, InWritten(o, items, b))
    BY <2>3, <2>4
  <2>6. /\ TestAt(t, OperandAt(t, i)) = Got(Membership(o, items, b), i + Len(InWritten(o, items, b)))
        /\ Word(t, i) \in Starts
    BY <2>5, InRead
  <2>7. Membership(o, items, b) = l
    BY <2>1, <2>2, <2>4 DEF Membership
  <2> QED BY <2>1, <2>4, <2>6, <2>7 DEF IsRead
<1>5. CASE l[1] = "idin"
  <2>1. /\ l = <<"idin", l[2], l[3]>> /\ l[2] \in Seq(InternalIds) /\ l[3] \in BOOLEAN
        /\ TestWritten(l) = InWritten(<<"id">>, l[2], l[3])
    BY <1>5, TestForms, TestWrites
  <2>2. <<"id">> \in Named /\ InternalIds \subseteq Named
    BY DEF Named, Operands, Starts, InternalIds
  <2>3. l[2] \in Seq(Named)
    BY <2>1, <2>2
  <2>4. PICK o \in Named, items \in Seq(Named), b \in BOOLEAN : o = <<"id">> /\ items = l[2] /\ b = l[3]
    BY <2>1, <2>2, <2>3
  <2>5. Says(t, i, InWritten(o, items, b))
    BY <2>1, <2>4
  <2>6. /\ TestAt(t, OperandAt(t, i)) = Got(Membership(o, items, b), i + Len(InWritten(o, items, b)))
        /\ Word(t, i) \in Starts
    BY <2>5, InRead
  <2>7. Kept(items, InternalIds) = items
    <3>1. items \in Seq(InternalIds)
      BY <2>1, <2>4
    <3>2. \A k \in 1..Len(items) : items[k] \in InternalIds
      BY <3>1, InList
    <3> QED BY <3>1, <3>2, KeptAll
  <2>8. o[1] = "id"
    BY <2>4
  <2>9. Membership(o, items, b) = l
    BY <2>1, <2>4, <2>7, <2>8 DEF Membership
  <2> QED BY <2>1, <2>4, <2>6, <2>9 DEF IsRead
<1>6. CASE l[1] = "isnull"
  BY <1>6, NullRead
<1>7. CASE l[1] = "flag"
  <2>1. l = <<"flag", l[2]>> /\ TestWritten(l) = <<l[2]>>
    BY <1>7, TestForms, TestWrites
  <2>2. l[2] \in Named /\ l[2][1] = "prop" /\ l[2][1] \in Starts
    BY <1>7 DEF Readable, Named
  <2>3. Says(t, i, <<l[2]>>) /\ Len(TestWritten(l)) = 1
    BY <2>1
  <2>4. t[i] = l[2] /\ Word(t, i) = l[2][1]
    BY <2>3, SaysOne
  <2>5. PICK left : left = Got(l[2], i + 1)
    OBVIOUS
  <2>6. left.next = i + 1 /\ left.tree = l[2]
    BY <2>5 DEF Got
  <2>7. OperandAt(t, i) = left
    BY <2>2, <2>4, <2>5, OperandRead
  <2>8. Word(t, i + 1) \in Closers
    BY <2>3
  <2>9. Word(t, i + 1) \notin {"is", "contains", "starts", "ends", "in", "not", "op"}
    BY <2>8 DEF Closers
  <2>10. TestAt(t, left) = IF left.tree[1] \in {"prop", "var"} THEN Got(<<"flag", left.tree>>, i + 1)
                           ELSE ParseError
    BY <2>6, <2>9, TestRule
  <2>11. TestAt(t, left) = Got(l, i + 1)
    BY <2>1, <2>2, <2>6, <2>10
  <2> QED BY <2>2, <2>3, <2>4, <2>7, <2>11 DEF IsRead
<1> QED BY <1>1, <1>2, <1>3, <1>4, <1>5, <1>6, <1>7, TestKinds

-----------------------------------------------------------------------------
(* Reading a tree.                                                         *)

\* From place i on, the rule reads x and goes on at j.
Gives(at, i, rule, x, j) == at[<<i, rule>>] = Got(x, j)

\* Where nothing joins it, what a rule has read is all that the rules above read.
LEMMA Rises ==
  ASSUME NEW t, NEW at, Reads(t, at)
  PROVE  \A i \in Nat : \A x, j :
           /\ Gives(at, i, "not", x, j) /\ Word(t, j) # "and" => Gives(at, i, "and", x, j)
           /\ Gives(at, i, "and", x, j) /\ Word(t, j) # "or" => Gives(at, i, "or", x, j)
<1> TAKE i \in Nat
<1> TAKE x, j
<1>1. PICK got : got = Got(x, j)
  OBVIOUS
<1>2. got.next = j
  BY <1>1 DEF Got
<1>3. at[<<i, "and">>] = JoinedAt(t, at, i, "and") /\ at[<<i, "or">>] = JoinedAt(t, at, i, "or")
  BY DEF Reads, Ruled
<1>4. ASSUME at[<<i, "not">>] = got, Word(t, j) # "and" PROVE at[<<i, "and">>] = got
  BY <1>2, <1>3, <1>4 DEF JoinedAt
<1>5. ASSUME at[<<i, "and">>] = got, Word(t, j) # "or" PROVE at[<<i, "or">>] = got
  BY <1>2, <1>3, <1>5 DEF JoinedAt
<1> QED BY <1>1, <1>4, <1>5 DEF Gives

LEMMA Joins ==
  ASSUME NEW t, NEW at, Reads(t, at)
  PROVE  \A i \in Nat : \A x, y, j, k :
           /\ Gives(at, i, "not", x, j) /\ Word(t, j) = "and" /\ Gives(at, j + 1, "and", y, k)
                => Gives(at, i, "and", <<"and", x, y>>, k)
           /\ Gives(at, i, "and", x, j) /\ Word(t, j) = "or" /\ Gives(at, j + 1, "or", y, k)
                => Gives(at, i, "or", <<"or", x, y>>, k)
<1> TAKE i \in Nat
<1> TAKE x, y, j, k
<1>1. PICK left, right : left = Got(x, j) /\ right = Got(y, k)
  OBVIOUS
<1>2. left.tree = x /\ left.next = j /\ right.tree = y /\ right.next = k
  BY <1>1 DEF Got
<1>3. at[<<i, "and">>] = JoinedAt(t, at, i, "and") /\ at[<<i, "or">>] = JoinedAt(t, at, i, "or")
  BY DEF Reads, Ruled
<1>4. ASSUME at[<<i, "not">>] = left, Word(t, j) = "and", at[<<j + 1, "and">>] = right
      PROVE  at[<<i, "and">>] = Got(<<"and", x, y>>, k)
  BY <1>2, <1>3, <1>4 DEF JoinedAt
<1>5. ASSUME at[<<i, "and">>] = left, Word(t, j) = "or", at[<<j + 1, "or">>] = right
      PROVE  at[<<i, "or">>] = Got(<<"or", x, y>>, k)
  BY <1>2, <1>3, <1>5 DEF JoinedAt
<1> QED BY <1>1, <1>4, <1>5 DEF Gives

LEMMA Negates ==
  ASSUME NEW t, NEW at, Reads(t, at)
  PROVE  \A i \in Nat : \A x, j :
           Word(t, i) = "not" /\ Word(t, i + 1) # "in" /\ Gives(at, i + 1, "not", x, j)
             => Gives(at, i, "not", <<"not", x>>, j)
<1> TAKE i \in Nat
<1> TAKE x, j
<1> HAVE Word(t, i) = "not" /\ Word(t, i + 1) # "in" /\ Gives(at, i + 1, "not", x, j)
<1>1. at[<<i, "not">>] = NotAt(t, at, i)
  BY DEF Reads, Ruled
<1>2. NotAt(t, at, i) = Got(<<"not", at[<<i + 1, "not">>].tree>>, at[<<i + 1, "not">>].next)
  BY NotRule
<1>3. Got(x, j).tree = x /\ Got(x, j).next = j
  BY DEF Got
<1> QED BY <1>1, <1>2, <1>3 DEF Gives

Openers == Starts \cup {"(", "not"}

\* What the rules make of a tree, wherever and before whatever its text stands.
TreeRead(t, at, e, i, j) ==
  /\ Word(t, j) \in Closers => Word(t, i) \in Openers
  /\ Word(t, j) \in Closers /\ e[1] \notin {"and", "or"} => Gives(at, i, "not", e, j)
  /\ Word(t, j) \in Closers \ {"and"} /\ e[1] # "or" => Gives(at, i, "and", e, j)
  /\ Word(t, j) \in Closers \ {"and", "or"} => Gives(at, i, "or", e, j)

EverRead(t, at, e) ==
  \A i, j \in Nat : Says(t, i, Written(e)) /\ j = i + Len(Written(e)) => TreeRead(t, at, e, i, j)

\* In brackets a tree is read as it was.
LEMMA WrappedRead ==
  ASSUME NEW t, NEW at, Reads(t, at), NEW x \in Trees, EverRead(t, at, x), NEW i \in Nat, NEW j \in Nat,
         Says(t, i, Wrapped(Written(x))), j = i + Len(Wrapped(Written(x)))
  PROVE  Word(t, i) = "(" /\ Gives(at, i, "not", x, j)
<1>1. PICK text \in Seq(Tokens) : text = Written(x)
  BY WrittenOf
<1>2. PICK a \in Seq(Tokens), c \in Seq(Tokens), b \in Seq(Tokens) :
        /\ a = <<<<"(">>>> /\ c = <<<<")">>>> /\ b = text \o c
        /\ Wrapped(text) = a \o b
  BY WrappedList, WordLists DEF Words
<1>3. PICK w : w = Wrapped(text)
  OBVIOUS
<1>4. Says(t, i, w) /\ j = i + Len(w) /\ w = a \o b
  BY <1>1, <1>2, <1>3
<1>5. Parted(t, i, a, b, w)
  BY <1>4, SaysParts
<1>6. Len(a) = 1 /\ Len(c) = 1
  BY <1>2
<1>7. Says(t, i, a) /\ Says(t, i + 1, b) /\ Len(w) = 1 + Len(b)
  BY <1>5, <1>6 DEF Parted
<1>8. Parted(t, i + 1, text, c, b)
  <2>1. i + 1 \in Nat
    OBVIOUS
  <2> QED BY <1>2, <1>7, <2>1, SaysParts
<1>9. PICK k \in Nat : k = i + 1 + Len(text)
  OBVIOUS
<1>10. Says(t, i + 1, text) /\ Says(t, k, c) /\ j = k + 1
  <2>1. Says(t, i + 1, text) /\ Says(t, i + 1 + Len(text), c) /\ Len(b) = Len(text) + 1 /\ Len(text) \in Nat
    BY <1>6, <1>8 DEF Parted
  <2>2. j = i + (1 + (Len(text) + 1))
    BY <1>4, <1>7, <2>1
  <2>3. j = k + 1
    BY <1>9, <2>1, <2>2
  <2> QED BY <1>9, <2>1, <2>3
<1>11. Word(t, i) = "(" /\ Word(t, k) = ")"
  <2>1. Says(t, i, <<<<"(">>>>) /\ Says(t, k, <<<<")">>>>)
    BY <1>2, <1>7, <1>10
  <2>2. Word(t, i) = <<"(">>[1] /\ Word(t, k) = <<")">>[1]
    BY <2>1, SaysOne
  <2> QED BY <2>2
<1>12. TreeRead(t, at, x, i + 1, k)
  <2>1. i + 1 \in Nat /\ Says(t, i + 1, Written(x)) /\ k = i + 1 + Len(Written(x))
    BY <1>1, <1>9, <1>10
  <2> QED BY <2>1 DEF EverRead
<1>13. Gives(at, i + 1, "or", x, k)
  BY <1>11, <1>12 DEF TreeRead, Closers
<1>14. at[<<i, "not">>] = NotAt(t, at, i)
  BY DEF Reads, Ruled
<1>15. NotAt(t, at, i) = Closing(t, at[<<i + 1, "or">>], ")")
  BY <1>11, NotRule
<1>16. Closing(t, Got(x, k), ")") = Got(x, k + 1)
  BY <1>11 DEF Closing, Got
<1> QED BY <1>10, <1>11, <1>13, <1>14, <1>15, <1>16 DEF Gives

\* With or without brackets, as a part of another tree.
UnderRead(t, at, x, words, i, j) ==
  /\ Word(t, i) \in Openers
  /\ {"and", "or"} \subseteq words => Gives(at, i, "not", x, j)
  /\ "or" \in words /\ Word(t, j) # "and" => Gives(at, i, "and", x, j)

LEMMA PartRead ==
  ASSUME NEW t, NEW at, Reads(t, at), NEW x \in Trees, EverRead(t, at, x), NEW i \in Nat, NEW j \in Nat,
         NEW words, NEW w, w = Under(Written(x), x, words), Says(t, i, w), j = i + Len(w),
         Word(t, j) \in Closers
  PROVE  UnderRead(t, at, x, words, i, j)
<1>1. CASE x[1] \in words
  <2>1. w = Wrapped(Written(x))
    BY <1>1 DEF Under
  <2>2. Says(t, i, Wrapped(Written(x))) /\ j = i + Len(Wrapped(Written(x)))
    BY <2>1
  <2>3. Word(t, i) = "(" /\ Gives(at, i, "not", x, j)
    BY <2>2, WrappedRead
  <2>4. ASSUME Word(t, j) # "and" PROVE Gives(at, i, "and", x, j)
    BY <2>3, <2>4, Rises
  <2> QED BY <2>3, <2>4 DEF UnderRead, Openers
<1>2. CASE x[1] \notin words
  <2>1. w = Written(x)
    BY <1>2 DEF Under
  <2>2. TreeRead(t, at, x, i, j)
    BY <2>1 DEF EverRead
  <2> QED BY <1>2, <2>2 DEF TreeRead, UnderRead
<1> QED BY <1>1, <1>2

\* Two parts that a word joins.
SaysJoined(t, i, u, word, v, h, j) ==
  /\ h \in Nat /\ h = i + Len(u) /\ j = h + 1 + Len(v)
  /\ Says(t, i, u) /\ Word(t, h) = word /\ Says(t, h + 1, v)

LEMMA JoinedSaid ==
  ASSUME NEW t, NEW i \in Nat, NEW u \in Seq(Tokens), NEW v \in Seq(Tokens), NEW word \in Words,
         NEW w, w = u \o <<<<word>>>> \o v, Says(t, i, w), NEW j, j = i + Len(w)
  PROVE  \E h : SaysJoined(t, i, u, word, v, h, j)
<1>1. PICK c \in Seq(Tokens) : c = <<<<word>>>>
  BY WordLists
<1>2. PICK b \in Seq(Tokens) : b = u \o c
  BY InBoth
<1>3. w = b \o v
  BY <1>1, <1>2
<1>4. Parted(t, i, b, v, w)
  BY <1>3, SaysParts
<1>5. Parted(t, i, u, c, b)
  <2>1. Says(t, i, b)
    BY <1>4 DEF Parted
  <2> QED BY <1>2, <2>1, SaysParts
<1>6. Len(c) = 1
  BY <1>1
<1>7. PICK h \in Nat : h = i + Len(u)
  BY <1>5 DEF Parted
<1>8. Len(b) = Len(u) + 1 /\ i + Len(b) = h + 1 /\ Len(u) \in Nat /\ Len(v) \in Nat /\ Len(w) = Len(b) + Len(v)
  BY <1>4, <1>5, <1>6, <1>7 DEF Parted
<1>9. j = h + 1 + Len(v)
  <2>1. j = i + (Len(u) + 1 + Len(v))
    BY <1>8
  <2> QED BY <1>7, <1>8, <2>1
<1>10. Says(t, i, u) /\ Says(t, h, c) /\ Says(t, h + 1, v)
  BY <1>4, <1>5, <1>7, <1>8 DEF Parted
<1>11. Word(t, h) = word
  <2>1. Says(t, h, <<<<word>>>>)
    BY <1>1, <1>10
  <2>2. Word(t, h) = <<word>>[1]
    BY <2>1, SaysOne
  <2> QED BY <2>2
<1> QED BY <1>7, <1>9, <1>10, <1>11 DEF SaysJoined

LEMMA AndRead ==
  ASSUME NEW t, NEW at, Reads(t, at), NEW e \in Trees, e[1] = "and",
         EverRead(t, at, e[2]), EverRead(t, at, e[3]), NEW i \in Nat, NEW j \in Nat,
         Says(t, i, Written(e)), j = i + Len(Written(e))
  PROVE  TreeRead(t, at, e, i, j)
<1>1. e[2] \in Trees /\ e[3] \in Trees /\ e = <<"and", e[2], e[3]>>
  BY TreeParts
<1>2. PICK x \in Trees, y \in Trees : x = e[2] /\ y = e[3]
  BY <1>1
<1>3. Written(x) \in Seq(Tokens) /\ Written(y) \in Seq(Tokens)
  BY WrittenOf
<1>4. PICK u \in Seq(Tokens), v \in Seq(Tokens) :
        u = Under(Written(x), x, {"and", "or"}) /\ v = Under(Written(y), y, {"or"})
  BY <1>3, UnderList
<1>5. Written(e) = u \o <<<<"and">>>> \o v
  <2>1. Written(e) = Under(Written(e[2]), e[2], {"and", "or"}) \o <<<<"and">>>> \o Under(Written(e[3]), e[3], {"or"})
    BY WrittenOf
  <2> QED BY <1>2, <1>4, <2>1
<1>6. PICK h : SaysJoined(t, i, u, "and", v, h, j)
  <2>1. "and" \in Words
    BY DEF Words
  <2> QED BY <1>5, <2>1, JoinedSaid
<1>7. /\ h \in Nat /\ h = i + Len(u) /\ j = h + 1 + Len(v) /\ h + 1 \in Nat
      /\ Says(t, i, u) /\ Word(t, h) = "and" /\ Says(t, h + 1, v)
  BY <1>6 DEF SaysJoined
<1>8. UnderRead(t, at, x, {"and", "or"}, i, h)
  <2>1. Word(t, h) \in Closers /\ EverRead(t, at, x)
    BY <1>2, <1>7 DEF Closers
  <2> QED BY <1>4, <1>7, <2>1, PartRead
<1>9. Word(t, i) \in Openers /\ Gives(at, i, "not", x, h)
  BY <1>8 DEF UnderRead
<1>10. ASSUME Word(t, j) \in Closers \ {"and"} PROVE Gives(at, i, "and", e, j)
  <2>1. UnderRead(t, at, y, {"or"}, h + 1, j)
    <3>1. Word(t, j) \in Closers /\ EverRead(t, at, y)
      BY <1>2, <1>10
    <3> QED BY <1>4, <1>7, <3>1, PartRead
  <2>2. Gives(at, h + 1, "and", y, j)
    BY <1>10, <2>1 DEF UnderRead
  <2>4. Gives(at, i, "and", <<"and", x, y>>, j)
    BY <1>7, <1>9, <2>2, Joins
  <2> QED BY <1>1, <1>2, <2>4
<1>11. ASSUME Word(t, j) \in Closers \ {"and", "or"} PROVE Gives(at, i, "or", e, j)
  <2>1. Gives(at, i, "and", e, j) /\ Word(t, j) # "or"
    BY <1>10, <1>11
  <2> QED BY <2>1, Rises
<1> QED BY <1>9, <1>10, <1>11 DEF TreeRead

LEMMA OrRead ==
  ASSUME NEW t, NEW at, Reads(t, at), NEW e \in Trees, e[1] = "or",
         EverRead(t, at, e[2]), EverRead(t, at, e[3]), NEW i \in Nat, NEW j \in Nat,
         Says(t, i, Written(e)), j = i + Len(Written(e))
  PROVE  TreeRead(t, at, e, i, j)
<1>1. e[2] \in Trees /\ e[3] \in Trees /\ e = <<"or", e[2], e[3]>>
  BY TreeParts
<1>2. PICK x \in Trees, y \in Trees : x = e[2] /\ y = e[3]
  BY <1>1
<1>3. Written(x) \in Seq(Tokens) /\ Written(y) \in Seq(Tokens)
  BY WrittenOf
<1>4. PICK u \in Seq(Tokens), v \in Seq(Tokens) : u = Under(Written(x), x, {"or"}) /\ v = Written(y)
  BY <1>3, UnderList
<1>5. Written(e) = u \o <<<<"or">>>> \o v
  <2>1. Written(e) = Under(Written(e[2]), e[2], {"or"}) \o <<<<"or">>>> \o Written(e[3])
    BY WrittenOf
  <2> QED BY <1>2, <1>4, <2>1
<1>6. PICK h : SaysJoined(t, i, u, "or", v, h, j)
  <2>1. "or" \in Words
    BY DEF Words
  <2> QED BY <1>5, <2>1, JoinedSaid
<1>7. /\ h \in Nat /\ h = i + Len(u) /\ j = h + 1 + Len(v) /\ h + 1 \in Nat
      /\ Says(t, i, u) /\ Word(t, h) = "or" /\ Says(t, h + 1, v)
  BY <1>6 DEF SaysJoined
<1>8. UnderRead(t, at, x, {"or"}, i, h)
  <2>1. Word(t, h) \in Closers /\ EverRead(t, at, x)
    BY <1>2, <1>7 DEF Closers
  <2> QED BY <1>4, <1>7, <2>1, PartRead
<1>9. Word(t, i) \in Openers /\ Gives(at, i, "and", x, h)
  BY <1>7, <1>8 DEF UnderRead
<1>10. ASSUME Word(t, j) \in Closers \ {"and", "or"} PROVE Gives(at, i, "or", e, j)
  <2>1. TreeRead(t, at, y, h + 1, j)
    BY <1>2, <1>4, <1>7 DEF EverRead
  <2>2. Gives(at, h + 1, "or", y, j)
    BY <1>10, <2>1 DEF TreeRead
  <2>4. Gives(at, i, "or", <<"or", x, y>>, j)
    BY <1>7, <1>9, <2>2, Joins
  <2> QED BY <1>1, <1>2, <2>4
<1> QED BY <1>9, <1>10 DEF TreeRead

LEMMA NotRead ==
  ASSUME NEW t, NEW at, Reads(t, at), NEW e \in Trees, e[1] = "not",
         EverRead(t, at, e[2]), NEW i \in Nat, NEW j \in Nat,
         Says(t, i, Written(e)), j = i + Len(Written(e))
  PROVE  TreeRead(t, at, e, i, j)
<1>1. e[2] \in Trees /\ e = <<"not", e[2]>>
  BY TreeParts
<1>2. PICK x \in Trees : x = e[2]
  BY <1>1
<1>3. PICK c \in Seq(Tokens), u \in Seq(Tokens) :
        c = <<<<"not">>>> /\ u = Under(Written(x), x, {"and", "or"})
  BY WrittenOf, UnderList, WordLists DEF Words
<1>4. PICK w : w = Written(e)
  OBVIOUS
<1>5. w = c \o u /\ Says(t, i, w) /\ j = i + Len(w)
  BY <1>2, <1>3, <1>4, WrittenOf
<1>6. Parted(t, i, c, u, w)
  BY <1>5, SaysParts
<1>7. Len(c) = 1
  BY <1>3
<1>8. Says(t, i, c) /\ Says(t, i + 1, u) /\ j = i + 1 + Len(u) /\ i + 1 \in Nat
  BY <1>5, <1>6, <1>7 DEF Parted
<1>9. Word(t, i) = "not"
  <2>1. Says(t, i, <<<<"not">>>>)
    BY <1>3, <1>8
  <2>2. Word(t, i) = <<"not">>[1]
    BY <2>1, SaysOne
  <2> QED BY <2>2
<1>10. ASSUME Word(t, j) \in Closers PROVE Gives(at, i, "not", e, j)
  <2>1. UnderRead(t, at, x, {"and", "or"}, i + 1, j)
    <3>1. EverRead(t, at, x)
      BY <1>2
    <3> QED BY <1>3, <1>8, <1>10, <3>1, PartRead
  <2>2. Word(t, i + 1) \in Openers /\ Gives(at, i + 1, "not", x, j)
    BY <2>1 DEF UnderRead
  <2>3. Word(t, i + 1) # "in"
    BY <2>2 DEF Openers, Starts, Literals
  <2>4. Gives(at, i, "not", <<"not", x>>, j)
    BY <1>9, <2>2, <2>3, Negates
  <2> QED BY <1>1, <1>2, <2>4
<1>11. ASSUME Word(t, j) \in Closers \ {"and"} PROVE Gives(at, i, "and", e, j)
  <2>1. Gives(at, i, "not", e, j) /\ Word(t, j) # "and"
    BY <1>10, <1>11
  <2> QED BY <2>1, Rises
<1>12. ASSUME Word(t, j) \in Closers \ {"and", "or"} PROVE Gives(at, i, "or", e, j)
  <2>1. Gives(at, i, "and", e, j) /\ Word(t, j) # "or"
    BY <1>11, <1>12
  <2> QED BY <2>1, Rises
<1> QED BY <1>9, <1>10, <1>11, <1>12 DEF TreeRead, Openers

LEMMA LeafRead ==
  ASSUME NEW S, NEW t \in Seq(S), NEW at, Reads(t, at), NEW l \in Tests, Readable(l)
  PROVE  EverRead(t, at, l)
<1> SUFFICES ASSUME NEW i \in Nat, NEW j \in Nat, Says(t, i, Written(l)), j = i + Len(Written(l))
             PROVE  TreeRead(t, at, l, i, j)
  BY DEF EverRead
<1>1. l \in Trees /\ l[1] \notin {"and", "or", "not"}
  BY TreeLevels, TreesGrow, TestKinds
<1>2. Written(l) = TestWritten(l)
  BY <1>1, WrittenOf
<1>3. ASSUME Word(t, j) \in Closers PROVE Word(t, i) \in Openers /\ Gives(at, i, "not", l, j)
  <2>1. Says(t, i, TestWritten(l)) /\ j = i + Len(TestWritten(l)) /\ Word(t, i + Len(TestWritten(l))) \in Closers
    BY <1>2, <1>3
  <2>2. IsRead(t, i, l)
    BY <2>1, TestRead
  <2>3. TestAt(t, OperandAt(t, i)) = Got(l, j) /\ Word(t, i) \in Starts
    BY <2>1, <2>2 DEF IsRead
  <2>4. Word(t, i) \notin {"not", "("}
    BY <2>3 DEF Starts, Literals
  <2>5. NotAt(t, at, i) = TestAt(t, OperandAt(t, i))
    BY <2>4, NotRule
  <2>6. at[<<i, "not">>] = NotAt(t, at, i)
    BY DEF Reads, Ruled
  <2> QED BY <2>3, <2>5, <2>6 DEF Gives, Openers
<1>4. ASSUME Word(t, j) \in Closers \ {"and"} PROVE Gives(at, i, "and", l, j)
  <2>1. Gives(at, i, "not", l, j) /\ Word(t, j) # "and"
    BY <1>3, <1>4
  <2> QED BY <2>1, Rises
<1>5. ASSUME Word(t, j) \in Closers \ {"and", "or"} PROVE Gives(at, i, "or", l, j)
  <2>1. Gives(at, i, "and", l, j) /\ Word(t, j) # "or"
    BY <1>4, <1>5
  <2> QED BY <2>1, Rises
<1> QED BY <1>3, <1>4, <1>5 DEF TreeRead

Sayable(e) == \A l \in Leaves(e) : Readable(l)

LEMMA TreesRead ==
  ASSUME NEW S, NEW t \in Seq(S), NEW at, Reads(t, at)
  PROVE  \A e \in Trees : Sayable(e) => EverRead(t, at, e)
<1> DEFINE P == {e \in Trees : Sayable(e) => EverRead(t, at, e)}
<1>1. Tests \subseteq P
  <2> SUFFICES ASSUME NEW l \in Tests, Sayable(l) PROVE l \in Trees /\ EverRead(t, at, l)
    <3>1. \A l \in Tests : l \in Trees
      BY TreeLevels, TreesGrow
    <3> QED BY <3>1
  <2>1. l \in Trees
    BY TreeLevels, TreesGrow
  <2>2. Readable(l)
    BY <2>1, LeavesOf DEF Sayable
  <2> QED BY <2>1, <2>2, LeafRead
<1>2. ASSUME NEW e \in Trees, e[1] \in {"and", "or"}, e[2] \in P, e[3] \in P PROVE e \in P
  <2> SUFFICES ASSUME Sayable(e) PROVE EverRead(t, at, e)
    OBVIOUS
  <2>1. Leaves(e) = Leaves(e[2]) \cup Leaves(e[3])
    BY <1>2, LeavesOf
  <2>2. EverRead(t, at, e[2]) /\ EverRead(t, at, e[3])
    BY <1>2, <2>1 DEF Sayable
  <2> SUFFICES ASSUME NEW i \in Nat, NEW j \in Nat, Says(t, i, Written(e)), j = i + Len(Written(e))
               PROVE  TreeRead(t, at, e, i, j)
    BY DEF EverRead
  <2>3. CASE e[1] = "and"
    BY <2>2, <2>3, AndRead
  <2>4. CASE e[1] = "or"
    BY <2>2, <2>4, OrRead
  <2> QED BY <1>2, <2>3, <2>4
<1>3. ASSUME NEW e \in Trees, e[1] = "not", e[2] \in P PROVE e \in P
  <2> SUFFICES ASSUME Sayable(e) PROVE EverRead(t, at, e)
    OBVIOUS
  <2>1. Leaves(e) = Leaves(e[2])
    BY <1>3, LeavesOf
  <2>2. EverRead(t, at, e[2])
    BY <1>3, <2>1 DEF Sayable
  <2> SUFFICES ASSUME NEW i \in Nat, NEW j \in Nat, Says(t, i, Written(e)), j = i + Len(Written(e))
               PROVE  TreeRead(t, at, e, i, j)
    BY DEF EverRead
  <2> QED BY <1>3, <2>2, NotRead
<1> HIDE DEF P
<1>4. Trees \subseteq P
  BY <1>1, <1>2, <1>3, PartsInduction
<1> QED BY <1>4 DEF P

\* The parser undoes Written.
LEMMA ParseUndoesWritten ==
  ASSUME NEW e \in Trees, Sayable(e)
  PROVE  Parse(Written(e)) = e /\ Written(e) # <<>>
<1>1. PICK t \in Seq(Tokens) : t = Written(e)
  BY WrittenOf
<1>2. PICK n \in Nat : n = Len(t) /\ DOMAIN t = 1..n
  BY InList
<1>3. PICK at : /\ Reads(t, at)
                /\ Parse(t) = IF at[<<1, "or">>].next = Len(t) + 1 THEN at[<<1, "or">>].tree
                              ELSE <<"error">>
  BY ParseRules
<1>4. EverRead(t, at, e)
  BY <1>3, TreesRead
<1>5. Says(t, 1, t)
  <2>1. \A k \in 1..n : 1 + k - 1 = k
    OBVIOUS
  <2> QED BY <1>2, <2>1 DEF Says
<1>6. TreeRead(t, at, e, 1, n + 1)
  <2>1. Says(t, 1, Written(e)) /\ n + 1 = 1 + Len(Written(e)) /\ 1 \in Nat /\ n + 1 \in Nat
    BY <1>1, <1>2, <1>5
  <2> QED BY <1>4, <2>1 DEF EverRead
<1>7. Word(t, n + 1) = "end"
  BY <1>2, WordEnds
<1>8. Gives(at, 1, "or", e, n + 1) /\ Word(t, 1) \in Openers
  BY <1>6, <1>7 DEF TreeRead, Closers
<1>9. PICK got : got = at[<<1, "or">>]
  OBVIOUS
<1>10. got.tree = e /\ got.next = n + 1
  BY <1>8, <1>9 DEF Gives, Got
<1>11. Parse(t) = e
  BY <1>2, <1>3, <1>9, <1>10
<1>12. t # <<>>
  <2>1. Word(t, 1) # "end"
    BY <1>8, WordSets DEF Openers
  <2>2. 1 \in 1..n
    BY <1>2, <2>1, WordEnds
  <2> QED BY <1>2, <2>2
<1> QED BY <1>1, <1>11, <1>12

\* There is no filter, or it is written as Written does and can be said.
SaidPlainly(f) == \/ f.text = <<>> /\ f.meant = <<"all">>
                  \/ f.meant \in Trees /\ Sayable(f.meant) /\ f.text = Written(f.meant)

(***************************************************************************)
(* For every tree, however deep: the parser takes NOT, AND, OR and the     *)
(* brackets of its text as they were meant, IN and IS take their own NOT,  *)
(* and all of the text is read, wherever its keywords and brackets are.    *)
(* What is no tree, and the other ways to write one, are for TLC.          *)
(***************************************************************************)
THEOREM FiltersAreReadAsMeant ==
  Spec => [](SaidPlainly(filter) => ReadAsMeant /\ ParsedAsWritten)
<1>1. IInv => (SaidPlainly(filter) => ReadAsMeant /\ ParsedAsWritten)
  <2> SUFFICES ASSUME IInv, SaidPlainly(filter), stage # "asked"
               PROVE  filter.meant # <<"error">> /\ where = filter.meant
    BY DEF ParsedAsWritten, ReadAsMeant
  <2>1. where = IF filter.text = <<>> THEN <<"all">> ELSE Parse(filter.text)
    BY DEF IInv, Understood
  <2>2. CASE filter.text = <<>> /\ filter.meant = <<"all">>
    <3>1. <<"all">> # <<"error">>
      OBVIOUS
    <3> QED BY <2>1, <2>2, <3>1
  <2>3. CASE filter.meant \in Trees /\ Sayable(filter.meant) /\ filter.text = Written(filter.meant)
    <3>1. Parse(filter.text) = filter.meant /\ filter.text # <<>>
      BY <2>3, ParseUndoesWritten
    <3> QED BY <2>1, <2>3, <3>1, NoTreeWords
  <2> QED BY <2>2, <2>3 DEF SaidPlainly
<1> QED BY <1>1, IInvHolds, PTL
=============================================================================
