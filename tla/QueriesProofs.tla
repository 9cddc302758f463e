--------------------------- MODULE QueriesProofs ---------------------------
(***************************************************************************)
(* The statements that a pattern becomes find exactly what the pattern     *)
(* means, what the answers to queries show, and no refusal is lost on the  *)
(* way to the caller, for every mapping, pattern, query and content of the *)
(* tables and every order of branches: proofs about Patterns and Queries.  *)
(***************************************************************************)
EXTENDS Queries, ListsProofs, TLAPS

-----------------------------------------------------------------------------
(* What the branches of a pattern find together (Patterns).                *)

\* A branch is the pattern with one type for each hop, and nothing else changed.
Typed(p, b) ==
  /\ b.dirs = p.dirs /\ b.labels = p.labels /\ b.ids = p.ids
  /\ \A i \in 1..Hops(p) : \E t \in TypesOf(p, i) : b.types[i] = {t}

LEMMA BranchesTyped ==
  ASSUME NEW p, WellFormed(p), NEW b \in Branches(p)
  PROVE  Typed(p, b)
<1>1. PICK f \in [1..Hops(p) -> {{t} : t \in UNION {TypesOf(p, i) : i \in 1..Hops(p)}}] :
        /\ b = [p EXCEPT !.types = f]
        /\ \A i \in 1..Hops(p) : f[i] \subseteq TypesOf(p, i)
  BY DEF Branches
<1>2. b.dirs = p.dirs /\ b.labels = p.labels /\ b.ids = p.ids /\ b.types = f
  BY <1>1 DEF WellFormed
<1>3. ASSUME NEW i \in 1..Hops(p) PROVE \E t \in TypesOf(p, i) : f[i] = {t}
  <2>1. PICK t : f[i] = {t}
    BY <1>1
  <2> QED BY <2>1, <1>1
<1> QED BY <1>2, <1>3 DEF Typed

LEMMA OrientationsOf ==
  ASSUME NEW dir \in {"out", "in", "both"}
  PROVE  /\ FALSE \in Orientations[dir] <=> dir \in {"out", "both"}
         /\ TRUE \in Orientations[dir] <=> dir \in {"in", "both"}
<1>1. /\ Orientations["out"] = {FALSE}
      /\ Orientations["in"] = {TRUE}
      /\ Orientations["both"] = {FALSE, TRUE}
  BY DEF Orientations
<1>2. /\ FALSE \in Orientations["out"] /\ TRUE \notin Orientations["out"]
      /\ FALSE \notin Orientations["in"] /\ TRUE \in Orientations["in"]
      /\ FALSE \in Orientations["both"] /\ TRUE \in Orientations["both"]
  BY <1>1, Zenon
<1> QED BY <1>2

\* A hop's meanings: a link is followed iff some pair of its type joins it.
LEMMA FollowedIsJoined ==
  ASSUME NEW l, l.type \in Types, NEW a \in Records, NEW c \in Records,
         NEW dir \in {"out", "in", "both"}
  PROVE  Follows(dir, l, a, c) <=>
           \E e \in BoundEdges : /\ e.type = l.type
                                 /\ e.swapped \in Orientations[dir]
                                 /\ Near(e) = a.label /\ Far(e) = c.label
                                 /\ Joined(e, a, l, c)
<1> DEFINE Edge(q, s) == [type |-> l.type, pair |-> q, swapped |-> s]
           Meant(e) == /\ e.type = l.type
                       /\ e.swapped \in Orientations[dir]
                       /\ Near(e) = a.label /\ Far(e) = c.label
                       /\ Joined(e, a, l, c)
<1>1. \A q \in Endpoints[l.type] : \A s \in BOOLEAN : Edge(q, s) \in BoundEdges
  BY DEF BoundEdges
<1>2. ASSUME dir \in {"out", "both"}, Connects(l, a, c) PROVE \E e \in BoundEdges : Meant(e)
  <2>1. PICK q \in Endpoints[l.type] : /\ a.label = q.src /\ l.col[q.src_col] = a.key
                                       /\ c.label = q.dst /\ l.col[q.dst_col] = c.key
    BY <1>2 DEF Connects, Reads
  <2>2. FALSE \in Orientations[dir]
    BY <1>2, OrientationsOf
  <2>3. Meant(Edge(q, FALSE))
    BY <2>1, <2>2 DEF Near, Far, Joined, NearCol, FarCol
  <2> QED BY <2>3, <1>1
<1>3. ASSUME dir \in {"in", "both"}, Connects(l, c, a) PROVE \E e \in BoundEdges : Meant(e)
  <2>1. PICK q \in Endpoints[l.type] : /\ c.label = q.src /\ l.col[q.src_col] = c.key
                                       /\ a.label = q.dst /\ l.col[q.dst_col] = a.key
    BY <1>3 DEF Connects, Reads
  <2>2. TRUE \in Orientations[dir]
    BY <1>3, OrientationsOf
  <2>3. Meant(Edge(q, TRUE))
    BY <2>1, <2>2 DEF Near, Far, Joined, NearCol, FarCol
  <2> QED BY <2>3, <1>1
<1>4. ASSUME NEW e \in BoundEdges, Meant(e) PROVE Follows(dir, l, a, c)
  <2>1. PICK t \in Types : e \in [type : {t}, pair : Endpoints[t], swapped : BOOLEAN]
    BY DEF BoundEdges
  <2>2. e.pair \in Endpoints[l.type] /\ e.swapped \in BOOLEAN
    BY <2>1, <1>4
  <2>3. CASE ~e.swapped
    <3>1. Connects(l, a, c)
      BY <2>2, <2>3, <1>4 DEF Connects, Reads, Near, Far, Joined, NearCol, FarCol
    <3>2. dir \in {"out", "both"}
      BY <2>2, <2>3, <1>4, OrientationsOf
    <3> QED BY <3>1, <3>2 DEF Follows
  <2>4. CASE e.swapped
    <3>1. Connects(l, c, a)
      BY <2>2, <2>4, <1>4 DEF Connects, Reads, Near, Far, Joined, NearCol, FarCol
    <3>2. dir \in {"in", "both"}
      BY <2>2, <2>4, <1>4, OrientationsOf
    <3> QED BY <3>1, <3>2 DEF Follows
  <2> QED BY <2>3, <2>4
<1> QED BY <1>2, <1>3, <1>4 DEF Follows

\* A branch fixes the labels that the pattern fixes.
\* A pattern with the same vertices and directions, and no other types.
Narrows(p, b) ==
  /\ b.dirs = p.dirs /\ b.labels = p.labels /\ b.ids = p.ids
  /\ \A i \in 1..Hops(p) : TypesOf(b, i) \subseteq TypesOf(p, i)

LEMMA TypedNarrows ==
  ASSUME NEW p, NEW b, Typed(p, b)
  PROVE  Narrows(p, b)
<1>1. ASSUME NEW i \in 1..Hops(p) PROVE TypesOf(b, i) \subseteq TypesOf(p, i)
  <2>1. PICK t \in TypesOf(p, i) : b.types[i] = {t}
    BY <1>1 DEF Typed
  <2>2. TypesOf(b, i) = b.types[i]
    BY <2>1 DEF TypesOf
  <2> QED BY <2>1, <2>2
<1> QED BY <1>1 DEF Narrows, Typed

LEMMA NarrowFixes ==
  ASSUME NEW p, NEW b, Narrows(p, b)
  PROVE  /\ Hops(b) = Hops(p) /\ Vertices(b) = Vertices(p)
         /\ \A i : Fixed(b, i) = Fixed(p, i)
<1>1. Hint(b) = Hint(p)
  BY DEF Narrows, Hint
<1> QED BY <1>1 DEF Narrows, Hops, Vertices, Fixed

\* A row of a concrete plan is a path that the pattern matches.
LEMMA RowsMatch ==
  ASSUME NEW p, WellFormed(p), Plain(p), NEW present, \A l \in present : l.type \in Types,
         NEW b, Narrows(p, b), NEW cp \in ConcretePlans(b), NEW m \in Rows(b, cp, present)
  PROVE  m \in Matches(p, present)
<1>1. /\ m \in Paths(p, present)
      /\ cp \in [labels : [Vertices(p) -> Labels], edges : Combinations(b)]
      /\ \A i \in Vertices(p) : m.nodes[i].label = cp.labels[i]
      /\ \A i \in Vertices(p) : Fixed(p, i) \in {NoLabel, cp.labels[i]}
  BY NarrowFixes DEF Rows, ConcretePlans, Paths
<1>2. \A i \in Vertices(p) : p.labels[i] \in {NoLabel, m.nodes[i].label}
  BY <1>1, PatternsAssumption DEF Plain, Fixed
<1>3. Hops(p) \in Nat
  BY DEF Hops, WellFormed
<1>4. ASSUME NEW i \in 1..Hops(p)
      PROVE  /\ m.rels[i].type \in TypesOf(p, i)
             /\ Follows(p.dirs[i], m.rels[i], m.nodes[i], m.nodes[i + 1])
  <2> DEFINE e == cp.edges[i]
             l == m.rels[i]
  <2>1. i \in Vertices(p) /\ i + 1 \in Vertices(p) /\ 1 \in Vertices(p)
    BY <1>3 DEF Vertices
  <2>2. l \in present /\ m.nodes[i] \in Records /\ m.nodes[i + 1] \in Records
    BY <1>1, <2>1 DEF Paths
  <2>3. e \in BoundEdges /\ e \in EdgeCandidates(b, i)
    BY <1>1, NarrowFixes DEF Combinations, EdgeCandidates
  <2>4. Near(e) = m.nodes[i].label /\ Far(e) = m.nodes[i + 1].label
    BY <1>1, <2>1, NarrowFixes DEF ConcretePlans
  <2>5. Joined(e, m.nodes[i], l, m.nodes[i + 1])
    BY NarrowFixes DEF Rows
  <2>6. e.type \in TypesOf(b, i) /\ e.swapped \in Orientations[p.dirs[i]]
    BY <2>3 DEF EdgeCandidates, Narrows
  <2>8. e.type \in TypesOf(p, i)
    BY <2>6 DEF Narrows
  <2>9. e.type = l.type
    BY <2>5 DEF Joined
  <2>10. p.dirs[i] \in {"out", "in", "both"}
    BY DEF WellFormed, Hops
  <2>11. Follows(p.dirs[i], l, m.nodes[i], m.nodes[i + 1])
    BY <2>2, <2>3, <2>4, <2>5, <2>6, <2>9, <2>10, FollowedIsJoined
  <2> QED BY <2>8, <2>9, <2>11
<1>5. \A i, j \in 1..Hops(p) : i # j => m.rels[i] # m.rels[j]
  BY <1>1 DEF Rows, Unique, Paths
<1>6. p.ids = <<>> \/ \E i \in DOMAIN p.ids : m.nodes[1] = p.ids[i]
  <2>1. SUFFICES ASSUME p.ids # <<>> PROVE \E i \in DOMAIN p.ids : m.nodes[1] = p.ids[i]
    OBVIOUS
  <2>2. PICK i \in DOMAIN p.ids : p.ids[i].key = m.nodes[1].key
    BY <2>1 DEF Rows, KeySelected, Narrows
  <2>3. 1 \in Vertices(p)
    BY <1>3 DEF Vertices
  <2>4. m.nodes[1] \in Records /\ p.ids[i] \in Records
    BY <1>1, <2>3 DEF Paths, WellFormed
  <2>5. CASE Fixed(p, 1) = p.ids[i].label
    <3>1. m.nodes[1].label = p.ids[i].label
      BY <1>1, <2>3, <2>4, <2>5, PatternsAssumption
    <3> QED BY <3>1, <2>2, <2>4, PatternsAssumption
  <2>6. CASE \A s \in Records : s.key = p.ids[i].key => s = p.ids[i]
    BY <2>2, <2>4, <2>6
  <2> QED BY <2>5, <2>6 DEF Plain
<1> QED BY <1>1, <1>2, <1>4, <1>5, <1>6 DEF Matches

\* What the mapping may mean by hop i of a path.
Means(p, m, i, e) ==
  /\ e.type = m.rels[i].type
  /\ e.swapped \in Orientations[p.dirs[i]]
  /\ Near(e) = m.nodes[i].label /\ Far(e) = m.nodes[i + 1].label
  /\ Joined(e, m.nodes[i], m.rels[i], m.nodes[i + 1])

\* A concrete plan of b finds the path, by these edges.
Walks(b, present, m, edges) ==
  \E cp \in ConcretePlans(b) : m \in Rows(b, cp, present) /\ cp.edges = edges

LEMMA HopsHaveMeanings ==
  ASSUME NEW p, WellFormed(p), NEW present, \A l \in present : l.type \in Types,
         NEW m \in Matches(p, present), NEW i \in 1..Hops(p)
  PROVE  /\ m.rels[i] \in present /\ m.nodes[i] \in Records /\ m.nodes[i + 1] \in Records
         /\ p.dirs[i] \in {"out", "in", "both"}
         /\ \E e \in BoundEdges : Means(p, m, i, e)
<1>1. m \in Paths(p, present) /\ Follows(p.dirs[i], m.rels[i], m.nodes[i], m.nodes[i + 1])
  BY DEF Matches
<1>2. i \in Vertices(p) /\ i + 1 \in Vertices(p)
  BY DEF Hops, Vertices, WellFormed
<1>3. m.rels[i] \in present /\ p.dirs[i] \in {"out", "in", "both"}
  BY <1>1 DEF Paths, WellFormed, Hops
<1>4. m.nodes[i] \in Records /\ m.nodes[i + 1] \in Records
  BY <1>1, <1>2 DEF Paths
<1>5. \E e \in BoundEdges : Means(p, m, i, e)
  BY <1>1, <1>3, <1>4, FollowedIsJoined DEF Means
<1> QED BY <1>3, <1>4, <1>5

\* Whatever each hop may mean, a concrete plan means it and finds the path.
LEMMA MeaningsAreRows ==
  ASSUME NEW p, WellFormed(p), Plain(p), NEW present, \A l \in present : l.type \in Types,
         NEW m \in Matches(p, present), NEW edges \in [1..Hops(p) -> BoundEdges],
         \A i \in 1..Hops(p) : Means(p, m, i, edges[i])
  PROVE  \E b \in Branches(p) : Walks(b, present, m, edges)
<1>1. /\ m \in Paths(p, present)
      /\ \A i \in Vertices(p) : p.labels[i] \in {NoLabel, m.nodes[i].label}
      /\ \A i \in 1..Hops(p) : /\ m.rels[i].type \in TypesOf(p, i)
                               /\ Follows(p.dirs[i], m.rels[i], m.nodes[i], m.nodes[i + 1])
      /\ \A i, j \in 1..Hops(p) : i # j => m.rels[i] # m.rels[j]
      /\ p.ids = <<>> \/ \E i \in DOMAIN p.ids : m.nodes[1] = p.ids[i]
  BY DEF Matches
<1>2. /\ Hops(p) \in Nat /\ 1 \in Vertices(p)
      /\ \A i \in 1..Hops(p) : i \in Vertices(p) /\ i + 1 \in Vertices(p)
  BY DEF Hops, Vertices, WellFormed
<1>3. \A i \in Vertices(p) : m.nodes[i] \in Records /\ m.nodes[i].label \in Labels
  BY <1>1, PatternsAssumption DEF Paths
<1>4. PICK b \in Branches(p) :
        /\ b.dirs = p.dirs /\ b.labels = p.labels /\ b.ids = p.ids
        /\ \A i \in 1..Hops(p) : b.types[i] = {m.rels[i].type}
  <2> DEFINE f == [i \in 1..Hops(p) |-> {m.rels[i].type}]
  <2>1. f \in [1..Hops(p) -> {{t} : t \in UNION {TypesOf(p, i) : i \in 1..Hops(p)}}]
    BY <1>1
  <2>2. \A i \in 1..Hops(p) : f[i] \subseteq TypesOf(p, i)
    BY <1>1
  <2> DEFINE c == [p EXCEPT !.types = f]
  <2>3. c \in Branches(p)
    BY <2>1, <2>2 DEF Branches
  <2>4. c.dirs = p.dirs /\ c.labels = p.labels /\ c.ids = p.ids /\ c.types = f
    BY DEF WellFormed
  <2> QED BY <2>3, <2>4
<1>5. Typed(p, b)
  BY BranchesTyped
<1>6. Hops(b) = Hops(p) /\ Vertices(b) = Vertices(p) /\ \A i : Fixed(b, i) = Fixed(p, i)
  BY <1>5, TypedNarrows, NarrowFixes
<1>7. \A i \in Vertices(p) : Fixed(p, i) \in {NoLabel, m.nodes[i].label}
  <2>1. Fixed(p, 1) \in {NoLabel, m.nodes[1].label}
    <3>1. CASE p.labels[1] \in Labels
      BY <1>1, <1>2, <3>1, PatternsAssumption DEF Fixed
    <3>2. CASE p.labels[1] \notin Labels /\ p.ids = <<>>
      BY <3>2 DEF Fixed, Hint
    <3>3. CASE p.ids # <<>>
      BY <3>3, <1>1 DEF Plain
    <3> QED BY <3>1, <3>2, <3>3
  <2>2. ASSUME NEW i \in Vertices(p), i # 1 PROVE Fixed(p, i) \in {NoLabel, m.nodes[i].label}
    BY <1>1, <2>2 DEF Fixed
  <2> QED BY <2>1, <2>2
<1>8. ASSUME NEW i \in 1..Hops(p) PROVE edges[i] \in EdgeCandidates(b, i)
  <2>1. edges[i] \in BoundEdges /\ Means(p, m, i, edges[i])
    OBVIOUS
  <2>2. edges[i].type \in TypesOf(b, i)
    BY <2>1, <1>4 DEF TypesOf, Means
  <2>3. Fixed(b, i) \in {NoLabel, Near(edges[i])} /\ Fixed(b, i + 1) \in {NoLabel, Far(edges[i])}
    BY <2>1, <1>2, <1>6, <1>7 DEF Means
  <2>4. edges[i].swapped \in Orientations[b.dirs[i]]
    BY <2>1, <1>4 DEF Means
  <2> QED BY <2>1, <2>2, <2>3, <2>4 DEF EdgeCandidates
<1>9. \A i \in 1..Hops(p) : /\ Near(edges[i]) = m.nodes[i].label
                            /\ Far(edges[i]) = m.nodes[i + 1].label
                            /\ Joined(edges[i], m.nodes[i], m.rels[i], m.nodes[i + 1])
  BY DEF Means
<1> DEFINE cp == [labels |-> [i \in Vertices(p) |-> m.nodes[i].label], edges |-> edges]
<1>10. edges \in Combinations(b)
  BY <1>6, <1>8 DEF Combinations
<1>11. cp \in ConcretePlans(b)
  <2>1. cp \in [labels : [Vertices(b) -> Labels], edges : Combinations(b)]
    BY <1>3, <1>6, <1>10
  <2>2. \A i \in 1..Hops(b) : cp.labels[i] = Near(cp.edges[i]) /\ cp.labels[i + 1] = Far(cp.edges[i])
    BY <1>9, <1>2, <1>6
  <2>3. \A i \in Vertices(b) : Fixed(b, i) \in {NoLabel, cp.labels[i]}
    BY <1>6, <1>7
  <2> QED BY <2>1, <2>2, <2>3 DEF ConcretePlans
<1>12. m \in Rows(b, cp, present)
  <2>1. m \in Paths(b, present)
    BY <1>1, <1>6 DEF Paths
  <2>2. \A i \in Vertices(b) : m.nodes[i].label = cp.labels[i]
    BY <1>6
  <2>3. \A i \in 1..Hops(b) : Joined(cp.edges[i], m.nodes[i], m.rels[i], m.nodes[i + 1])
    BY <1>9, <1>6
  <2>4. Unique(m)
    BY <1>1 DEF Unique, Paths
  <2>5. KeySelected(b, m.nodes[1])
    BY <1>1, <1>4 DEF KeySelected
  <2> QED BY <2>1, <2>2, <2>3, <2>4, <2>5 DEF Rows
<1> QED BY <1>11, <1>12 DEF Walks

LEMMA MeaningIsFound ==
  ASSUME NEW p, WellFormed(p), Plain(p), NEW present, \A l \in present : l.type \in Types,
         NEW m \in Matches(p, present), NEW i \in 1..Hops(p), NEW e \in BoundEdges, Means(p, m, i, e)
  PROVE  \E b \in Branches(p) : \E cp \in ConcretePlans(b) :
           m \in Rows(b, cp, present) /\ cp.edges[i] = e
<1> DEFINE edges == [j \in 1..Hops(p) |-> IF j = i THEN e
                                          ELSE CHOOSE d \in BoundEdges : Means(p, m, j, d)]
<1>1. \A j \in 1..Hops(p) : edges[j] \in BoundEdges /\ Means(p, m, j, edges[j])
  <2>1. ASSUME NEW j \in 1..Hops(p) PROVE \E d \in BoundEdges : Means(p, m, j, d)
    BY HopsHaveMeanings
  <2> QED BY <2>1
<1>2. edges \in [1..Hops(p) -> BoundEdges] /\ edges[i] = e
  BY <1>1
<1> HIDE DEF edges
<1>3. PICK g \in [1..Hops(p) -> BoundEdges] : g = edges
  BY <1>2
<1>4. \A j \in 1..Hops(p) : Means(p, m, j, g[j])
  BY <1>1, <1>3
<1>5. \E b \in Branches(p) : Walks(b, present, m, g)
  BY <1>4, MeaningsAreRows
<1> QED BY <1>2, <1>3, <1>5 DEF Walks

LEMMA MatchesAreRows ==
  ASSUME NEW p, WellFormed(p), Plain(p), NEW present, \A l \in present : l.type \in Types,
         NEW m \in Matches(p, present)
  PROVE  \E b \in Branches(p) : \E cp \in ConcretePlans(b) : m \in Rows(b, cp, present)
<1> DEFINE edges == [j \in 1..Hops(p) |-> CHOOSE d \in BoundEdges : Means(p, m, j, d)]
<1>1. \A j \in 1..Hops(p) : edges[j] \in BoundEdges /\ Means(p, m, j, edges[j])
  <2>1. ASSUME NEW j \in 1..Hops(p) PROVE \E d \in BoundEdges : Means(p, m, j, d)
    BY HopsHaveMeanings
  <2> QED BY <2>1
<1>2. edges \in [1..Hops(p) -> BoundEdges]
  BY <1>1
<1> HIDE DEF edges
<1>3. PICK g \in [1..Hops(p) -> BoundEdges] : g = edges
  BY <1>2
<1>4. \A j \in 1..Hops(p) : Means(p, m, j, g[j])
  BY <1>1, <1>3
<1>5. \E b \in Branches(p) : Walks(b, present, m, g)
  BY <1>4, MeaningsAreRows
<1> QED BY <1>5 DEF Walks

(***************************************************************************)
(* For every mapping, every pattern of any number of hops and every        *)
(* content of the tables, the statements of all branches and concrete      *)
(* plans together find the paths that the pattern matches: no meaning is   *)
(* lost to the pruning by labels and ids, and none is added.  The pattern  *)
(* is Plain: its selection is of one label, or its keys do not recur.      *)
(***************************************************************************)
THEOREM ResolutionIsExact ==
  ASSUME NEW p, WellFormed(p), Plain(p), NEW present, \A l \in present : l.type \in Types
  PROVE  Matches(p, present) =
           UNION {UNION {Rows(b, cp, present) : cp \in ConcretePlans(b)} : b \in Branches(p)}
<1>1. \A b \in Branches(p) : \A cp \in ConcretePlans(b) : Rows(b, cp, present) \subseteq Matches(p, present)
  BY BranchesTyped, TypedNarrows, RowsMatch
<1>2. \A m \in Matches(p, present) :
        \E b \in Branches(p) : \E cp \in ConcretePlans(b) : m \in Rows(b, cp, present)
  BY MatchesAreRows
<1> QED BY <1>1, <1>2

-----------------------------------------------------------------------------
(* Branches and concrete plans.                                            *)

LEMMA BranchIsPattern ==
  ASSUME NEW p, WellFormed(p), NEW b \in Branches(p)
  PROVE  /\ WellFormed(b) /\ Typed(p, b)
         /\ b.limit = p.limit /\ b.skip = p.skip /\ b.returns = p.returns
         /\ Hops(b) = Hops(p) /\ Hops(p) \in Nat /\ Vertices(b) = Vertices(p)
<1>1. PICK f \in [1..Hops(p) -> {{t} : t \in UNION {TypesOf(p, i) : i \in 1..Hops(p)}}] :
        b = [p EXCEPT !.types = f]
  BY DEF Branches
<1>2. /\ b.labels = p.labels /\ b.types = f /\ b.dirs = p.dirs /\ b.ids = p.ids
      /\ b.limit = p.limit /\ b.skip = p.skip /\ b.returns = p.returns
  BY <1>1 DEF WellFormed
<1>3. b = [labels |-> b.labels, types |-> b.types, dirs |-> b.dirs, ids |-> b.ids,
           limit |-> b.limit, skip |-> b.skip, returns |-> b.returns]
  BY <1>1, <1>2 DEF WellFormed
<1>4. Typed(p, b)
  BY BranchesTyped
<1>5. Hops(b) = Hops(p) /\ Vertices(b) = Vertices(p) /\ Hops(p) \in Nat
  BY <1>2 DEF Hops, Vertices, WellFormed
<1>6. DOMAIN b.types = 1..Hops(b)
  BY <1>2, <1>5
<1>7. WellFormed(b)
  BY <1>2, <1>3, <1>5, <1>6 DEF WellFormed
<1> QED BY <1>2, <1>4, <1>5, <1>7

LEMMA RowShape ==
  ASSUME NEW b, WellFormed(b), NEW d, NEW cp \in ConcretePlans(b), NEW m \in Rows(b, cp, d)
  PROVE  /\ m = [nodes |-> m.nodes, rels |-> m.rels]
         /\ m.nodes \in [1..(Hops(b) + 1) -> Records]
         /\ m.rels \in [1..Hops(b) -> d]
         /\ \A i \in 1..(Hops(b) + 1) : m.nodes[i].label = cp.labels[i]
         /\ \A i \in 1..Hops(b) : /\ cp.edges[i] \in BoundEdges
                                  /\ Near(cp.edges[i]) = m.nodes[i].label
                                  /\ Far(cp.edges[i]) = m.nodes[i + 1].label
                                  /\ Joined(cp.edges[i], m.nodes[i], m.rels[i], m.nodes[i + 1])
         /\ Hops(b) \in Nat
<1>1. Hops(b) \in Nat /\ Vertices(b) = 1..(Hops(b) + 1)
  BY DEF WellFormed, Hops, Vertices
<1>2. /\ m \in Paths(b, d)
      /\ \A i \in Vertices(b) : m.nodes[i].label = cp.labels[i]
      /\ \A i \in 1..Hops(b) : Joined(cp.edges[i], m.nodes[i], m.rels[i], m.nodes[i + 1])
  BY DEF Rows
<1>3. /\ m = [nodes |-> m.nodes, rels |-> m.rels]
      /\ m.nodes \in [1..(Hops(b) + 1) -> Records]
      /\ m.rels \in [1..Hops(b) -> d]
  BY <1>1, <1>2 DEF Paths
<1>4. \A i \in 1..Hops(b) : i \in Vertices(b) /\ i + 1 \in Vertices(b)
  BY <1>1
<1>5. \A i \in 1..Hops(b) : /\ cp.edges[i] \in BoundEdges
                            /\ cp.labels[i] = Near(cp.edges[i])
                            /\ cp.labels[i + 1] = Far(cp.edges[i])
  BY DEF ConcretePlans, Combinations
<1> QED BY <1>1, <1>2, <1>3, <1>4, <1>5

\* A link that a row shows is one, between records that it joins.
LEMMA RowsConnect ==
  ASSUME NEW b, WellFormed(b), NEW d, NEW cp \in ConcretePlans(b), NEW m \in Rows(b, cp, d),
         NEW i \in 1..Hops(b)
  PROVE  /\ RelOf(cp, m, i) \in
              {[link |-> m.rels[i], start |-> m.nodes[i], end |-> m.nodes[i + 1]],
               [link |-> m.rels[i], start |-> m.nodes[i + 1], end |-> m.nodes[i]]}
         /\ Connects(RelOf(cp, m, i).link, RelOf(cp, m, i).start, RelOf(cp, m, i).end)
         /\ RelOf(cp, m, i).link = m.rels[i]
         /\ {RelOf(cp, m, i).start, RelOf(cp, m, i).end} = {m.nodes[i], m.nodes[i + 1]}
<1> DEFINE e == cp.edges[i]
           l == m.rels[i]
<1>1. /\ e \in BoundEdges /\ Near(e) = m.nodes[i].label /\ Far(e) = m.nodes[i + 1].label
      /\ Joined(e, m.nodes[i], l, m.nodes[i + 1])
  BY RowShape
<1>2. PICK t \in Types : e \in [type : {t}, pair : Endpoints[t], swapped : BOOLEAN]
  BY <1>1 DEF BoundEdges
<1>3. e.pair \in Endpoints[l.type] /\ e.swapped \in BOOLEAN
  BY <1>1, <1>2 DEF Joined
<1>4. CASE ~e.swapped
  <2>1. Reads(e.pair, l, m.nodes[i], m.nodes[i + 1])
    BY <1>1, <1>4 DEF Reads, Near, Far, Joined, NearCol, FarCol
  <2>2. RelOf(cp, m, i) = [link |-> l, start |-> m.nodes[i], end |-> m.nodes[i + 1]]
    BY <1>4 DEF RelOf, Oriented
  <2> HIDE DEF e, l
  <2> QED BY <1>3, <2>1, <2>2 DEF Connects, l
<1>5. CASE e.swapped
  <2>1. Reads(e.pair, l, m.nodes[i + 1], m.nodes[i])
    BY <1>1, <1>5 DEF Reads, Near, Far, Joined, NearCol, FarCol
  <2>2. RelOf(cp, m, i) = [link |-> l, start |-> m.nodes[i + 1], end |-> m.nodes[i]]
    BY <1>5 DEF RelOf, Oriented
  <2> HIDE DEF e, l
  <2> QED BY <1>3, <2>1, <2>2 DEF Connects, l
<1> QED BY <1>3, <1>4, <1>5

-----------------------------------------------------------------------------
(* A statement's rows, sorted.                                             *)

LEMMA RowsFinite ==
  ASSUME NEW b, WellFormed(b), NEW d \in Databases, NEW cp \in ConcretePlans(b)
  PROVE  IsFiniteSet(Rows(b, cp, d))
<1> DEFINE N == [Vertices(b) -> Records]
           L == [1..Hops(b) -> d]
           f == [p \in N \X L |-> [nodes |-> p[1], rels |-> p[2]]]
<1>1. IsFiniteSet(Records) /\ IsFiniteSet(d)
  BY QueriesAssumption
<1>2. Hops(b) \in Nat /\ Hops(b) + 1 \in Nat
  BY DEF WellFormed, Hops
<1>3. IsFiniteSet(N) /\ IsFiniteSet(L)
  BY <1>1, <1>2, FiniteLists DEF Vertices
<1> HIDE DEF N, L
<1>4. IsFiniteSet(N \X L)
  BY <1>3, FS_Product
<1>5. f \in Surjection(N \X L, [nodes : N, rels : L])
  <2>1. f \in [N \X L -> [nodes : N, rels : L]]
    OBVIOUS
  <2>2. ASSUME NEW m \in [nodes : N, rels : L] PROVE \E p \in N \X L : f[p] = m
    <3>1. <<m.nodes, m.rels>> \in N \X L /\ f[<<m.nodes, m.rels>>] = m
      OBVIOUS
    <3> QED BY <3>1
  <2> QED BY <2>1, <2>2 DEF Surjection
<1>6. IsFiniteSet([nodes : N, rels : L])
  BY <1>4, <1>5, FS_Surjection
<1>7. Rows(b, cp, d) \in SUBSET [nodes : N, rels : L]
  BY DEF Rows, Paths, N, L
<1> QED BY <1>6, <1>7, FS_Subset

LEMMA SameRow ==
  ASSUME NEW D, NEW E, NEW N, NEW d,
         NEW m \in [nodes : [D -> N], rels : [E -> d]],
         NEW n \in [nodes : [D -> N], rels : [E -> d]],
         \A i \in D : m.nodes[i] = n.nodes[i],
         \A i \in E : m.rels[i] = n.rels[i]
  PROVE  m = n
<1>1. m.nodes \in [D -> N] /\ n.nodes \in [D -> N] /\ m.rels \in [E -> d] /\ n.rels \in [E -> d]
  OBVIOUS
<1>2. \A T : \A S : \A f, g \in [S -> T] : (\A i \in S : f[i] = g[i]) => f = g
  OBVIOUS
<1>3. m.nodes = n.nodes
  BY <1>1, <1>2
<1>4. m.rels = n.rels
  BY <1>1, <1>2
<1> QED BY <1>3, <1>4

\* Two rows of a statement differ in a key.
LEMMA KeysOfRows ==
  ASSUME NEW b, WellFormed(b), NEW d \in Databases, NEW cp \in ConcretePlans(b)
  PROVE  /\ \A m \in Rows(b, cp, d) : SortKeys(m) \in [1..(Hops(b) + 1 + Hops(b)) -> Nat]
         /\ \A m, n \in Rows(b, cp, d) : SortKeys(m) = SortKeys(n) => m = n
<1>1. PICK h \in Nat : h = Hops(b)
  BY DEF WellFormed, Hops
<1>2. ASSUME NEW m \in Rows(b, cp, d)
      PROVE  /\ SortKeys(m) \in [1..(h + 1 + h) -> Nat]
             /\ \A i \in 1..(h + 1) : SortKeys(m)[i] = m.nodes[i].key
             /\ \A i \in 1..h : SortKeys(m)[h + 1 + i] = m.rels[i].id
  <2>0. PICK ks, is : /\ ks = [i \in DOMAIN m.nodes |-> m.nodes[i].key]
                      /\ is = [i \in DOMAIN m.rels |-> m.rels[i].id]
    OBVIOUS
  <2>1. m.nodes \in [1..(h + 1) -> Records] /\ m.rels \in [1..h -> d]
    BY <1>1, RowShape
  <2>2. ks \in [1..(h + 1) -> Nat] /\ is \in [1..h -> Nat]
    BY <2>0, <2>1, PatternsAssumption, QueriesAssumption
  <2>3. /\ \A i \in 1..(h + 1) : ks[i] = m.nodes[i].key
        /\ \A i \in 1..h : is[i] = m.rels[i].id
    BY <2>0, <2>1
  <2>4. SortKeys(m) = ks \o is
    BY <2>0 DEF SortKeys
  <2>5. /\ ks \o is \in [1..(h + 1 + h) -> Nat]
        /\ \A i \in 1..(h + 1) : (ks \o is)[i] = ks[i]
        /\ \A i \in 1..h : (ks \o is)[h + 1 + i] = is[i]
    <3>1. h + 1 \in Nat
      BY <1>1
    <3>2. ks \o is \in [1..(h + 1 + h) -> Nat]
      BY <2>2, <3>1, PlacesInBoth
    <3>3. \A i \in 1..(h + 1) : (ks \o is)[i] = ks[i]
      BY <2>2, <3>1, PlacesInBoth
    <3>4. \A i \in 1..h : (ks \o is)[h + 1 + i] = is[i]
      <4>1. PICK a \in Nat : a = h + 1
        BY <3>1
      <4>2. ks \in [1..a -> Nat]
        BY <2>2, <4>1
      <4>3. ASSUME NEW u \in [1..a -> Nat], NEW v \in [1..h -> Nat]
            PROVE  \A i \in 1..h : (u \o v)[a + i] = v[i]
        BY PlaceInSecond
      <4> QED BY <2>2, <4>1, <4>2, <4>3
    <3> QED BY <3>2, <3>3, <3>4
  <2> QED BY <2>3, <2>4, <2>5
<1>3. ASSUME NEW m \in Rows(b, cp, d), NEW n \in Rows(b, cp, d), SortKeys(m) = SortKeys(n)
      PROVE  m = n
  <2>0. /\ m \in [nodes : [1..(h + 1) -> Records], rels : [1..h -> d]]
        /\ n \in [nodes : [1..(h + 1) -> Records], rels : [1..h -> d]]
    BY <1>1, RowShape
  <2>1. /\ m.nodes \in [1..(h + 1) -> Records] /\ n.nodes \in [1..(h + 1) -> Records]
        /\ m.rels \in [1..h -> d] /\ n.rels \in [1..h -> d]
    BY <1>1, RowShape
  <2>2. \A i \in 1..(h + 1) : m.nodes[i].label = n.nodes[i].label
    BY <1>1, RowShape
  <2>3. \A i \in 1..h : m.rels[i].type = cp.edges[i].type /\ n.rels[i].type = cp.edges[i].type
    BY <1>1, RowShape DEF Joined
  <2>4. ASSUME NEW i \in 1..(h + 1) PROVE m.nodes[i].key = n.nodes[i].key
    <3>1. SortKeys(m)[i] = m.nodes[i].key /\ SortKeys(n)[i] = n.nodes[i].key
      BY <1>2
    <3> QED BY <1>3, <3>1
  <2>5. ASSUME NEW i \in 1..h PROVE m.rels[i].id = n.rels[i].id
    <3>1. /\ SortKeys(m)[h + 1 + i] = m.rels[i].id
          /\ SortKeys(n)[h + 1 + i] = n.rels[i].id
      BY <1>2
    <3> QED BY <1>3, <3>1
  <2>6. ASSUME NEW i \in 1..(h + 1) PROVE m.nodes[i] = n.nodes[i]
    <3>1. m.nodes[i] \in Records /\ n.nodes[i] \in Records
      BY <2>1
    <3> QED BY <2>2, <2>4, <3>1, PatternsAssumption
  <2>7. ASSUME NEW i \in 1..h PROVE m.rels[i] = n.rels[i]
    <3>1. m.rels[i] \in d /\ n.rels[i] \in d
      BY <2>1
    <3>2. m.rels[i].type = n.rels[i].type /\ m.rels[i].id = n.rels[i].id
      BY <2>3, <2>5
    <3> QED BY <3>1, <3>2, QueriesAssumption
  <2> QED BY <2>0, <2>6, <2>7, SameRow
<1> QED BY <1>1, <1>2, <1>3

\* ORDER BY puts every row in one place.
LEMMA RowsInOrder ==
  ASSUME NEW b, WellFormed(b), NEW d \in Databases, NEW cp \in ConcretePlans(b)
  PROVE  LET S == Rows(b, cp, d)
         IN  /\ IsFiniteSet(S)
             /\ InOrder(S) \in Seq(S) /\ Len(InOrder(S)) = Cardinality(S)
             /\ IsInjective(InOrder(S)) /\ ToSet(InOrder(S)) = S
<1> DEFINE S == Rows(b, cp, d)
           n == Hops(b) + 1 + Hops(b)
           key == [m \in S |-> SortKeys(m)]
           R == {r \in S \X S : Precedes(SortKeys(r[1]), SortKeys(r[2]))}
<1>1. n \in Nat
  BY DEF WellFormed, Hops
<1>2. IsFiniteSet(S)
  BY RowsFinite
<1>3. \A m \in S : SortKeys(m) \in [1..n -> Nat]
  BY KeysOfRows
<1>4. \A l, m \in S : SortKeys(l) = SortKeys(m) => l = m
  BY KeysOfRows
<1> HIDE DEF S, n
<1>5. key \in [S -> [1..n -> Nat]] /\ \A l, m \in S : key[l] = key[m] => l = m
  BY <1>3, <1>4
<1>6. \A l, m \in S : <<l, m>> \in R <=> Precedes(key[l], key[m])
  OBVIOUS
<1> HIDE DEF key, R
<1>7. StrictTotal(S, R)
  BY <1>1, <1>5, <1>6, KeysOrder
<1>8. InOrder(S) = Sorted(S, R)
  BY DEF InOrder, R
<1>9. /\ InOrder(S) \in Seq(S) /\ Len(InOrder(S)) = Cardinality(S)
      /\ IsInjective(InOrder(S)) /\ ToSet(InOrder(S)) = S
  BY <1>2, <1>7, <1>8, SortedHolds
<1> QED BY <1>2, <1>9 DEF S

\* SKIP and LIMIT take a stretch of it.
LEMMA PageHolds ==
  ASSUME NEW b, WellFormed(b), NEW d \in Databases, NEW cp \in ConcretePlans(b),
         NEW S, S = Rows(b, cp, d), NEW page, page = Page(b, S)
  PROVE  /\ page \in Seq(S) /\ ToSet(page) \subseteq S
         /\ IsFiniteSet(S) /\ Cardinality(S) \in Nat
         /\ \A k \in 1..Len(page) : b.skip + k \in 1..Cardinality(S) /\ page[k] = InOrder(S)[b.skip + k]
         /\ Len(page) = IF Cardinality(S) <= b.skip THEN 0
                        ELSE IF Cardinality(S) <= b.skip + b.limit THEN Cardinality(S) - b.skip
                        ELSE b.limit
         /\ b.skip = 0 /\ Cardinality(S) <= b.limit => ToSet(page) = S
<1>1. /\ IsFiniteSet(S)
      /\ InOrder(S) \in Seq(S) /\ Len(InOrder(S)) = Cardinality(S)
      /\ IsInjective(InOrder(S)) /\ ToSet(InOrder(S)) = S
  BY RowsInOrder
<1>2. PICK all : all = InOrder(S)
  OBVIOUS
<1>3. PICK n \in Nat : n = Cardinality(S)
  BY <1>1, FS_CardinalityType
<1>4. all \in Seq(S) /\ Len(all) = n /\ ToSet(all) = S
  BY <1>1, <1>2, <1>3
<1>5. b.skip \in Nat /\ b.limit \in Nat /\ b.skip + b.limit \in Nat
  BY DEF WellFormed
<1>6. PICK e : e = IF b.skip + b.limit <= Len(all) THEN b.skip + b.limit ELSE Len(all)
  OBVIOUS
<1>7. page = SubSeq(all, b.skip + 1, e)
  <2>1. page = SubSeq(all, b.skip + 1, Min({b.skip + b.limit, Len(all)}))
    BY <1>2 DEF Page, Cut
  <2>2. b.skip + b.limit \in Int /\ Len(all) \in Int
    BY <1>4, <1>5
  <2>3. Min({b.skip + b.limit, Len(all)}) = e
    BY <1>6, <2>2, LesserOf
  <2> QED BY <2>1, <2>3
<1>8. /\ page \in Seq(S) /\ Len(page) \in Nat
      /\ b.skip < e => Len(page) = e - b.skip
      /\ e <= b.skip => Len(page) = 0
      /\ \A k \in 1..Len(page) : b.skip + k \in 1..n /\ page[k] = all[b.skip + k]
      /\ ToSet(page) \subseteq ToSet(all)
  <2>1. PICK a \in Nat : a = b.skip
    BY <1>5
  <2>2. all \in Seq(S) /\ Len(all) = n /\ e \in Nat /\ e <= Len(all)
    BY <1>4, <1>5, <1>6
  <2>3. page = SubSeq(all, a + 1, e)
    BY <1>7, <2>1
  <2>4. /\ page \in Seq(S) /\ Len(page) \in Nat
        /\ a < e => Len(page) = e - a
        /\ e <= a => Len(page) = 0
        /\ \A i \in 1..Len(page) : a + i \in 1..Len(all) /\ page[i] = all[a + i]
        /\ ToSet(page) \subseteq ToSet(all)
    <3>1. page \in Seq(S) /\ Len(page) \in Nat
      BY <2>2, <2>3, SliceHolds
    <3>2. a < e => Len(page) = e - a
      BY <2>2, <2>3, SliceHolds
    <3>3. e <= a => Len(page) = 0
      BY <2>2, <2>3, SliceHolds
    <3>4. \A i \in 1..Len(page) : a + i \in 1..Len(all) /\ page[i] = all[a + i]
      BY <2>2, <2>3, SliceHolds
    <3>5. ToSet(page) \subseteq ToSet(all)
      BY <2>2, <2>3, SliceHolds
    <3> QED BY <3>1, <3>2, <3>3, <3>4, <3>5
  <2> QED BY <2>1, <2>2, <2>4
<1>9. Len(page) = IF n <= b.skip THEN 0 ELSE IF n <= b.skip + b.limit THEN n - b.skip ELSE b.limit
  BY <1>4, <1>5, <1>6, <1>8
<1>10. ASSUME b.skip = 0, n <= b.limit PROVE ToSet(page) = S
  <2>1. Len(page) = n
    BY <1>5, <1>9, <1>10
  <2>2. ASSUME NEW x \in S PROVE x \in ToSet(page)
    <3>1. PICK k \in 1..n : all[k] = x
      BY <1>4, InList
    <3>2. b.skip + k = k
      BY <1>10
    <3>3. \E j \in 1..Len(page) : page[j] = x
      BY <1>8, <2>1, <3>1, <3>2
    <3> QED BY <1>8, <3>3, InList
  <2> QED BY <1>4, <1>8, <2>2
<1> QED BY <1>1, <1>2, <1>3, <1>4, <1>8, <1>9, <1>10

LEMMA RelsTyped ==
  ASSUME NEW b, WellFormed(b), links \in Databases, NEW cp \in ConcretePlans(b),
         NEW m \in Rows(b, cp, links), NEW i \in 1..Hops(b)
  PROVE  RelOf(cp, m, i) \in Rels
<1>1. m.nodes \in [1..(Hops(b) + 1) -> Records] /\ m.rels \in [1..Hops(b) -> links] /\ Hops(b) \in Nat
  BY RowShape
<1>2. m.rels[i] \in AllLinks /\ m.nodes[i] \in Records /\ m.nodes[i + 1] \in Records
  BY <1>1 DEF AllLinks
<1> QED BY <1>2 DEF RelOf, Oriented, Rels

\* What rows of a concrete plan show: records, links, and the first record.
NodesIn(h, M) == {m.nodes[i] : m \in M, i \in 1..(h + 1)}
RelsIn(cp, h, M) == {RelOf(cp, m, i) : m \in M, i \in 1..h}
FirstsIn(M) == {m.nodes[1] : m \in M}

LEMMA ProjectedHolds ==
  ASSUME NEW b, WellFormed(b), links \in Databases, NEW cp \in ConcretePlans(b),
         NEW page \in Seq(Rows(b, cp, links)), NEW o, o = Projected(b, page)
  PROVE  /\ o \in Outputs /\ o.nodes = <<>> /\ o.rels = <<>> /\ Len(o.rows) = Len(page)
         /\ ToSet(o.rows) = FirstsIn(ToSet(page))
<1>1. PICK S : S = Rows(b, cp, links)
  OBVIOUS
<1>2. page \in Seq(S) /\ \A m \in S : m.nodes[1] \in Records
  <2>1. ASSUME NEW m \in S PROVE m.nodes[1] \in Records
    <3>1. m \in Rows(b, cp, links)
      BY <1>1, <2>1
    <3>2. m.nodes \in [1..(Hops(b) + 1) -> Records] /\ Hops(b) \in Nat
      BY <3>1, RowShape
    <3> QED BY ONLY <3>2
  <2> QED BY <1>1, <2>1
<1>3. /\ Len(page) \in Nat /\ DOMAIN page = 1..Len(page)
      /\ \A k \in 1..Len(page) : page[k] \in S
      /\ \A m : m \in ToSet(page) <=> \E k \in 1..Len(page) : page[k] = m
  BY <1>2, InList
<1>4. PICK rows : rows = [k \in 1..Len(page) |-> page[k].nodes[1]]
  OBVIOUS
<1>5. rows \in Seq(Records) /\ Len(rows) = Len(page)
  <2>1. rows \in [1..Len(page) -> Records]
    BY <1>2, <1>3, <1>4
  <2> QED BY <1>3, <2>1
<1>6. o.nodes = <<>> /\ o.rels = <<>> /\ o.rows = rows /\ o = [nodes |-> <<>>, rels |-> <<>>, rows |-> rows]
  BY <1>3, <1>4 DEF Projected, Nothing
<1>7. o \in Outputs
  BY <1>5, <1>6, EmptySeq DEF Outputs
<1>8. \A x : x \in ToSet(rows) <=> \E k \in 1..Len(page) : rows[k] = x
  BY <1>5, InList
<1>9. \A x : x \in ToSet(rows) <=> \E m \in ToSet(page) : x = m.nodes[1]
  BY <1>3, <1>4, <1>8
<1> QED BY <1>5, <1>6, <1>7, <1>9 DEF FirstsIn

LEMMA ConvertedHolds ==
  ASSUME NEW b, WellFormed(b), links \in Databases, NEW cp \in ConcretePlans(b),
         NEW page \in Seq(Rows(b, cp, links)), NEW o, o = Converted(b, cp, page)
  PROVE  /\ o \in Outputs /\ o.rows = <<>>
         /\ Len(o.nodes) = (Hops(b) + 1) * Len(page) /\ Len(o.rels) = Hops(b) * Len(page)
         /\ ToSet(o.nodes) = NodesIn(Hops(b), ToSet(page))
         /\ ToSet(o.rels) = RelsIn(cp, Hops(b), ToSet(page))
<1>1. PICK S : S = Rows(b, cp, links)
  OBVIOUS
<1>2. PICK h \in Nat : h = Hops(b)
  BY DEF WellFormed, Hops
<1>3. /\ Len(page) \in Nat /\ DOMAIN page = 1..Len(page)
      /\ \A k \in 1..Len(page) : page[k] \in S
      /\ \A m : m \in ToSet(page) <=> \E k \in 1..Len(page) : page[k] = m
  BY <1>1, InList
<1>4. PICK ns : ns = [k \in 1..Len(page) |-> page[k].nodes]
  OBVIOUS
<1>5. PICK rs : rs = [k \in 1..Len(page) |-> [i \in 1..h |-> RelOf(cp, page[k], i)]]
  OBVIOUS
<1>6. o = [nodes |-> FlattenSeq(ns), rels |-> FlattenSeq(rs), rows |-> <<>>]
  BY <1>2, <1>3, <1>4, <1>5 DEF Converted, Nothing
<1>7. ASSUME NEW m \in S
      PROVE  /\ m.nodes \in [1..(h + 1) -> Records]
             /\ [i \in 1..h |-> RelOf(cp, m, i)] \in [1..h -> Rels]
  <2>1. m.nodes \in [1..(h + 1) -> Records]
    BY <1>1, <1>2, <1>7, RowShape
  <2>2. \A i \in 1..h : RelOf(cp, m, i) \in Rels
    BY <1>1, <1>2, <1>7, RelsTyped
  <2> QED BY <2>1, <2>2
<1>8. ASSUME NEW k \in 1..Len(page)
      PROVE  /\ ns[k] \in Seq(Records) /\ Len(ns[k]) = h + 1
             /\ \A x : x \in ToSet(ns[k]) <=> \E i \in 1..(h + 1) : x = page[k].nodes[i]
  <2>1. ns[k] = page[k].nodes /\ ns[k] \in [1..(h + 1) -> Records]
    BY <1>3, <1>4, <1>7
  <2>2. ns[k] \in Seq(Records) /\ Len(ns[k]) = h + 1
    BY <2>1
  <2>3. \A x : x \in ToSet(ns[k]) <=> \E i \in 1..(h + 1) : ns[k][i] = x
    BY <2>2, InList
  <2> QED BY <2>1, <2>2, <2>3
<1>9. ASSUME NEW k \in 1..Len(page)
      PROVE  /\ rs[k] \in Seq(Rels) /\ Len(rs[k]) = h
             /\ \A r : r \in ToSet(rs[k]) <=> \E i \in 1..h : r = RelOf(cp, page[k], i)
  <2>1. rs[k] = [i \in 1..h |-> RelOf(cp, page[k], i)]
    BY <1>5
  <2>2. rs[k] \in [1..h -> Rels]
    BY <1>3, <1>7, <2>1
  <2>3. rs[k] \in Seq(Rels) /\ Len(rs[k]) = h
    BY <2>2
  <2>4. \A r : r \in ToSet(rs[k]) <=> \E i \in 1..h : rs[k][i] = r
    BY <2>3, InList
  <2>5. \A i \in 1..h : rs[k][i] = RelOf(cp, page[k], i)
    BY <2>1
  <2> QED BY <2>3, <2>4, <2>5
<1>10. ns \in Seq(Seq(Records)) /\ Len(ns) = Len(page)
  <2>1. ns \in [1..Len(page) -> Seq(Records)]
    BY <1>4, <1>8
  <2> QED BY <1>3, <2>1
<1>11. rs \in Seq(Seq(Rels)) /\ Len(rs) = Len(page)
  <2>1. rs \in [1..Len(page) -> Seq(Rels)]
    BY <1>5, <1>9
  <2> QED BY <1>3, <2>1
<1>12. /\ FlattenSeq(ns) \in Seq(Records)
       /\ \A x : x \in ToSet(FlattenSeq(ns)) <=> \E k \in 1..Len(page) : x \in ToSet(ns[k])
  BY <1>10, FlattenHolds
<1>13. Len(FlattenSeq(ns)) = (h + 1) * Len(page)
  <2>1. PICK a \in Nat : a = h + 1
    OBVIOUS
  <2>2. \A k \in 1..Len(ns) : Len(ns[k]) = a
    BY <1>8, <1>10, <2>1
  <2>3. Len(FlattenSeq(ns)) = a * Len(ns)
    BY <1>10, <2>2, FlattenLength
  <2> QED BY <1>10, <2>1, <2>3
<1>14. /\ FlattenSeq(rs) \in Seq(Rels)
       /\ \A x : x \in ToSet(FlattenSeq(rs)) <=> \E k \in 1..Len(page) : x \in ToSet(rs[k])
  BY <1>11, FlattenHolds
<1>15. Len(FlattenSeq(rs)) = h * Len(page)
  BY <1>9, <1>11, FlattenLength
<1>16. o \in Outputs
  BY <1>6, <1>12, <1>14, EmptySeq DEF Outputs
<1>17. \A x : x \in ToSet(o.nodes) <=> \E m \in ToSet(page) : \E i \in 1..(h + 1) : x = m.nodes[i]
  <2>1. o.nodes = FlattenSeq(ns)
    BY <1>6
  <2>2. ASSUME NEW x, x \in ToSet(o.nodes)
        PROVE  \E m \in ToSet(page) : \E i \in 1..(h + 1) : x = m.nodes[i]
    <3>1. PICK k \in 1..Len(page) : x \in ToSet(ns[k])
      BY <1>12, <2>1, <2>2
    <3>2. PICK i \in 1..(h + 1) : x = page[k].nodes[i]
      BY <1>8, <3>1
    <3>3. page[k] \in ToSet(page)
      BY <1>3
    <3> QED BY <3>2, <3>3
  <2>3. ASSUME NEW x, NEW m \in ToSet(page), NEW i \in 1..(h + 1), x = m.nodes[i]
        PROVE  x \in ToSet(o.nodes)
    <3>1. PICK k \in 1..Len(page) : page[k] = m
      BY <1>3
    <3>2. x \in ToSet(ns[k])
      BY <1>8, <2>3, <3>1
    <3> QED BY <1>12, <2>1, <3>2
  <2> QED BY <2>2, <2>3
<1>18. \A r : r \in ToSet(o.rels) <=> \E m \in ToSet(page) : \E i \in 1..h : r = RelOf(cp, m, i)
  <2>1. o.rels = FlattenSeq(rs)
    BY <1>6
  <2>2. ASSUME NEW r, r \in ToSet(o.rels)
        PROVE  \E m \in ToSet(page) : \E i \in 1..h : r = RelOf(cp, m, i)
    <3>1. PICK k \in 1..Len(page) : r \in ToSet(rs[k])
      BY <1>14, <2>1, <2>2
    <3>2. PICK i \in 1..h : r = RelOf(cp, page[k], i)
      BY <1>9, <3>1
    <3>3. page[k] \in ToSet(page)
      BY <1>3
    <3> QED BY <3>2, <3>3
  <2>3. ASSUME NEW r, NEW m \in ToSet(page), NEW i \in 1..h, r = RelOf(cp, m, i)
        PROVE  r \in ToSet(o.rels)
    <3>1. PICK k \in 1..Len(page) : page[k] = m
      BY <1>3
    <3>2. r \in ToSet(rs[k])
      BY <1>9, <2>3, <3>1
    <3> QED BY <1>14, <2>1, <3>2
  <2> QED BY <2>2, <2>3
<1>19. ToSet(o.nodes) = NodesIn(h, ToSet(page))
  BY <1>17 DEF NodesIn
<1>20. ToSet(o.rels) = RelsIn(cp, h, ToSet(page))
  BY <1>18 DEF RelsIn
<1> QED BY <1>2, <1>6, <1>13, <1>15, <1>16, <1>19, <1>20
-----------------------------------------------------------------------------
(* What a statement's rows show is found in the pattern, and all of it.    *)

LEMMA LinksTyped ==
  ASSUME links \in Databases
  PROVE  \A l \in links : l.type \in Types
BY QueriesAssumption

LEMMA RowsAreFound ==
  ASSUME NEW p, WellFormed(p), Plain(p), links \in Databases, NEW b \in Branches(p),
         NEW cp \in ConcretePlans(b), NEW m \in Rows(b, cp, links)
  PROVE  /\ m \in Matches(p, links)
         /\ m.nodes[1] \in FirstsFound(p, links)
         /\ \A i \in 1..(Hops(p) + 1) : m.nodes[i] \in NodesFound(p, links)
         /\ \A i \in 1..Hops(p) : RelOf(cp, m, i) \in RelsFound(p, links)
<1>1. m \in Matches(p, links)
  BY BranchIsPattern, LinksTyped, TypedNarrows, RowsMatch
<1>2. WellFormed(b) /\ Hops(b) = Hops(p) /\ Typed(p, b)
  BY BranchIsPattern
<1>3. m.nodes \in [1..(Hops(p) + 1) -> Records]
  BY <1>2, RowShape
<1>4. \A i \in 1..(Hops(p) + 1) : m.nodes[i] \in ToSet(m.nodes)
  BY <1>3 DEF ToSet
<1>5. ASSUME NEW i \in 1..Hops(p) PROVE RelOf(cp, m, i) \in RelsFound(p, links)
  <2>1. Connects(RelOf(cp, m, i).link, RelOf(cp, m, i).start, RelOf(cp, m, i).end)
    BY <1>2, RowsConnect
  <2>2. cp.edges[i].swapped \in Orientations[p.dirs[i]]
    <3>1. cp.edges[i] \in EdgeCandidates(b, i)
      BY <1>2 DEF ConcretePlans, Combinations
    <3>2. b.dirs = p.dirs
      BY <1>2 DEF Typed
    <3> QED BY <3>1, <3>2 DEF EdgeCandidates
  <2>3. RelOf(cp, m, i) \in {Oriented(m, i, back) : back \in Orientations[p.dirs[i]]}
    BY <2>2 DEF RelOf
  <2> QED BY <1>1, <2>1, <2>3 DEF RelsFound
<1> QED BY <1>1, <1>4, <1>5 DEF FirstsFound, NodesFound

LEMMA FoundAreRows ==
  ASSUME NEW p, WellFormed(p), Plain(p), links \in Databases
  PROVE  /\ \A m \in Matches(p, links) :
              \E b \in Branches(p) : \E cp \in ConcretePlans(b) : m \in Rows(b, cp, links)
         /\ \A r \in RelsFound(p, links) :
              \E b \in Branches(p) : \E cp \in ConcretePlans(b) : \E m \in Rows(b, cp, links) :
                \E i \in 1..Hops(p) : r = RelOf(cp, m, i)
<1>1. \A l \in links : l.type \in Types
  BY LinksTyped
<1>2. \A m \in Matches(p, links) :
        \E b \in Branches(p) : \E cp \in ConcretePlans(b) : m \in Rows(b, cp, links)
  BY <1>1, MatchesAreRows
<1>3. ASSUME NEW r \in RelsFound(p, links)
      PROVE  \E b \in Branches(p) : \E cp \in ConcretePlans(b) : \E m \in Rows(b, cp, links) :
               \E i \in 1..Hops(p) : r = RelOf(cp, m, i)
  <2>0. PICK m \in Matches(p, links), i \in 1..Hops(p) :
          \E back \in Orientations[p.dirs[i]] :
            r = Oriented(m, i, back) /\ Connects(r.link, r.start, r.end)
    BY DEF RelsFound
  <2>1. PICK back \in Orientations[p.dirs[i]] :
          r = Oriented(m, i, back) /\ Connects(r.link, r.start, r.end)
    BY <2>0
  <2>2. /\ m.rels[i] \in links /\ m.nodes[i] \in Records /\ m.nodes[i + 1] \in Records
        /\ p.dirs[i] \in {"out", "in", "both"}
    BY <1>1, HopsHaveMeanings
  <2>3. back \in BOOLEAN
    <3>1. /\ Orientations["out"] = {FALSE} /\ Orientations["in"] = {TRUE}
          /\ Orientations["both"] = {FALSE, TRUE}
      BY DEF Orientations
    <3>2. PICK dir : dir = p.dirs[i]
      OBVIOUS
    <3>3. dir = "out" \/ dir = "in" \/ dir = "both"
      BY <2>2, <3>2, Zenon
    <3>4. back \in Orientations[dir]
      BY <3>2
    <3> QED BY ONLY <3>1, <3>3, <3>4, Zenon
  <2>4. PICK e \in BoundEdges : Means(p, m, i, e) /\ e.swapped = back
    <3>1. PICK l : l = m.rels[i] /\ l.type \in Types
      BY <1>1, <2>2
    <3>2. CASE ~back
      <4>1. r = [link |-> l, start |-> m.nodes[i], end |-> m.nodes[i + 1]]
        BY <2>1, <3>1, <3>2 DEF Oriented
      <4>2. PICK q \in Endpoints[l.type] : Reads(q, l, m.nodes[i], m.nodes[i + 1])
        BY <2>1, <4>1 DEF Connects
      <4> DEFINE e == [type |-> l.type, pair |-> q, swapped |-> FALSE]
      <4>3. e \in BoundEdges /\ e.swapped = FALSE
        BY <3>1, <4>2 DEF BoundEdges
      <4>4. FALSE \in Orientations[p.dirs[i]]
        <5>1. FALSE = back
          BY <2>3, <3>2
        <5> QED BY <2>1, <5>1
      <4>5. Means(p, m, i, e)
        BY <3>1, <4>2, <4>4 DEF Means, Near, Far, Joined, NearCol, FarCol, Reads
      <4>6. e.swapped = back
        BY <2>3, <3>2, <4>3
      <4> QED BY <4>3, <4>5, <4>6
    <3>3. CASE back
      <4>1. r = [link |-> l, start |-> m.nodes[i + 1], end |-> m.nodes[i]]
        BY <2>1, <3>1, <3>3 DEF Oriented
      <4>2. PICK q \in Endpoints[l.type] : Reads(q, l, m.nodes[i + 1], m.nodes[i])
        BY <2>1, <4>1 DEF Connects
      <4> DEFINE e == [type |-> l.type, pair |-> q, swapped |-> TRUE]
      <4>3. e \in BoundEdges /\ e.swapped = TRUE
        BY <3>1, <4>2 DEF BoundEdges
      <4>4. TRUE \in Orientations[p.dirs[i]]
        <5>1. TRUE = back
          BY <2>3, <3>3
        <5> QED BY <2>1, <5>1
      <4>5. Means(p, m, i, e)
        BY <3>1, <4>2, <4>4 DEF Means, Near, Far, Joined, NearCol, FarCol, Reads
      <4>6. e.swapped = back
        BY <2>3, <3>3, <4>3
      <4> QED BY <4>3, <4>5, <4>6
    <3> QED BY <2>3, <3>2, <3>3
  <2>5. \E b \in Branches(p) : \E cp \in ConcretePlans(b) : m \in Rows(b, cp, links) /\ cp.edges[i] = e
    BY <1>1, <2>4, MeaningIsFound
  <2>6. \A cp : cp.edges[i] = e => r = RelOf(cp, m, i)
    BY <2>1, <2>4 DEF RelOf
  <2> QED BY <2>5, <2>6
<1> QED BY <1>2, <1>3

-----------------------------------------------------------------------------
(* What an answer is put together from holds nothing that the pattern does *)
(* not match, and no loose ends.                                           *)

Sound(p, d, o) == /\ ToSet(o.rels) \subseteq RelsFound(p, d)
               /\ ToSet(o.nodes) \subseteq NodesFound(p, d)
               /\ ToSet(o.rows) \subseteq FirstsFound(p, d)

Tight(p, o) ==
  /\ \A r \in ToSet(o.rels) : r.start \in ToSet(o.nodes) /\ r.end \in ToSet(o.nodes)
  /\ Hops(p) > 0 => \A x \in ToSet(o.nodes) : \E r \in ToSet(o.rels) : x \in {r.start, r.end}

Good(p, d, o) == o \in Outputs /\ Tight(p, o) /\ (Plain(p) => Sound(p, d, o))

LEMMA NothingIsGood ==
  ASSUME NEW p
  PROVE  Good(p, links, Nothing)
<1>1. ToSet(<<>>) = {} /\ \A S : <<>> \in Seq(S)
  BY EmptyList
<1>2. Nothing.nodes = <<>> /\ Nothing.rels = <<>> /\ Nothing.rows = <<>>
  BY DEF Nothing
<1>3. Nothing \in Outputs
  BY <1>1 DEF Nothing, Outputs
<1> QED BY <1>1, <1>2, <1>3 DEF Good, Tight, Sound

LEMMA ReturnedIsGood ==
  ASSUME NEW p, WellFormed(p), links \in Databases, NEW b \in Branches(p),
         NEW cp \in ConcretePlans(b)
  PROVE  Good(p, links, Returned(b, cp))
<1>1. WellFormed(b) /\ Hops(b) = Hops(p) /\ Hops(p) \in Nat /\ Typed(p, b)
  BY BranchIsPattern
<1>2. PICK page : page = Page(b, Rows(b, cp, links))
  OBVIOUS
<1>3. page \in Seq(Rows(b, cp, links)) /\ ToSet(page) \subseteq Rows(b, cp, links)
  BY <1>1, <1>2, PageHolds
<1>4. PICK o : o = Returned(b, cp)
  OBVIOUS
<1>5. CASE b.returns = "scalar"
  <2>1. o = Projected(b, page)
    BY <1>2, <1>4, <1>5 DEF Returned
  <2>2. /\ o \in Outputs /\ o.nodes = <<>> /\ o.rels = <<>>
        /\ \A x : x \in ToSet(o.rows) <=> \E m \in ToSet(page) : x = m.nodes[1]
    <3>1. o \in Outputs /\ o.nodes = <<>> /\ o.rels = <<>>
      BY <1>1, <1>3, <2>1, ProjectedHolds
    <3>2. ToSet(o.rows) = FirstsIn(ToSet(page))
      BY <1>1, <1>3, <2>1, ProjectedHolds
    <3> QED BY <3>1, <3>2 DEF FirstsIn
  <2>3. ToSet(o.nodes) = {} /\ ToSet(o.rels) = {}
    BY <2>2, EmptyList
  <2>4. ASSUME Plain(p), NEW x \in ToSet(o.rows) PROVE x \in FirstsFound(p, links)
    <3>1. PICK m \in ToSet(page) : x = m.nodes[1]
      BY <2>2
    <3>2. m \in Rows(b, cp, links)
      BY <1>3
    <3> QED BY <2>4, <3>1, <3>2, RowsAreFound
  <2> QED BY <1>4, <2>2, <2>3, <2>4 DEF Good, Tight, Sound
<1>6. CASE b.returns # "scalar"
  <2>1. o = Converted(b, cp, page)
    BY <1>2, <1>4, <1>6 DEF Returned
  <2>2. /\ o \in Outputs /\ o.rows = <<>>
        /\ \A x : x \in ToSet(o.nodes) <=>
             \E m \in ToSet(page) : \E i \in 1..(Hops(b) + 1) : x = m.nodes[i]
        /\ \A r : r \in ToSet(o.rels) <=>
             \E m \in ToSet(page) : \E i \in 1..Hops(b) : r = RelOf(cp, m, i)
    <3>1. o \in Outputs /\ o.rows = <<>>
      BY <1>1, <1>3, <2>1, ConvertedHolds
    <3>2. ToSet(o.nodes) = NodesIn(Hops(b), ToSet(page))
      BY <1>1, <1>3, <2>1, ConvertedHolds
    <3>3. ToSet(o.rels) = RelsIn(cp, Hops(b), ToSet(page))
      BY <1>1, <1>3, <2>1, ConvertedHolds
    <3> QED BY <3>1, <3>2, <3>3 DEF NodesIn, RelsIn
  <2>3. ToSet(o.rows) = {}
    BY <2>2, EmptyList
  <2>4. ASSUME NEW r \in ToSet(o.rels)
        PROVE  /\ r.start \in ToSet(o.nodes) /\ r.end \in ToSet(o.nodes)
               /\ Plain(p) => r \in RelsFound(p, links)
    <3>1. PICK m \in ToSet(page) : \E i \in 1..Hops(b) : r = RelOf(cp, m, i)
      BY <2>2
    <3>2. PICK i \in 1..Hops(b) : r = RelOf(cp, m, i)
      BY <3>1
    <3>3. m \in Rows(b, cp, links)
      BY <1>3
    <3>4. {r.start, r.end} = {m.nodes[i], m.nodes[i + 1]}
      BY <1>1, <3>2, <3>3, RowsConnect
    <3>5. m.nodes[i] \in ToSet(o.nodes) /\ m.nodes[i + 1] \in ToSet(o.nodes)
      <4>1. i \in 1..(Hops(b) + 1) /\ i + 1 \in 1..(Hops(b) + 1)
        BY <1>1
      <4> QED BY <2>2, <4>1
    <3>6. Plain(p) => r \in RelsFound(p, links)
      BY <1>1, <3>2, <3>3, RowsAreFound
    <3> QED BY <3>4, <3>5, <3>6
  <2>5. ASSUME NEW x \in ToSet(o.nodes)
        PROVE  /\ Hops(p) > 0 => \E r \in ToSet(o.rels) : x \in {r.start, r.end}
               /\ Plain(p) => x \in NodesFound(p, links)
    <3>1. PICK m \in ToSet(page) : \E i \in 1..(Hops(b) + 1) : x = m.nodes[i]
      BY <2>2
    <3>2. PICK i \in 1..(Hops(b) + 1) : x = m.nodes[i]
      BY <3>1
    <3>3. m \in Rows(b, cp, links)
      BY <1>3
    <3>4. Plain(p) => x \in NodesFound(p, links)
      BY <1>1, <3>2, <3>3, RowsAreFound
    <3>5. ASSUME Hops(p) > 0 PROVE \E r \in ToSet(o.rels) : x \in {r.start, r.end}
      <4>1. PICK j \in 1..Hops(b) : i = j \/ i = j + 1
        <5>1. CASE i = 1
          BY <1>1, <3>5, <5>1
        <5>2. CASE i # 1
          <6>1. i - 1 \in 1..Hops(b) /\ i = (i - 1) + 1
            BY <1>1, <5>2
          <6> QED BY <6>1
        <5> QED BY <5>1, <5>2
      <4>2. RelOf(cp, m, j) \in ToSet(o.rels)
        BY <2>2
      <4>3. {RelOf(cp, m, j).start, RelOf(cp, m, j).end} = {m.nodes[j], m.nodes[j + 1]}
        BY <1>1, <3>3, RowsConnect
      <4>4. x \in {m.nodes[j], m.nodes[j + 1]}
        BY <3>2, <4>1
      <4> QED BY <4>2, <4>3, <4>4
    <3> QED BY <3>4, <3>5
  <2> QED BY <1>4, <2>2, <2>3, <2>4, <2>5 DEF Good, Tight, Sound
<1> QED BY <1>5, <1>6

LEMMA ExtendedIsGood ==
  ASSUME NEW p, NEW o, Good(p, links, o), NEW t, Good(p, links, t), NEW u, u = Extended(o, t)
  PROVE  /\ Good(p, links, u)
         /\ ToSet(u.nodes) = ToSet(o.nodes) \cup ToSet(t.nodes)
         /\ ToSet(u.rels) = ToSet(o.rels) \cup ToSet(t.rels)
         /\ ToSet(u.rows) = ToSet(o.rows) \cup ToSet(t.rows)
<1>1. o \in Outputs /\ t \in Outputs
  BY DEF Good
<1>2. /\ o.nodes \in Seq(Records) /\ t.nodes \in Seq(Records)
      /\ o.rels \in Seq(Rels) /\ t.rels \in Seq(Rels)
      /\ o.rows \in Seq(Records) /\ t.rows \in Seq(Records)
  BY <1>1 DEF Outputs
<1>3. u = [nodes |-> o.nodes \o t.nodes, rels |-> o.rels \o t.rels, rows |-> o.rows \o t.rows]
  BY DEF Extended
<1>4. /\ o.nodes \o t.nodes \in Seq(Records)
      /\ ToSet(o.nodes \o t.nodes) = ToSet(o.nodes) \cup ToSet(t.nodes)
  BY <1>2, InBoth
<1>5. /\ o.rels \o t.rels \in Seq(Rels)
      /\ ToSet(o.rels \o t.rels) = ToSet(o.rels) \cup ToSet(t.rels)
  BY <1>2, InBoth
<1>6. /\ o.rows \o t.rows \in Seq(Records)
      /\ ToSet(o.rows \o t.rows) = ToSet(o.rows) \cup ToSet(t.rows)
  BY <1>2, InBoth
<1>7. u \in Outputs
  BY <1>3, <1>4, <1>5, <1>6 DEF Outputs
<1>8. /\ ToSet(u.nodes) = ToSet(o.nodes) \cup ToSet(t.nodes)
      /\ ToSet(u.rels) = ToSet(o.rels) \cup ToSet(t.rels)
      /\ ToSet(u.rows) = ToSet(o.rows) \cup ToSet(t.rows)
  BY <1>3, <1>4, <1>5, <1>6
<1>9. Tight(p, u)
  BY <1>8 DEF Good, Tight
<1>10. Plain(p) => Sound(p, links, u)
  BY <1>8 DEF Good, Sound
<1> QED BY <1>7, <1>8, <1>9, <1>10 DEF Good

LEMMA FirstHolds ==
  ASSUME NEW S, NEW s \in Seq(S), NEW n \in Nat, NEW t, t = First(s, n)
  PROVE  /\ t \in Seq(S) /\ ToSet(t) \subseteq ToSet(s)
         /\ Len(s) <= n => ToSet(t) = ToSet(s) /\ Len(t) = Len(s)
         /\ n <= Len(s) => Len(t) = n
<1>1. Len(s) \in Nat
  BY InList
<1>2. PICK e \in Nat : e = IF n <= Len(s) THEN n ELSE Len(s)
  BY <1>1
<1>3. Min({n, Len(s)}) = e
  BY <1>1, <1>2, LesserOf
<1>4. t = SubSeq(s, 1, e) /\ e <= Len(s)
  <2>1. t = SubSeq(s, 1, Min({n, Len(s)}))
    BY DEF First
  <2>2. t = SubSeq(s, 1, e)
    BY ONLY <1>3, <2>1, Zenon
  <2>3. e <= Len(s)
    BY <1>1, <1>2
  <2> QED BY <2>2, <2>3
<1>6. t \in Seq(S) /\ Len(t) = e
  BY <1>4, PrefixHolds
<1>8. \A i \in 1..e : t[i] = s[i]
  BY <1>4, PrefixHolds
<1>9. ToSet(t) \subseteq ToSet(s)
  BY <1>4, PrefixHolds
<1>11. ASSUME Len(s) <= n, NEW x \in ToSet(s) PROVE x \in ToSet(t)
  <2>1. PICK i \in 1..Len(s) : s[i] = x
    BY InList
  <2>2. i \in 1..Len(t) /\ t[i] = x
    BY <1>1, <1>2, <1>6, <1>8, <1>11, <2>1
  <2> QED BY <1>6, <2>2, InList
<1>12. Len(s) <= n => ToSet(t) = ToSet(s)
  BY <1>9, <1>11
<1>13. (Len(s) <= n => Len(t) = Len(s)) /\ (n <= Len(s) => Len(t) = n)
  BY <1>1, <1>2, <1>6
<1> QED BY <1>6, <1>9, <1>12, <1>13

LEMMA TrimmedIsGood ==
  ASSUME NEW p, NEW b, b.limit \in Nat, NEW o, Good(p, links, o),
         NEW u, u = Trimmed(b, o)
  PROVE  /\ Good(p, links, u) /\ u.rows = o.rows
         /\ Len(o.rels) <= b.limit /\ (o.rels = <<>> => Len(o.nodes) <= b.limit) => u = o
<1>1. /\ o.nodes \in Seq(Records) /\ o.rels \in Seq(Rels) /\ o.rows \in Seq(Records)
      /\ o = [nodes |-> o.nodes, rels |-> o.rels, rows |-> o.rows]
  BY DEF Good, Outputs
<1>2. Len(o.rels) \in Nat /\ Len(o.nodes) \in Nat
  BY <1>1, InList
<1>3. CASE Len(o.rels) > b.limit
  <2>1. PICK kept : kept = SubSeq(o.rels, 1, b.limit)
    OBVIOUS
  <2>2. kept \in Seq(Rels) /\ ToSet(kept) \subseteq ToSet(o.rels)
    <3>1. b.limit <= Len(o.rels)
      BY <1>2, <1>3
    <3>2. kept \in Seq(Rels)
      BY <1>1, <2>1, <3>1, PrefixHolds
    <3>3. ToSet(kept) \subseteq ToSet(o.rels)
      BY <1>1, <2>1, <3>1, PrefixHolds
    <3> QED BY <3>2, <3>3
  <2>3. PICK live : live = UNION {{r.start, r.end} : r \in ToSet(kept)}
    OBVIOUS
  <2>4. u = [o EXCEPT !.rels = kept, !.nodes = Kept(@, live)]
    BY <1>3, <2>1, <2>3 DEF Trimmed
  <2>5. u = [nodes |-> Kept(o.nodes, live), rels |-> kept, rows |-> o.rows]
    BY <1>1, <2>4
  <2>6. Kept(o.nodes, live) \in Seq(Records) /\ ToSet(Kept(o.nodes, live)) = ToSet(o.nodes) \cap live
    BY <1>1, KeptHolds
  <2>7. /\ u.rels = kept /\ u.rows = o.rows /\ ToSet(u.nodes) = ToSet(o.nodes) \cap live
        /\ u \in Outputs
    BY <1>1, <2>2, <2>5, <2>6 DEF Outputs
  <2>8. Tight(p, u)
    BY <2>2, <2>3, <2>7 DEF Good, Tight
  <2>9. Plain(p) => Sound(p, links, u)
    BY <2>2, <2>7 DEF Good, Sound
  <2> QED BY <1>2, <1>3, <2>7, <2>8, <2>9 DEF Good
<1>4. CASE ~(Len(o.rels) > b.limit) /\ o.rels = <<>> /\ Len(o.nodes) > b.limit
  <2>1. u = [o EXCEPT !.nodes = SubSeq(@, 1, b.limit)]
    BY <1>4 DEF Trimmed
  <2>2. PICK ns : ns = SubSeq(o.nodes, 1, b.limit)
    OBVIOUS
  <2>3. u = [nodes |-> ns, rels |-> o.rels, rows |-> o.rows]
    BY <1>1, <2>1, <2>2
  <2>6. ns \in Seq(Records)
    BY <1>1, <1>2, <1>4, <2>2, PrefixHolds
  <2>7. ToSet(ns) \subseteq ToSet(o.nodes)
    BY <1>1, <1>2, <1>4, <2>2, PrefixHolds
  <2>8. u.rels = o.rels /\ u.rows = o.rows /\ u.nodes = ns /\ u \in Outputs
    BY <1>1, <2>3, <2>6 DEF Outputs
  <2>9. ToSet(o.rels) = {}
    BY <1>4, EmptyList
  <2>10. Tight(p, u)
    BY <2>7, <2>8, <2>9 DEF Good, Tight
  <2>11. Plain(p) => Sound(p, links, u)
    BY <2>7, <2>8 DEF Good, Sound
  <2> QED BY <1>2, <1>4, <2>8, <2>10, <2>11 DEF Good
<1>5. CASE ~(Len(o.rels) > b.limit) /\ ~(o.rels = <<>> /\ Len(o.nodes) > b.limit)
  BY <1>5 DEF Trimmed
<1> QED BY <1>3, <1>4, <1>5

-----------------------------------------------------------------------------
(* Queries that are answered at once.                                      *)

\* A record is a path of its own.
LEMMA LoneRecords ==
  ASSUME NEW p, WellFormed(p), Hops(p) = 0, NEW d, NEW m
  PROVE  m \in Paths(p, d) <=>
           \E s \in Records : m = [nodes |-> [i \in {1} |-> s], rels |-> [i \in {} |-> s]]
<1>1. Vertices(p) = {1} /\ 1..Hops(p) = {}
  BY DEF Vertices
<1>2. Paths(p, d) = [nodes : [{1} -> Records], rels : [{} -> d]]
  BY <1>1 DEF Paths
<1>3. ASSUME m \in Paths(p, d)
      PROVE  \E s \in Records : m = [nodes |-> [i \in {1} |-> s], rels |-> [i \in {} |-> s]]
  <2>1. m.nodes[1] \in Records /\ m.nodes = [i \in {1} |-> m.nodes[1]]
    BY <1>2, <1>3
  <2>2. m.rels = [i \in {} |-> m.nodes[1]]
    BY <1>2, <1>3
  <2>3. m = [nodes |-> m.nodes, rels |-> m.rels]
    BY <1>2, <1>3
  <2> QED BY <2>1, <2>2, <2>3
<1>4. ASSUME NEW s \in Records, m = [nodes |-> [i \in {1} |-> s], rels |-> [i \in {} |-> s]]
      PROVE  m \in Paths(p, d)
  <2>1. [i \in {1} |-> s] \in [{1} -> Records] /\ [i \in {} |-> s] \in [{} -> d]
    OBVIOUS
  <2> QED BY <1>2, <1>4, <2>1
<1> QED BY <1>3, <1>4

LEMMA SampleIsAlone ==
  ASSUME NEW p, WellFormed(p), IsSample(p)
  PROVE  Hops(p) = 0 /\ NodesFound(p, links) = Records /\ RelsFound(p, links) = {}
<1>1. DOMAIN p.labels = 1..(Len(p.dirs) + 1) /\ Len(p.dirs) \in Nat
  BY DEF WellFormed, Vertices, Hops
<1>2. p.labels = <<NoLabel>> /\ p.ids = <<>>
  BY DEF IsSample
<1>3. DOMAIN p.labels = 1..1
  BY <1>2
<1>4. Hops(p) = 0
  <2> DEFINE n == Len(p.dirs)
  <2>1. n \in Nat /\ 1..(n + 1) = 1..1
    BY <1>1, <1>3
  <2> HIDE DEF n
  <2>2. n + 1 \in 1..(n + 1)
    BY <2>1
  <2>3. n + 1 \in 1..1
    BY <2>1, <2>2, Zenon
  <2>4. n = 0
    BY <2>1, <2>3
  <2> QED BY <2>4 DEF n, Hops
<1>5. p.labels[1] = NoLabel /\ Vertices(p) = {1} /\ 1..Hops(p) = {}
  BY <1>2, <1>4 DEF Vertices
<1>6. Matches(p, links) = Paths(p, links)
  BY <1>2, <1>5 DEF Matches
<1>7. RelsFound(p, links) = {}
  BY <1>5 DEF RelsFound
<1>8. \A m \in Matches(p, links) : ToSet(m.nodes) \subseteq Records
  <2> TAKE m \in Matches(p, links)
  <2>1. m.nodes \in [{1} -> Records]
    BY <1>5, <1>6 DEF Paths
  <2> QED BY <2>1 DEF ToSet
<1>9. \A s \in Records : \E m \in Matches(p, links) : s \in ToSet(m.nodes)
  <2> TAKE s \in Records
  <2> DEFINE m == [nodes |-> [i \in {1} |-> s], rels |-> [i \in {} |-> s]]
  <2>1. m \in Matches(p, links)
    BY <1>4, <1>6, LoneRecords
  <2>2. m.nodes = [i \in {1} |-> s]
    OBVIOUS
  <2>3. s \in ToSet(m.nodes)
    BY <2>2 DEF ToSet
  <2> QED BY <2>1, <2>3
<1>10. NodesFound(p, links) = Records
  BY <1>8, <1>9 DEF NodesFound
<1> QED BY <1>4, <1>7, <1>10

LEMMA OfLabelHolds ==
  ASSUME NEW l
  PROVE  LET S == {s \in Records : s.label = l}
         IN  /\ OfLabel(l) \in Seq(Records) /\ ToSet(OfLabel(l)) = S
             /\ Len(OfLabel(l)) = Cardinality(S) /\ Cardinality(S) \in Nat
<1> DEFINE S == {s \in Records : s.label = l}
           R == {r \in S \X S : r[1].key < r[2].key}
<1>1. IsFiniteSet(S)
  <2>1. IsFiniteSet(Records) /\ S \in SUBSET Records
    BY QueriesAssumption
  <2> QED BY <2>1, FS_Subset
<1>2. StrictTotal(S, R)
  <2>1. \A s \in S : s.key \in Nat
    BY PatternsAssumption
  <2>2. \A s, t \in S : s # t => s.key # t.key
    BY PatternsAssumption
  <2> QED BY <2>1, <2>2 DEF StrictTotal
<1>3. OfLabel(l) = Sorted(S, R)
  BY DEF OfLabel
<1>4. S \subseteq Records
  OBVIOUS
<1> HIDE DEF S, R
<1>5. OfLabel(l) \in Seq(S) /\ Len(OfLabel(l)) = Cardinality(S) /\ ToSet(OfLabel(l)) = S
  BY <1>1, <1>2, <1>3, SortedHolds
<1>6. OfLabel(l) \in Seq(Records)
  BY <1>4, <1>5, SeqDef
<1>7. Cardinality(S) \in Nat
  BY <1>1, FS_CardinalityType
<1> QED BY <1>5, <1>6, <1>7 DEF S

LEMMA SpreadHolds ==
  ASSUME NEW p, WellFormed(p)
  PROVE  /\ Spread(p) \in Seq(Records)
         /\ (\A l \in Labels : Cardinality({s \in Records : s.label = l})
                               <= p.limit \div Cardinality(Labels))
              => ToSet(Spread(p)) = Records
<1>1. IsFiniteSet(Labels) /\ p.limit \in Nat
  BY QueriesAssumption DEF WellFormed
<1>2. PICK n \in Nat : n = Cardinality(Labels)
  BY <1>1, FS_CardinalityType
<1>3. PICK order : order = SetToSeq(Labels)
  OBVIOUS
<1>4. order \in Seq(Labels) /\ Len(order) = n /\ ToSet(order) = Labels
  BY <1>1, <1>2, <1>3, ListedOnce
<1>5. DOMAIN order = 1..n /\ \A i \in 1..n : order[i] \in Labels
  BY <1>4, InList
<1>6. PICK share : share = p.limit \div Cardinality(Labels)
  OBVIOUS
<1>7. PICK each : each = Max({1, p.limit \div Cardinality(Labels)})
  OBVIOUS
<1>8. n > 0 => each \in Nat /\ share \in Nat /\ share <= each /\ share * n <= p.limit
  <2>1. SUFFICES ASSUME n > 0
                 PROVE  each \in Nat /\ share \in Nat /\ share <= each /\ share * n <= p.limit
    OBVIOUS
  <2>2. share = p.limit \div n
    BY <1>2, <1>6
  <2>3. share \in Nat /\ share * n <= p.limit
    BY <1>1, <2>1, <2>2
  <2>4. 1 \in Int /\ share \in Int
    BY <2>3
  <2>5. Max({1, share}) = IF 1 >= share THEN 1 ELSE share
    BY <2>4, GreaterOf
  <2>6. each = Max({1, share})
    BY ONLY <1>6, <1>7, Zenon
  <2>7. each = IF 1 >= share THEN 1 ELSE share
    BY ONLY <2>5, <2>6, Zenon
  <2> QED BY <2>3, <2>7
<1>9. PICK parts : parts = [i \in DOMAIN order |-> First(OfLabel(order[i]), each)]
  OBVIOUS
<1>10. ASSUME NEW i \in 1..n
       PROVE  /\ parts[i] \in Seq(Records)
              /\ \A l \in Labels : l = order[i] => ToSet(parts[i]) \subseteq {s \in Records : s.label = l}
  <2>1. parts[i] = First(OfLabel(order[i]), each) /\ order[i] \in Labels
    BY <1>5, <1>9
  <2>2. PICK s : s = OfLabel(order[i])
    OBVIOUS
  <2>3. s \in Seq(Records) /\ ToSet(s) = {r \in Records : r.label = order[i]}
    BY <2>2, OfLabelHolds
  <2>4. each \in Nat
    BY <1>8
  <2>5. parts[i] \in Seq(Records)
    BY <2>1, <2>2, <2>3, <2>4, FirstHolds
  <2>6. ToSet(parts[i]) \subseteq ToSet(s)
    BY <2>1, <2>2, <2>3, <2>4, FirstHolds
  <2> QED BY <2>3, <2>5, <2>6
<1>11. parts \in Seq(Seq(Records)) /\ Len(parts) = n
  <2>1. parts \in [1..n -> Seq(Records)]
    BY <1>5, <1>9, <1>10
  <2> QED BY <2>1
<1>12. PICK all : all = FlattenSeq(parts)
  OBVIOUS
<1>13. /\ all \in Seq(Records)
       /\ \A x : x \in ToSet(all) <=> \E k \in 1..Len(parts) : x \in ToSet(parts[k])
  BY <1>11, <1>12, FlattenHolds
<1>14. Spread(p) = First(all, p.limit)
  BY <1>3, <1>7, <1>9, <1>12 DEF Spread
<1>15. Spread(p) \in Seq(Records) /\ ToSet(Spread(p)) \subseteq ToSet(all)
  BY <1>1, <1>13, <1>14, FirstHolds
<1>16. ASSUME \A l \in Labels : Cardinality({s \in Records : s.label = l}) <= p.limit \div Cardinality(Labels)
       PROVE  ToSet(Spread(p)) = Records
  <2>1. ASSUME NEW i \in 1..n
        PROVE  /\ ToSet(parts[i]) = {r \in Records : r.label = order[i]}
               /\ Len(parts[i]) <= share
    <3>1. parts[i] = First(OfLabel(order[i]), each) /\ order[i] \in Labels
      BY <1>5, <1>9
    <3>2. PICK s : s = OfLabel(order[i])
      OBVIOUS
    <3>3. /\ s \in Seq(Records) /\ ToSet(s) = {r \in Records : r.label = order[i]}
          /\ Len(s) = Cardinality({r \in Records : r.label = order[i]})
          /\ Cardinality({r \in Records : r.label = order[i]}) \in Nat
      BY <3>2, OfLabelHolds
    <3>4. each \in Nat /\ share \in Nat /\ share <= each
      BY <1>8
    <3>5. Len(s) <= share /\ Len(s) \in Nat
      BY <1>6, <1>16, <3>1, <3>3
    <3>6. Len(s) <= each
      BY <3>4, <3>5
    <3>7. ToSet(parts[i]) = ToSet(s)
      BY <3>1, <3>2, <3>3, <3>4, <3>6, FirstHolds
    <3>8. Len(parts[i]) = Len(s)
      BY <3>1, <3>2, <3>3, <3>4, <3>6, FirstHolds
    <3> QED BY <3>3, <3>5, <3>7, <3>8
  <2>2. Len(all) <= p.limit
    <3>1. CASE n = 0
      <4>1. \A k \in 1..Len(parts) : Len(parts[k]) <= 0
        BY <1>11, <3>1
      <4>2. Len(FlattenSeq(parts)) <= 0 * Len(parts)
        BY <1>11, <4>1, FlattenBound
      <4> QED BY <1>1, <1>11, <1>12, <3>1, <4>2
    <3>2. CASE n > 0
      <4>1. PICK h \in Nat : h = share
        BY <1>8, <3>2
      <4>2. \A k \in 1..Len(parts) : Len(parts[k]) <= h
        BY <1>11, <2>1, <4>1
      <4>3. Len(FlattenSeq(parts)) <= h * Len(parts)
        BY <1>11, <4>2, FlattenBound
      <4>4. h * n \in Nat /\ Len(all) <= h * n /\ h * n <= p.limit /\ Len(all) \in Nat
        BY <1>8, <1>11, <1>12, <1>13, <3>2, <4>1, <4>3, InList
      <4> QED BY <1>1, <4>4
    <3> QED BY <3>1, <3>2
  <2>3. ToSet(Spread(p)) = ToSet(all)
    BY <1>1, <1>13, <1>14, <2>2, FirstHolds
  <2>4. ASSUME NEW s \in Records PROVE s \in ToSet(all)
    <3>1. s.label \in ToSet(order)
      BY <1>4, PatternsAssumption
    <3>2. PICK i \in 1..n : order[i] = s.label
      BY <1>4, <3>1, InList
    <3>3. s \in ToSet(parts[i])
      BY <2>1, <3>2
    <3> QED BY <1>11, <1>13, <3>3
  <2>5. ToSet(all) \subseteq Records
    BY <1>13, InList
  <2> QED BY <2>3, <2>4, <2>5
<1> QED BY <1>15, <1>16

LEMMA SampleIsGood ==
  ASSUME NEW p, WellFormed(p), IsSample(p), NEW o, o = [Nothing EXCEPT !.nodes = Spread(p)]
  PROVE  /\ Good(p, links, o) /\ o.nodes = Spread(p) /\ o.rels = <<>> /\ o.rows = <<>>
         /\ Uncut(p) => ToSet(o.nodes) = NodesFound(p, links) /\ ToSet(o.rels) = RelsFound(p, links)
<1>1. o = [nodes |-> Spread(p), rels |-> <<>>, rows |-> <<>>]
  BY DEF Nothing
<1>2. Spread(p) \in Seq(Records) /\ ToSet(Spread(p)) \subseteq Records
  BY SpreadHolds, InList
<1>3. o \in Outputs
  <2>1. <<>> \in Seq(Rels) /\ <<>> \in Seq(Records)
    BY EmptyList
  <2>2. [nodes |-> Spread(p), rels |-> <<>>, rows |-> <<>>] \in Outputs
    BY <1>2, <2>1 DEF Outputs
  <2> QED BY ONLY <1>1, <2>2
<1>4. ToSet(o.rels) = {} /\ ToSet(o.rows) = {} /\ ToSet(o.nodes) \subseteq Records
  BY <1>1, <1>2, EmptyList
<1>5. Hops(p) = 0 /\ NodesFound(p, links) = Records /\ RelsFound(p, links) = {}
  BY SampleIsAlone
<1>6. Good(p, links, o)
  BY <1>3, <1>4, <1>5 DEF Good, Tight, Sound
<1>7. Uncut(p) => ToSet(Spread(p)) = Records
  BY SpreadHolds DEF Uncut
<1> QED BY <1>1, <1>4, <1>5, <1>6, <1>7

LEMMA PlansFinite ==
  ASSUME NEW p, WellFormed(p)
  PROVE  IsFiniteSet(ConcretePlans(p))
<1>1. IsFiniteSet(Labels) /\ IsFiniteSet(Types)
  BY QueriesAssumption
<1>2. Hops(p) \in Nat /\ Hops(p) + 1 \in Nat
  BY DEF WellFormed, Hops
<1>3. IsFiniteSet(BoundEdges)
  <2> DEFINE T == [type : Types, pair : Pairs, swapped : BOOLEAN]
             E == Labels \X Labels
             C == Columns \X Columns
             Q == E \X C
             f == [x \in Q |-> [src |-> x[1][1], dst |-> x[1][2],
                                src_col |-> x[2][1], dst_col |-> x[2][2]]]
             V == Types \X Pairs
             W == V \X BOOLEAN
             g == [x \in W |-> [type |-> x[1][1], pair |-> x[1][2], swapped |-> x[2]]]
  <2>1. IsFiniteSet(Columns) /\ IsFiniteSet(BOOLEAN)
    <3>1. \A a, b : IsFiniteSet({a} \cup {b})
      BY FS_Singleton, FS_Union
    <3>2. Columns = {1} \cup {2} /\ BOOLEAN = {FALSE} \cup {TRUE}
      BY DEF Columns
    <3> QED BY <3>1, <3>2
  <2>2. IsFiniteSet(E) /\ IsFiniteSet(C)
    BY <1>1, <2>1, FS_Product
  <2>3. IsFiniteSet(Q)
    BY <2>2, FS_Product
  <2>4. f \in Surjection(Q, Pairs)
    <3>1. f \in [Q -> Pairs]
      BY DEF Pairs
    <3>2. ASSUME NEW q \in Pairs PROVE \E x \in Q : f[x] = q
      <4>1. <<<<q.src, q.dst>>, <<q.src_col, q.dst_col>>>> \in Q
        BY DEF Pairs
      <4>2. f[<<<<q.src, q.dst>>, <<q.src_col, q.dst_col>>>>] = q
        BY <4>1 DEF Pairs
      <4> QED BY <4>1, <4>2
    <3> HIDE DEF f, Q, E, C
    <3> QED BY <3>1, <3>2 DEF Surjection
  <2>5. IsFiniteSet(Pairs)
    BY <2>3, <2>4, FS_Surjection
  <2> HIDE DEF f, Q, E, C
  <2>6. IsFiniteSet(V)
    BY <1>1, <2>5, FS_Product
  <2>7. IsFiniteSet(W)
    BY <2>1, <2>6, FS_Product
  <2>8. g \in Surjection(W, T)
    <3>1. g \in [W -> T]
      OBVIOUS
    <3>2. ASSUME NEW e \in T PROVE \E x \in W : g[x] = e
      <4>1. <<<<e.type, e.pair>>, e.swapped>> \in W
        OBVIOUS
      <4>2. g[<<<<e.type, e.pair>>, e.swapped>>] = e
        BY <4>1
      <4> QED BY <4>1, <4>2
    <3> HIDE DEF g, W, T
    <3> QED BY <3>1, <3>2 DEF Surjection
  <2>9. IsFiniteSet(T)
    BY <2>7, <2>8, FS_Surjection
  <2>10. BoundEdges \in SUBSET T
    BY PatternsAssumption DEF BoundEdges
  <2> QED BY <2>9, <2>10, FS_Subset
<1> DEFINE N == [Vertices(p) -> Labels]
           F == [1..Hops(p) -> BoundEdges]
           h == [x \in N \X F |-> [labels |-> x[1], edges |-> x[2]]]
<1>4. IsFiniteSet(N) /\ IsFiniteSet(F)
  BY <1>1, <1>2, <1>3, FiniteLists DEF Vertices
<1> HIDE DEF N, F
<1>5. IsFiniteSet(N \X F)
  BY <1>4, FS_Product
<1>6. h \in Surjection(N \X F, [labels : N, edges : F])
  <2>1. h \in [N \X F -> [labels : N, edges : F]]
    OBVIOUS
  <2>2. ASSUME NEW m \in [labels : N, edges : F] PROVE \E x \in N \X F : h[x] = m
    <3>1. <<m.labels, m.edges>> \in N \X F /\ h[<<m.labels, m.edges>>] = m
      OBVIOUS
    <3> QED BY <3>1
  <2> QED BY <2>1, <2>2 DEF Surjection
<1>7. IsFiniteSet([labels : N, edges : F])
  BY <1>5, <1>6, FS_Surjection
<1>8. ConcretePlans(p) \in SUBSET [labels : N, edges : F]
  BY DEF ConcretePlans, Combinations, N, F
<1> QED BY <1>7, <1>8, FS_Subset

LEMMA AllRowsFinite ==
  ASSUME NEW p, WellFormed(p), links \in Databases
  PROVE  IsFiniteSet(AllRows(p, links)) /\ Cardinality(AllRows(p, links)) \in Nat
<1> DEFINE C == ConcretePlans(p)
           R == UNION {Rows(p, cp, links) : cp \in C}
           f == [cp \in C |-> Rows(p, cp, links)]
<1>1. IsFiniteSet(C)
  BY PlansFinite
<1>2. IsFiniteSet({Rows(p, cp, links) : cp \in C})
  <2>1. f \in Surjection(C, {Rows(p, cp, links) : cp \in C})
    BY DEF Surjection
  <2> QED BY <1>1, <2>1, FS_Surjection
<1>3. IsFiniteSet(R)
  <2>1. \A T \in {Rows(p, cp, links) : cp \in C} : IsFiniteSet(T)
    BY RowsFinite
  <2> QED BY <1>2, <2>1, FS_UNION
<1>4. IsFiniteSet(C \X R)
  BY <1>1, <1>3, FS_Product
<1>5. AllRows(p, links) \in SUBSET (C \X R)
  BY DEF AllRows
<1>6. IsFiniteSet(AllRows(p, links))
  BY <1>4, <1>5, FS_Subset
<1> QED BY <1>6, FS_CardinalityType

LEMMA TableRowsCount ==
  ASSUME NEW p, WellFormed(p), links \in Databases
  PROVE  TableRows(p) \in Nat
<1>1. \A X : IsFiniteSet(X) => Cardinality(X) \in Nat
  BY FS_CardinalityType
<1>2. Cardinality({s \in Records : p.labels[1] \in {NoLabel, s.label}}) \in Nat
  <2>1. {s \in Records : p.labels[1] \in {NoLabel, s.label}} \in SUBSET Records
    OBVIOUS
  <2>2. IsFiniteSet({s \in Records : p.labels[1] \in {NoLabel, s.label}})
    BY <2>1, QueriesAssumption, FS_Subset
  <2> QED BY <1>1, <2>2
<1>3. Cardinality({l \in links : l.type \in TypesOf(p, 1)}) \in Nat
  <2>1. {l \in links : l.type \in TypesOf(p, 1)} \in SUBSET links
    OBVIOUS
  <2>2. IsFiniteSet({l \in links : l.type \in TypesOf(p, 1)})
    BY <2>1, QueriesAssumption, FS_Subset
  <2> QED BY <1>1, <2>2
<1> QED BY <1>2, <1>3 DEF TableRows

-----------------------------------------------------------------------------
(* The invariant: what is asked, what still runs and what has been found   *)
(* belong together, and an answer is made of what was found.               *)

Contents(a) == [nodes |-> a.nodes, rels |-> a.rels, rows |-> a.rows]

Asking ==
  /\ links \in Databases
  /\ stage \in {"idle", "branches", "plans", "answered"}
  /\ stage # "idle" => WellFormed(plan)
  /\ stage \in {"branches", "plans"} => plan.returns # "count" /\ branches \subseteq Branches(plan)
  /\ stage = "plans" => branch \in Branches(plan) /\ plans \subseteq ConcretePlans(branch)

Counting ==
  /\ failures \in 0..MaxFailures
  /\ errors \in BOOLEAN
  /\ repeated \in BOOLEAN
  /\ shown \subseteq Rels

Finding ==
  /\ out \in Outputs /\ merged \in Outputs
  /\ stage \in {"branches", "plans"} => Good(plan, links, out) /\ Good(plan, links, merged)

Answering ==
  /\ stage # "answered" => answer = Answered("none", Nothing)
  /\ stage = "answered" =>
       /\ answer.kind \in {"graph", "scalar", "count", "error"}
       /\ answer.kind = "count" => answer.total \in Nat
       /\ plan.returns = "count" => answer.rels = <<>>
       /\ answer.kind = "graph" => plan.returns = "graph"
       /\ Contents(answer) \in Outputs
       /\ Good(plan, links, Contents(answer))

\* A graph that is being put together has refused nothing so far.
GraphSoFar ==
  stage \in {"branches", "plans"} /\ plan.returns = "graph" =>
    \A b \in Branches(plan) : b \in branches \/ ~TooMany(b)

Inv == Asking /\ Counting /\ Finding /\ Answering /\ GraphSoFar /\ RefusalsAreTold

LEMMA OutputsAreGood ==
  /\ Nothing \in Outputs
  /\ \A kind, o : o \in Outputs => /\ Contents(Answered(kind, o)) = o
                                   /\ Answered(kind, o).kind = kind
                                   /\ Answered(kind, o).rels = o.rels
                                   /\ Answered(kind, o).rows = o.rows
                                   /\ Answered(kind, o).nodes = o.nodes
<1>1. Nothing \in Outputs
  BY NothingIsGood DEF Good
<1>2. ASSUME NEW kind, NEW o \in Outputs
      PROVE  /\ Contents(Answered(kind, o)) = o /\ Answered(kind, o).kind = kind
             /\ Answered(kind, o).rels = o.rels /\ Answered(kind, o).rows = o.rows
             /\ Answered(kind, o).nodes = o.nodes
  BY <1>2 DEF Outputs, Contents, Answered
<1> QED BY <1>1, <1>2

LEMMA BeginsWell ==
  ASSUME Inv, NEW p, WellFormed(p), p.returns # "count", Begin(p),
         shown' \subseteq Rels, repeated' \in BOOLEAN
  PROVE  Inv'
<1>1. /\ stage' = "branches" /\ plan' = p /\ branches' = Branches(p) /\ links' = links
      /\ out' = Nothing /\ merged' = Nothing /\ failures' = 0 /\ errors' = FALSE
      /\ answer' = Answered("none", Nothing)
  BY DEF Begin
<1>2. answer'.kind = "none"
  BY <1>1, OutputsAreGood
<1>3. Nothing \in Outputs /\ Good(p, links, Nothing) /\ MaxFailures \in Nat
  BY NothingIsGood, QueriesAssumption DEF Good
<1>4. Asking'
  BY <1>1 DEF Inv, Asking
<1>5. Counting'
  <2>1. failures' \in 0..MaxFailures
    BY <1>1, <1>3
  <2>2. errors' \in BOOLEAN
    BY <1>1
  <2> QED BY <2>1, <2>2 DEF Counting
<1>6. Finding'
  BY <1>1, <1>3 DEF Finding
<1>7. Answering'
  BY <1>1 DEF Answering
<1>8. GraphSoFar' /\ RefusalsAreTold'
  BY <1>1, <1>2 DEF GraphSoFar, RefusalsAreTold, AnswerIs
<1> QED BY <1>4, <1>5, <1>6, <1>7, <1>8 DEF Inv

LEMMA AskKeepsInv ==
  ASSUME Inv, NEW p \in Plans, Ask(p)
  PROVE  Inv'
<1>1. WellFormed(p) /\ p.returns # "count" /\ Begin(p) /\ shown' = shown /\ repeated' = repeated
  BY QueriesAssumption DEF Ask, AtOnce
<1>2. shown' \subseteq Rels /\ repeated' \in BOOLEAN
  BY <1>1 DEF Inv, Counting
<1> QED BY <1>1, <1>2, BeginsWell

LEMMA MoreKeepsInv ==
  ASSUME Inv, More
  PROVE  Inv'
<1> DEFINE p == [plan EXCEPT !.skip = @ + plan.limit]
<1>1. WellFormed(plan) /\ stage = "answered" /\ answer.rels # <<>> /\ Begin(p)
  BY DEF More, Inv, Asking
<1>2. /\ p.labels = plan.labels /\ p.types = plan.types /\ p.dirs = plan.dirs
      /\ p.ids = plan.ids /\ p.limit = plan.limit /\ p.returns = plan.returns
      /\ p.skip \in Nat
  BY <1>1 DEF WellFormed
<1>3. p = [labels |-> p.labels, types |-> p.types, dirs |-> p.dirs, ids |-> p.ids,
           limit |-> p.limit, skip |-> p.skip, returns |-> p.returns]
  BY <1>1 DEF WellFormed
<1> HIDE DEF p
<1>4. WellFormed(p)
  BY <1>1, <1>2, <1>3 DEF WellFormed, Hops, Vertices
<1>5. p.returns # "count"
  BY <1>1, <1>2 DEF Inv, Answering
<1>6. shown' \subseteq Rels
  <2>1. answer.rels \in Seq(Rels)
    BY <1>1 DEF Inv, Answering, Outputs, Contents
  <2>2. ToSet(answer.rels) \subseteq Rels
    BY <2>1, InList
  <2> QED BY <2>2 DEF More, Inv, Counting
<1>7. repeated' \in BOOLEAN
  BY DEF More, Inv, Counting
<1> QED BY <1>1, <1>4, <1>5, <1>6, <1>7, BeginsWell

\* An answer ends a query, and leaves the counters where they may be.
LEMMA AnswersWell ==
  ASSUME Inv, stage' = "answered", links' = links, WellFormed(plan'),
         Answering', Counting', out' = out, merged' = merged, RefusalsAreTold'
  PROVE  Inv'
<1>1. Asking'
  BY DEF Inv, Asking
<1>2. Finding'
  BY DEF Inv, Finding
<1>3. GraphSoFar'
  BY DEF GraphSoFar
<1> QED BY <1>1, <1>2, <1>3 DEF Inv

LEMMA ErrorIsAnswer ==
  ASSUME stage' = "answered", answer' = Answered("error", Nothing)
  PROVE  Answering' /\ RefusalsAreTold'
<1>1. /\ answer'.kind = "error" /\ answer'.rels = <<>> /\ Contents(answer') = Nothing
      /\ Nothing \in Outputs /\ Good(plan', links', Nothing)
  <2>1. Nothing \in Outputs /\ Nothing.rels = <<>>
    BY OutputsAreGood DEF Nothing
  <2>2. answer'.kind = "error" /\ answer'.rels = <<>> /\ Contents(answer') = Nothing
    BY <2>1, OutputsAreGood
  <2>3. Good(plan', links', Nothing)
    <3>1. ToSet(<<>>) = {}
      BY EmptyList
    <3> QED BY <2>1, <3>1 DEF Good, Tight, Sound, Nothing
  <2> QED BY <2>1, <2>2, <2>3
<1> QED BY <1>1 DEF Answering, RefusalsAreTold, AnswerIs

\* A pattern without links cannot mean too much.
LEMMA SamplesAreSmall ==
  ASSUME NEW p, WellFormed(p), IsSample(p)
  PROVE  \A b \in Branches(p) : ~TooMany(b)
<1>1. \A b \in Branches(p) : Hops(b) = 0
  BY SampleIsAlone, BranchIsPattern
<1> QED BY <1>1 DEF TooMany

LEMMA AtOnceKeepsInv ==
  ASSUME Inv, NEW p \in Plans, Sample(p) \/ Count(p)
  PROVE  Inv'
<1>1. /\ WellFormed(p) /\ stage' = "answered" /\ plan' = p
      /\ UNCHANGED <<links, out, merged, errors, shown, repeated>>
      /\ failures' = failures \/ (failures < MaxFailures /\ failures' = failures + 1)
  BY QueriesAssumption DEF Sample, Count, AnswerAtOnce
<1>2. Counting'
  <2>1. failures' \in 0..MaxFailures
    BY <1>1, QueriesAssumption DEF Inv, Counting
  <2> QED BY <1>1, <2>1 DEF Inv, Counting
<1>3. Answering' /\ RefusalsAreTold'
  <2>1. CASE answer' = Answered("error", Nothing)
    BY <1>1, <2>1, ErrorIsAnswer
  <2>2. CASE Sample(p) /\ answer' # Answered("error", Nothing)
    <3>1. PICK o : o = [Nothing EXCEPT !.nodes = Spread(p)]
      OBVIOUS
    <3>2. answer' = Answered("graph", o) /\ IsSample(p)
      BY <2>2, <3>1 DEF Sample, AnswerAtOnce
    <3>3. Good(p, links, o) /\ o.rels = <<>>
      BY <1>1, <3>1, <3>2, SampleIsGood
    <3>4. o \in Outputs
      BY <3>3 DEF Good
    <3>5. answer'.kind = "graph" /\ answer'.rels = <<>> /\ Contents(answer') = o
      BY <3>2, <3>3, <3>4, OutputsAreGood
    <3>6. p.returns = "graph"
      BY <3>2 DEF IsSample
    <3>7. Answering'
      BY <1>1, <3>3, <3>4, <3>5, <3>6 DEF Answering
    <3>8. RefusalsAreTold'
      BY <1>1, <3>2, SamplesAreSmall DEF RefusalsAreTold
    <3> QED BY <3>7, <3>8
  <2>3. CASE Count(p) /\ answer' # Answered("error", Nothing)
    <3>1. /\ answer' = Answered("scalar", Nothing) \/ answer' = Counted(TableRows(p))
             \/ answer' = Counted(UnionRows(p))
          /\ p.returns = "count"
      BY <2>3 DEF Count, AnswerAtOnce
    <3>2. TableRows(p) \in Nat /\ UnionRows(p) \in Nat
      BY <1>1, TableRowsCount, AllRowsFinite DEF UnionRows, Inv, Asking
    <3>3. Nothing \in Outputs /\ Good(p, links, Nothing)
      BY NothingIsGood DEF Good
    <3>4. CASE answer' = Answered("scalar", Nothing)
      <4>1. answer'.kind = "scalar" /\ answer'.rels = <<>> /\ Contents(answer') = Nothing
        BY <3>3, <3>4, OutputsAreGood DEF Nothing
      <4> QED BY <1>1, <3>3, <4>1 DEF Answering, RefusalsAreTold, AnswerIs
    <3>5. ASSUME NEW n \in Nat, answer' = Counted(n) PROVE Answering' /\ RefusalsAreTold'
      <4>1. /\ answer'.kind = "count" /\ answer'.total = n /\ answer'.rels = <<>>
            /\ Contents(answer') = Nothing
        BY <3>5 DEF Counted, Contents, Nothing
      <4> QED BY <1>1, <3>3, <4>1 DEF Answering, RefusalsAreTold, AnswerIs
    <3> QED BY <3>1, <3>2, <3>4, <3>5
  <2> QED BY <2>1, <2>2, <2>3
<1> QED BY <1>1, <1>2, <1>3, AnswersWell

LEMMA EnterKeepsInv ==
  ASSUME Inv, Enter
  PROVE  Inv'
<1>1. NextBranch \in branches
  BY DEF Enter, NextBranch
<1>2. /\ ~TooMany(NextBranch) /\ stage = "branches" /\ stage' = "plans"
      /\ branches' = branches \ {NextBranch} /\ branch' = NextBranch
      /\ plans' = ConcretePlans(NextBranch) /\ out' = Nothing
      /\ UNCHANGED <<links, plan, merged, failures, errors, answer, shown, repeated>>
  BY DEF Enter
<1>3. Good(plan, links, Nothing) /\ Nothing \in Outputs
  BY NothingIsGood DEF Good
<1>4. Asking'
  BY <1>1, <1>2 DEF Inv, Asking
<1>5. Counting'
  BY <1>2 DEF Inv, Counting
<1>6. Finding'
  BY <1>2, <1>3 DEF Inv, Finding
<1>7. Answering'
  BY <1>2 DEF Inv, Answering
<1>8. GraphSoFar' /\ RefusalsAreTold'
  BY <1>1, <1>2 DEF Inv, GraphSoFar, RefusalsAreTold, AnswerIs
<1> QED BY <1>4, <1>5, <1>6, <1>7, <1>8 DEF Inv

LEMMA RefuseKeepsInv ==
  ASSUME Inv, Refuse
  PROVE  Inv'
<1>1. /\ stage = "branches" /\ branches' = branches \ {NextBranch}
      /\ UNCHANGED <<links, plan, branch, plans, out, merged, failures, shown, repeated>>
  BY DEF Refuse
<1>2. WellFormed(plan)
  BY <1>1 DEF Inv, Asking
<1>3. CASE plan.returns = "graph"
  <2>1. stage' = "answered" /\ answer' = Answered("error", Nothing) /\ errors' = errors
    BY <1>3 DEF Refuse
  <2>2. Counting'
    BY <1>1, <2>1 DEF Inv, Counting
  <2> QED BY <1>1, <1>2, <2>1, <2>2, ErrorIsAnswer, AnswersWell
<1>4. CASE plan.returns # "graph"
  <2>1. stage' = stage /\ answer' = answer /\ errors' = TRUE
    BY <1>4 DEF Refuse
  <2>2. Asking'
    BY <1>1, <2>1 DEF Inv, Asking
  <2>3. Counting'
    BY <1>1, <2>1 DEF Inv, Counting
  <2>4. Finding'
    BY <1>1, <2>1 DEF Inv, Finding
  <2>5. Answering'
    BY <1>1, <2>1 DEF Inv, Answering
  <2>6. GraphSoFar' /\ RefusalsAreTold'
    BY <1>1, <1>4, <2>1 DEF Inv, GraphSoFar, RefusalsAreTold, AnswerIs
  <2> QED BY <2>2, <2>3, <2>4, <2>5, <2>6 DEF Inv
<1> QED BY <1>3, <1>4

LEMMA RunKeepsInv ==
  ASSUME Inv, Run
  PROVE  Inv'
<1>1. /\ stage = "plans" /\ out' = Extended(out, Returned(branch, NextPlan))
      /\ plans' = plans \ {NextPlan}
      /\ UNCHANGED <<links, plan, stage, branches, branch, merged, failures, errors, answer,
                     shown, repeated>>
  BY DEF Run
<1>2. NextPlan \in plans
  BY DEF Run, NextPlan
<1>3. /\ WellFormed(plan) /\ links \in Databases /\ branch \in Branches(plan)
      /\ NextPlan \in ConcretePlans(branch)
  BY <1>1, <1>2 DEF Inv, Asking
<1>4. Good(plan, links, out)
  BY <1>1 DEF Inv, Finding
<1>5. Good(plan, links, Returned(branch, NextPlan))
  BY <1>3, ReturnedIsGood
<1>6. Good(plan, links, Extended(out, Returned(branch, NextPlan)))
  BY <1>4, <1>5, ExtendedIsGood
<1>7. Asking'
  BY <1>1 DEF Inv, Asking
<1>8. Counting'
  BY <1>1 DEF Inv, Counting
<1>9. Finding'
  <2>1. out' \in Outputs
    BY <1>1, <1>6 DEF Good
  <2> QED BY <1>1, <1>6, <2>1 DEF Inv, Finding
<1>10. Answering'
  BY <1>1 DEF Inv, Answering
<1>11. GraphSoFar' /\ RefusalsAreTold'
  BY <1>1 DEF Inv, GraphSoFar, RefusalsAreTold, AnswerIs
<1> QED BY <1>7, <1>8, <1>9, <1>10, <1>11 DEF Inv

LEMMA FailKeepsInv ==
  ASSUME Inv, Fail
  PROVE  Inv'
<1>1. /\ stage = "plans" /\ stage' = "branches" /\ failures < MaxFailures
      /\ failures' = failures + 1 /\ errors' = (errors \/ plan.returns = "scalar")
      /\ out' = Nothing
      /\ UNCHANGED <<links, plan, branches, branch, merged, answer, shown, repeated>>
  BY DEF Fail
<1>2. Good(plan, links, Nothing) /\ Nothing \in Outputs
  BY NothingIsGood DEF Good
<1>3. Asking'
  BY <1>1 DEF Inv, Asking
<1>4. Counting'
  <2>1. failures' \in 0..MaxFailures
    BY <1>1, QueriesAssumption DEF Inv, Counting
  <2>2. errors' \in BOOLEAN
    BY <1>1
  <2> QED BY <1>1, <2>1, <2>2 DEF Inv, Counting
<1>5. Finding'
  BY <1>1, <1>2 DEF Inv, Finding
<1>6. Answering'
  BY <1>1 DEF Inv, Answering
<1>7. GraphSoFar' /\ RefusalsAreTold'
  BY <1>1 DEF Inv, GraphSoFar, RefusalsAreTold, AnswerIs
<1> QED BY <1>3, <1>4, <1>5, <1>6, <1>7 DEF Inv

LEMMA LeaveKeepsInv ==
  ASSUME Inv, Leave
  PROVE  Inv'
<1>1. /\ stage = "plans" /\ stage' = "branches" /\ out' = Nothing
      /\ merged' = Extended(merged, Trimmed(branch, out))
      /\ UNCHANGED <<links, plan, branches, branch, plans, failures, errors, answer, shown,
                     repeated>>
  BY DEF Leave
<1>2. Good(plan, links, Nothing) /\ Nothing \in Outputs
  BY NothingIsGood DEF Good
<1>3. WellFormed(plan) /\ branch \in Branches(plan)
  BY <1>1 DEF Inv, Asking
<1>4. branch.limit \in Nat
  BY <1>3, BranchIsPattern DEF WellFormed
<1>5. Good(plan, links, Trimmed(branch, out))
  BY <1>1, <1>4, TrimmedIsGood DEF Inv, Finding
<1>6. Good(plan, links, Extended(merged, Trimmed(branch, out)))
  BY <1>1, <1>5, ExtendedIsGood DEF Inv, Finding
<1>7. Asking'
  BY <1>1 DEF Inv, Asking
<1>8. Counting'
  BY <1>1 DEF Inv, Counting
<1>9. Finding'
  <2>1. merged' \in Outputs
    BY <1>1, <1>6 DEF Good
  <2> QED BY <1>1, <1>2, <1>6, <2>1 DEF Finding
<1>10. Answering'
  BY <1>1 DEF Inv, Answering
<1>11. GraphSoFar' /\ RefusalsAreTold'
  BY <1>1 DEF Inv, GraphSoFar, RefusalsAreTold, AnswerIs
<1> QED BY <1>7, <1>8, <1>9, <1>10, <1>11 DEF Inv

LEMMA ReplyKeepsInv ==
  ASSUME Inv, Reply
  PROVE  Inv'
<1>1. /\ stage = "branches" /\ branches = {} /\ stage' = "answered"
      /\ answer' = Answered("error", Nothing) \/ answer' = Answered(plan.returns, merged)
      /\ UNCHANGED <<links, plan, out, merged, failures, errors, shown, repeated>>
  BY DEF Reply, work
<1>2. Counting'
  BY <1>1 DEF Inv, Counting
<1>3. WellFormed(plan) /\ plan.returns \in {"graph", "scalar"}
  BY <1>1 DEF Inv, Asking, WellFormed
<1>4. Answering' /\ RefusalsAreTold'
  <2>1. CASE answer' = Answered("error", Nothing)
    BY <1>1, <2>1, ErrorIsAnswer
  <2>2. CASE answer' = Answered(plan.returns, merged)
    <3>1. merged \in Outputs /\ Good(plan, links, merged)
      BY <1>1 DEF Inv, Finding
    <3>2. answer'.kind = plan.returns /\ Contents(answer') = merged
      BY <2>2, <3>1, OutputsAreGood
    <3>3. Answering'
      BY <1>1, <1>3, <3>1, <3>2 DEF Answering
    <3>4. RefusalsAreTold'
      <4>1. plan.returns = "graph" => \A b \in Branches(plan) : ~TooMany(b)
        BY <1>1 DEF Inv, GraphSoFar
      <4> QED BY <1>1, <3>2, <4>1 DEF RefusalsAreTold, AnswerIs
    <3> QED BY <3>3, <3>4
  <2> QED BY <1>1, <2>1, <2>2
<1> QED BY <1>1, <1>2, <1>3, <1>4, AnswersWell

LEMMA InitGivesInv ==
  ASSUME Init
  PROVE  Inv
<1>1. /\ links \in Databases /\ stage = "idle" /\ out = Nothing /\ merged = Nothing
      /\ failures = 0 /\ errors = FALSE /\ answer = Answered("none", Nothing)
      /\ shown = {} /\ repeated = FALSE
  BY DEF Init
<1>2. Nothing \in Outputs /\ MaxFailures \in Nat
  BY OutputsAreGood, QueriesAssumption
<1>3. Asking
  BY <1>1 DEF Asking
<1>4. Counting
  <2>1. failures \in 0..MaxFailures
    BY <1>1, <1>2
  <2> QED BY <1>1, <2>1 DEF Counting
<1>5. Finding
  BY <1>1, <1>2 DEF Finding
<1>6. Answering
  BY <1>1 DEF Answering
<1>7. GraphSoFar /\ RefusalsAreTold
  BY <1>1 DEF GraphSoFar, RefusalsAreTold, AnswerIs
<1> QED BY <1>3, <1>4, <1>5, <1>6, <1>7 DEF Inv

LEMMA StutterKeepsInv ==
  ASSUME Inv, UNCHANGED vars
  PROVE  Inv'
<1>1. UNCHANGED <<links, plan, stage, branches, branch, plans, out, merged, failures, errors,
                  answer, shown, repeated>>
  BY DEF vars, work
<1>2. Asking' /\ Counting'
  BY <1>1 DEF Inv, Asking, Counting
<1>3. Finding' /\ Answering'
  BY <1>1 DEF Inv, Finding, Answering
<1>4. GraphSoFar' /\ RefusalsAreTold'
  BY <1>1 DEF Inv, GraphSoFar, RefusalsAreTold, AnswerIs
<1> QED BY <1>2, <1>3, <1>4 DEF Inv

LEMMA StepKeepsInv ==
  ASSUME Inv, [Next]_vars
  PROVE  Inv'
<1>1. CASE \E p \in Plans : Ask(p) \/ Sample(p) \/ Count(p)
  BY <1>1, AskKeepsInv, AtOnceKeepsInv
<1>2. CASE More \/ Enter \/ Refuse \/ Run \/ Fail \/ Leave \/ Reply
  BY <1>2, MoreKeepsInv, EnterKeepsInv, RefuseKeepsInv, RunKeepsInv, FailKeepsInv,
     LeaveKeepsInv, ReplyKeepsInv
<1>3. CASE UNCHANGED vars
  BY <1>3, StutterKeepsInv
<1> QED BY <1>1, <1>2, <1>3 DEF Next

LEMMA InvHolds == Spec => []Inv
<1>1. Init => Inv
  BY InitGivesInv
<1>2. Inv /\ [Next]_vars => Inv'
  BY StepKeepsInv
<1> QED BY <1>1, <1>2, PTL DEF Spec

(***************************************************************************)
(* RefusalsAreTold holds always: a graph is answered only if no branch of  *)
(* its query was refused, in whatever order the branches ran, whichever    *)
(* statements failed, and on every page.                                   *)
(***************************************************************************)
THEOREM NoRefusalIsSwallowed == Spec => []RefusalsAreTold
<1>1. Inv => RefusalsAreTold
  BY DEF Inv
<1> QED BY <1>1, InvHolds, PTL

(***************************************************************************)
(* TypeOK holds always: what is put together from statements, cut and      *)
(* answered are lists of the database's records and links, and counts are  *)
(* numbers.                                                                *)
(***************************************************************************)
THEOREM TypesHold == Spec => []TypeOK
<1>1. ASSUME Inv PROVE TypeOK
  <2>1. /\ links \in Databases /\ stage \in {"idle", "branches", "plans", "answered"}
        /\ failures \in 0..MaxFailures /\ errors \in BOOLEAN /\ shown \subseteq Rels
        /\ repeated \in BOOLEAN /\ out \in Outputs /\ merged \in Outputs
    BY <1>1 DEF Inv, Asking, Counting, Finding
  <2>2. CASE stage # "answered"
    <3>1. answer.kind = "none" /\ Contents(answer) = Nothing /\ Nothing \in Outputs
      BY <1>1, <2>2, OutputsAreGood DEF Inv, Answering
    <3> QED BY <2>1, <3>1 DEF TypeOK, Contents
  <2>3. CASE stage = "answered"
    BY <1>1, <2>1, <2>3 DEF Inv, Answering, TypeOK, Contents
  <2> QED BY <2>2, <2>3
<1> QED BY <1>1, InvHolds, PTL

(***************************************************************************)
(* NothingInvented holds always: whatever fails and wherever LIMIT cuts,   *)
(* an answer to a plain query shows only what the database holds in its    *)
(* pattern, in the direction in which the pattern follows a link.          *)
(***************************************************************************)
THEOREM AnswersAreFound == Spec => []NothingInvented
<1>1. ASSUME Inv, stage = "answered", Plain(plan)
      PROVE  /\ ToSet(answer.rels) \subseteq RelsFound(plan, links)
             /\ ToSet(answer.nodes) \subseteq NodesFound(plan, links)
             /\ ToSet(answer.rows) \subseteq FirstsFound(plan, links)
  <2>1. Good(plan, links, Contents(answer))
    BY <1>1 DEF Inv, Answering
  <2> QED BY <1>1, <2>1 DEF Good, Sound, Contents
<1>2. Inv => NothingInvented
  BY <1>1 DEF NothingInvented
<1> QED BY <1>2, InvHolds, PTL

(***************************************************************************)
(* NoLooseEnds holds always: where LIMIT cuts the links of a branch, the   *)
(* nodes that are left are the ends of those that are left.                *)
(***************************************************************************)
THEOREM GraphsHoldTogether == Spec => []NoLooseEnds
<1>1. ASSUME Inv, AnswerIs("graph")
      PROVE  LET ends == UNION {{r.start, r.end} : r \in ToSet(answer.rels)}
             IN  /\ ends \subseteq ToSet(answer.nodes)
                 /\ Hops(plan) > 0 => ToSet(answer.nodes) \subseteq ends
  <2>1. Tight(plan, Contents(answer))
    BY <1>1 DEF Inv, Answering, AnswerIs, Good
  <2> QED BY <2>1 DEF Tight, Contents
<1>2. Inv => NoLooseEnds
  BY <1>1 DEF NoLooseEnds
<1> QED BY <1>2, InvHolds, PTL

-----------------------------------------------------------------------------
(* Nothing is missed where nothing is cut, fails or is refused.            *)

\* What o shows covers what a concrete plan of b finds.
Covers(p, d, o, b, cp) ==
  /\ p.returns = "graph" => /\ RelsIn(cp, Hops(b), Rows(b, cp, d)) \subseteq ToSet(o.rels)
                            /\ NodesIn(Hops(b), Rows(b, cp, d)) \subseteq ToSet(o.nodes)
  /\ p.returns = "scalar" => FirstsIn(Rows(b, cp, d)) \subseteq ToSet(o.rows)

LEMMA Multiples ==
  /\ \A h, a \in Nat : h * a \in Nat /\ (h + 1) * a = h * a + a
  /\ \A h, a, b \in Nat : a <= b => h * a <= h * b
<1>1. \A h, a \in Nat : h * a \in Nat /\ (h + 1) * a = h * a + a
  OBVIOUS
<1>2. ASSUME NEW h \in Nat, NEW a \in Nat, NEW b \in Nat, a <= b PROVE h * a <= h * b
  <2>1. PICK c \in Nat : b = a + c
    <3>1. b - a \in Nat /\ b = a + (b - a)
      BY <1>2
    <3> QED BY <3>1
  <2>2. h * b = h * a + h * c
    BY <2>1
  <2>3. h * a \in Nat /\ h * c \in Nat
    BY <1>1
  <2> QED BY <2>2, <2>3
<1> QED BY <1>1, <1>2

LEMMA ReturnedCovers ==
  ASSUME NEW p, WellFormed(p), p.returns # "count", links \in Databases, NEW b \in Branches(p),
         NEW cp \in ConcretePlans(b), NEW o, o = Returned(b, cp),
         NEW n, n = Cardinality(Rows(b, cp, links))
  PROVE  /\ n \in Nat
         /\ Len(o.rels) <= Hops(b) * n
         /\ Len(o.nodes) <= (Hops(b) + 1) * n
         /\ p.skip = 0 /\ n <= p.limit => Covers(p, links, o, b, cp)
         /\ p.returns = "scalar" /\ p.skip = 0 /\ p.limit > 0 /\ o.rows = <<>>
              => Rows(b, cp, links) = {}
<1>1. /\ WellFormed(b) /\ Hops(b) \in Nat /\ b.limit = p.limit /\ b.skip = p.skip
      /\ b.returns = p.returns
  BY BranchIsPattern
<1>2. b.limit \in Nat /\ b.skip \in Nat
  BY <1>1 DEF WellFormed
<1>3. PICK S : S = Rows(b, cp, links)
  OBVIOUS
<1>4. PICK page : page = Page(b, S)
  OBVIOUS
<1>5. page \in Seq(S) /\ IsFiniteSet(S) /\ n \in Nat /\ Len(page) \in Nat
  <2>1. page \in Seq(S) /\ IsFiniteSet(S)
    BY <1>1, <1>3, <1>4, PageHolds
  <2> QED BY <1>3, <2>1, FS_CardinalityType, LenProperties
<1>6. Len(page) = IF n <= b.skip THEN 0 ELSE IF n <= b.skip + b.limit THEN n - b.skip ELSE b.limit
  BY <1>1, <1>3, <1>4, PageHolds
<1>7. Len(page) <= n
  BY <1>2, <1>5, <1>6
<1>8. p.skip = 0 /\ n <= p.limit => ToSet(page) = S
  BY <1>1, <1>3, <1>4, PageHolds
<1>9. page \in Seq(Rows(b, cp, links))
  BY <1>3, <1>5
<1>10. CASE b.returns = "scalar"
  <2>1. o = Projected(b, page)
    BY <1>3, <1>4, <1>10 DEF Returned
  <2>2. o.nodes = <<>> /\ o.rels = <<>> /\ Len(o.rows) = Len(page)
    BY <1>1, <1>9, <2>1, ProjectedHolds
  <2>3. ToSet(o.rows) = FirstsIn(ToSet(page))
    BY <1>1, <1>9, <2>1, ProjectedHolds
  <2>4. Len(o.rels) <= Hops(b) * n /\ Len(o.nodes) <= (Hops(b) + 1) * n
    <3>1. Hops(b) * n \in Nat /\ (Hops(b) + 1) * n \in Nat
      BY <1>1, <1>5
    <3>2. Len(o.rels) = 0 /\ Len(o.nodes) = 0
      BY <2>2, EmptyList
    <3> QED BY <3>1, <3>2
  <2>5. p.skip = 0 /\ n <= p.limit => Covers(p, links, o, b, cp)
    BY <1>1, <1>3, <1>8, <1>10, <2>3 DEF Covers
  <2>6. ASSUME p.skip = 0, p.limit > 0, o.rows = <<>> PROVE S = {}
    <3>1. Len(page) = 0
      BY <2>2, <2>6, EmptyList
    <3>2. n = 0
      BY <1>1, <1>2, <1>5, <1>6, <2>6, <3>1
    <3> QED BY <1>3, <1>5, <3>2, FS_EmptySet
  <2> QED BY <1>3, <1>5, <2>4, <2>5, <2>6
<1>11. CASE b.returns # "scalar"
  <2>1. o = Converted(b, cp, page)
    BY <1>3, <1>4, <1>11 DEF Returned
  <2>2. Len(o.nodes) = (Hops(b) + 1) * Len(page) /\ Len(o.rels) = Hops(b) * Len(page)
    BY <1>1, <1>9, <2>1, ConvertedHolds
  <2>3. ToSet(o.nodes) = NodesIn(Hops(b), ToSet(page))
    BY <1>1, <1>9, <2>1, ConvertedHolds
  <2>4. ToSet(o.rels) = RelsIn(cp, Hops(b), ToSet(page))
    BY <1>1, <1>9, <2>1, ConvertedHolds
  <2>5. Len(o.rels) <= Hops(b) * n /\ Len(o.nodes) <= (Hops(b) + 1) * n
    <3>1. PICK a \in Nat, h \in Nat, k \in Nat : a = Len(page) /\ h = Hops(b) /\ k = Hops(b) + 1
      BY <1>1, <1>5
    <3>2. h * a <= h * n /\ k * a <= k * n
      BY <1>5, <1>7, <3>1, Multiples
    <3> QED BY <2>2, <3>1, <3>2
  <2>6. p.skip = 0 /\ n <= p.limit => Covers(p, links, o, b, cp)
    BY <1>1, <1>3, <1>8, <1>11, <2>3, <2>4 DEF Covers
  <2> QED BY <1>1, <1>5, <1>11, <2>5, <2>6
<1> QED BY <1>10, <1>11

\* The rows of the concrete plans that have run.
RanRows(b, ps, d) == UNION {{cp} \X Rows(b, cp, d) : cp \in ConcretePlans(b) \ ps}

Fits(d, b, ps, o) == /\ Len(o.rels) <= Hops(b) * Cardinality(RanRows(b, ps, d))
                     /\ Len(o.nodes) <= (Hops(b) + 1) * Cardinality(RanRows(b, ps, d))

LEMMA RanRowsGrow ==
  ASSUME NEW b, WellFormed(b), links \in Databases, NEW ps, ps \subseteq ConcretePlans(b),
         NEW cp \in ps
  PROVE  /\ IsFiniteSet(RanRows(b, ps, links)) /\ Cardinality(RanRows(b, ps, links)) \in Nat
         /\ Cardinality(RanRows(b, ps \ {cp}, links)) =
              Cardinality(RanRows(b, ps, links)) + Cardinality(Rows(b, cp, links))
<1> DEFINE R == RanRows(b, ps, links)
           S == Rows(b, cp, links)
           Q == {cp} \X S
<1>1. IsFiniteSet(AllRows(b, links))
  BY AllRowsFinite
<1>2. R \in SUBSET AllRows(b, links)
  BY DEF RanRows, AllRows
<1>3. IsFiniteSet(R) /\ Cardinality(R) \in Nat
  BY <1>1, <1>2, FS_Subset, FS_CardinalityType
<1>4. IsFiniteSet(S) /\ Cardinality(S) \in Nat
  BY RowsFinite, FS_CardinalityType
<1>5. IsFiniteSet(Q) /\ Cardinality(Q) = Cardinality(S)
  <2>1. IsFiniteSet({cp}) /\ Cardinality({cp}) = 1
    BY FS_Singleton
  <2>2. IsFiniteSet(Q) /\ Cardinality(Q) = 1 * Cardinality(S)
    BY <1>4, <2>1, FS_Product
  <2> QED BY <1>4, <2>2
<1>6. RanRows(b, ps \ {cp}, links) = R \cup Q
  <2>1. ConcretePlans(b) \ (ps \ {cp}) = (ConcretePlans(b) \ ps) \cup {cp}
    OBVIOUS
  <2> QED BY <2>1 DEF RanRows
<1>7. R \cap Q = {}
  <2>1. \A x \in R : x[1] \notin ps
    BY DEF RanRows
  <2>2. \A x \in Q : x[1] = cp
    OBVIOUS
  <2> QED BY <2>1, <2>2
<1> HIDE DEF R, S, Q
<1>8. Cardinality(R \cup Q) = Cardinality(R) + Cardinality(Q) - Cardinality(R \cap Q)
  BY <1>3, <1>5, FS_Union
<1>9. Cardinality(R \cap Q) = 0
  BY <1>7, FS_EmptySet
<1>10. Cardinality(R \cup Q) = Cardinality(R) + Cardinality(S)
  BY <1>3, <1>4, <1>5, <1>8, <1>9
<1> QED BY <1>3, <1>6, <1>10 DEF R, S

-----------------------------------------------------------------------------
(* Tables without rows.                                                    *)

Empty(d, b) == \A cp \in ConcretePlans(b) : Rows(b, cp, d) = {}

\* While a table without errors has no rows, what has run has found none.
BlankSoFar ==
  stage \in {"branches", "plans"} /\ plan.returns = "scalar" /\ ~errors
  /\ plan.skip = 0 /\ plan.limit > 0 =>
    /\ merged.rows = <<>> =>
         \A b \in Branches(plan) : b \in branches \/ (stage = "plans" /\ b = branch) \/ Empty(links, b)
    /\ stage = "plans" /\ out.rows = <<>> =>
         \A cp \in ConcretePlans(branch) : cp \in plans \/ Rows(branch, cp, links) = {}

BlankInv == BlankSoFar /\ EmptyTablesAreTrue

LEMMA NarrowPlans ==
  ASSUME NEW p, NEW b, Narrows(p, b)
  PROVE  ConcretePlans(b) \subseteq ConcretePlans(p)
<1>1. Hops(b) = Hops(p) /\ Vertices(b) = Vertices(p) /\ \A i : Fixed(b, i) = Fixed(p, i)
  BY NarrowFixes
<1>2. \A i \in 1..Hops(p) : EdgeCandidates(b, i) \subseteq EdgeCandidates(p, i)
  BY <1>1 DEF EdgeCandidates, Narrows
<1>3. Combinations(b) \subseteq Combinations(p)
  BY <1>1, <1>2 DEF Combinations
<1> QED BY <1>1, <1>3 DEF ConcretePlans

\* A branch's concrete plans are the query's.
LEMMA BranchPlans ==
  ASSUME NEW p, WellFormed(p), NEW b \in Branches(p)
  PROVE  ConcretePlans(b) \subseteq ConcretePlans(p)
BY BranchIsPattern, TypedNarrows, NarrowPlans

LEMMA NoRowsNoMatches ==
  ASSUME NEW p, WellFormed(p), Plain(p), links \in Databases,
         \A b \in Branches(p) : Empty(links, b)
  PROVE  Matches(p, links) = {}
BY FoundAreRows DEF Empty

LEMMA RunKeepsBlank ==
  ASSUME Inv, BlankInv, Run
  PROVE  BlankSoFar'
<1>1. /\ stage = "plans" /\ out' = Extended(out, Returned(branch, NextPlan))
      /\ plans' = plans \ {NextPlan}
      /\ UNCHANGED <<links, plan, stage, branches, branch, merged, failures, errors>>
  BY DEF Run
<1>2. NextPlan \in plans
  BY DEF Run, NextPlan
<1>3. /\ WellFormed(plan) /\ links \in Databases /\ branch \in Branches(plan)
      /\ NextPlan \in ConcretePlans(branch) /\ plan.returns # "count"
  BY <1>1, <1>2 DEF Inv, Asking
<1>4. PICK t : t = Returned(branch, NextPlan)
  OBVIOUS
<1>5. out \in Outputs /\ t \in Outputs
  BY <1>1, <1>3, <1>4, ReturnedIsGood DEF Inv, Finding, Good
<1>6. ASSUME plan.returns = "scalar", plan.skip = 0, plan.limit > 0, out'.rows = <<>>
      PROVE  out.rows = <<>> /\ Rows(branch, NextPlan, links) = {}
  <2>1. out.rows \in Seq(Records) /\ t.rows \in Seq(Records)
    BY <1>5 DEF Outputs
  <2>2. out'.rows = out.rows \o t.rows
    BY <1>1, <1>4 DEF Extended
  <2>3. ToSet(out.rows \o t.rows) = ToSet(out.rows) \cup ToSet(t.rows) /\ ToSet(<<>>) = {}
    BY <2>1, InBoth, EmptyList
  <2>4. ToSet(out.rows) = {} /\ ToSet(t.rows) = {}
    BY <1>6, <2>2, <2>3
  <2>5. out.rows = <<>> /\ t.rows = <<>>
    BY <2>1, <2>4, InList
  <2>6. Rows(branch, NextPlan, links) = {}
    BY <1>3, <1>4, <1>6, <2>5, ReturnedCovers
  <2> QED BY <2>5, <2>6
<1>7. ASSUME plan.returns = "scalar", ~errors, plan.skip = 0, plan.limit > 0
      PROVE  /\ merged.rows = <<>> =>
                  \A b \in Branches(plan) : b \in branches \/ (stage = "plans" /\ b = branch) \/ Empty(links, b)
             /\ out'.rows = <<>> =>
                  \A cp \in ConcretePlans(branch) : cp \in plans' \/ Rows(branch, cp, links) = {}
  <2>1. /\ merged.rows = <<>> =>
             \A b \in Branches(plan) : b \in branches \/ (stage = "plans" /\ b = branch) \/ Empty(links, b)
        /\ out.rows = <<>> =>
             \A cp \in ConcretePlans(branch) : cp \in plans \/ Rows(branch, cp, links) = {}
    BY <1>1, <1>7 DEF BlankInv, BlankSoFar
  <2> QED BY <1>1, <1>6, <1>7, <2>1
<1> QED BY <1>1, <1>7 DEF BlankSoFar

LEMMA LeaveKeepsBlank ==
  ASSUME Inv, BlankInv, Leave
  PROVE  BlankSoFar'
<1>1. /\ stage = "plans" /\ plans = {} /\ stage' = "branches" /\ out' = Nothing
      /\ merged' = Extended(merged, Trimmed(branch, out))
      /\ UNCHANGED <<links, plan, branches, branch, plans, failures, errors>>
  BY DEF Leave
<1>2. WellFormed(plan) /\ branch \in Branches(plan) /\ branch.limit \in Nat
  BY <1>1, BranchIsPattern DEF Inv, Asking, WellFormed
<1>3. PICK t : t = Trimmed(branch, out)
  OBVIOUS
<1>4. t.rows = out.rows /\ t \in Outputs /\ merged \in Outputs
  BY <1>1, <1>2, <1>3, TrimmedIsGood DEF Inv, Finding, Good
<1>5. merged'.rows = <<>> => merged.rows = <<>> /\ out.rows = <<>>
  <2>1. merged.rows \in Seq(Records) /\ t.rows \in Seq(Records)
    BY <1>4 DEF Outputs
  <2>2. merged'.rows = merged.rows \o t.rows
    BY <1>1, <1>3 DEF Extended
  <2>3. ToSet(merged.rows \o t.rows) = ToSet(merged.rows) \cup ToSet(t.rows) /\ ToSet(<<>>) = {}
    BY <2>1, InBoth, EmptyList
  <2>4. merged'.rows = <<>> => ToSet(merged.rows) = {} /\ ToSet(t.rows) = {}
    BY <2>2, <2>3
  <2> QED BY <1>4, <2>1, <2>4, InList
<1>6. ASSUME plan.returns = "scalar", ~errors, plan.skip = 0, plan.limit > 0, merged'.rows = <<>>,
             NEW b \in Branches(plan)
      PROVE  b \in branches \/ Empty(links, b)
  <2>1. b \in branches \/ b = branch \/ Empty(links, b)
    BY <1>1, <1>5, <1>6 DEF BlankInv, BlankSoFar
  <2>2. Empty(links, branch)
    BY <1>1, <1>5, <1>6 DEF BlankInv, BlankSoFar, Empty
  <2> QED BY <2>1, <2>2
<1> QED BY <1>1, <1>6 DEF BlankSoFar

LEMMA StepKeepsBlank ==
  ASSUME Inv, BlankInv, [Next]_vars
  PROVE  BlankInv'
<1>1. CASE More \/ \E p \in Plans : Ask(p)
  <2>1. PICK p : Begin(p)
    BY <1>1 DEF More, Ask
  <2>2. stage' = "branches" /\ branches' = Branches(plan')
    BY <2>1 DEF Begin
  <2> QED BY <2>2 DEF BlankInv, BlankSoFar, EmptyTablesAreTrue, AnswerIs
<1>2. ASSUME NEW p \in Plans, Sample(p) PROVE BlankInv'
  <2>1. stage' = "answered" /\ answer'.kind \in {"graph", "error"}
    BY <1>2 DEF Sample, AnswerAtOnce, Answered
  <2> QED BY <2>1 DEF BlankInv, BlankSoFar, EmptyTablesAreTrue, AnswerIs
<1>3. ASSUME NEW p \in Plans, Count(p) PROVE BlankInv'
  <2>1. stage' = "answered" /\ plan' = p /\ links' = links /\ WellFormed(p)
    BY <1>3, QueriesAssumption DEF Count, AnswerAtOnce
  <2>2. answer'.kind = "scalar" => ConcretePlans(p) = {}
    BY <1>3 DEF Count, AnswerAtOnce, Answered, Counted
  <2>3. ASSUME ConcretePlans(p) = {}, Plain(p) PROVE Matches(p, links) = {}
    BY <2>1, <2>3, BranchPlans, NoRowsNoMatches DEF Empty, Inv, Asking
  <2> QED BY <2>1, <2>2, <2>3 DEF BlankInv, BlankSoFar, EmptyTablesAreTrue, AnswerIs
<1>4. CASE Enter
  <2>1. NextBranch \in branches
    BY <1>4 DEF Enter, NextBranch
  <2>2. /\ stage = "branches" /\ stage' = "plans"
        /\ branches' = branches \ {NextBranch} /\ branch' = NextBranch
        /\ plans' = ConcretePlans(NextBranch) /\ out' = Nothing
        /\ UNCHANGED <<links, plan, merged, failures, errors, answer, shown, repeated>>
    BY <1>4 DEF Enter
  <2> QED BY <2>1, <2>2 DEF BlankInv, BlankSoFar, EmptyTablesAreTrue, AnswerIs
<1>5. CASE Refuse
  <2>1. CASE plan.returns = "graph"
    <3>1. stage' = "answered" /\ answer'.kind = "error"
      BY <1>5, <2>1 DEF Refuse, Answered
    <3> QED BY <3>1 DEF BlankInv, BlankSoFar, EmptyTablesAreTrue, AnswerIs
  <2>2. CASE plan.returns # "graph"
    <3>1. stage' = "branches" /\ errors' = TRUE
      BY <1>5, <2>2 DEF Refuse
    <3> QED BY <3>1 DEF BlankInv, BlankSoFar, EmptyTablesAreTrue, AnswerIs
  <2> QED BY <2>1, <2>2
<1>6. CASE Run
  <2>1. stage' = "plans"
    BY <1>6 DEF Run
  <2> QED BY <1>6, <2>1, RunKeepsBlank DEF BlankInv, EmptyTablesAreTrue, AnswerIs
<1>7. CASE Fail
  <2>1. /\ stage' = "branches" /\ plan' = plan /\ errors' = (errors \/ plan.returns = "scalar")
    BY <1>7 DEF Fail
  <2> QED BY <2>1 DEF BlankInv, BlankSoFar, EmptyTablesAreTrue, AnswerIs
<1>8. CASE Leave
  <2>1. stage' = "branches"
    BY <1>8 DEF Leave
  <2> QED BY <1>8, <2>1, LeaveKeepsBlank DEF BlankInv, EmptyTablesAreTrue, AnswerIs
<1>9. CASE Reply
  <2>1. /\ stage = "branches" /\ branches = {} /\ stage' = "answered"
        /\ UNCHANGED <<links, plan>>
        /\ answer' = IF merged.rows = <<>> /\ errors THEN Answered("error", Nothing)
                     ELSE Answered(plan.returns, merged)
    BY <1>9 DEF Reply
  <2>2. merged \in Outputs /\ WellFormed(plan) /\ links \in Databases
    BY <2>1 DEF Inv, Finding, Asking
  <2>3. ASSUME answer'.kind = "scalar", answer'.rows = <<>>, Plain(plan), plan.skip = 0, plan.limit > 0
        PROVE  Matches(plan, links) = {}
    <3>1. ~(merged.rows = <<>> /\ errors)
      BY <2>1, <2>3 DEF Answered
    <3>2. plan.returns = "scalar" /\ merged.rows = <<>> /\ ~errors
      BY <2>1, <2>2, <2>3, <3>1 DEF Answered
    <3>3. \A b \in Branches(plan) : Empty(links, b)
      BY <2>1, <2>3, <3>2 DEF BlankInv, BlankSoFar
    <3> QED BY <2>2, <2>3, <3>3, NoRowsNoMatches
  <2> QED BY <2>1, <2>3 DEF BlankInv, BlankSoFar, EmptyTablesAreTrue, AnswerIs
<1>10. CASE UNCHANGED vars
  BY <1>10 DEF vars, work, BlankInv, BlankSoFar, EmptyTablesAreTrue, AnswerIs
<1> QED BY <1>1, <1>2, <1>3, <1>4, <1>5, <1>6, <1>7, <1>8, <1>9, <1>10 DEF Next

(***************************************************************************)
(* EmptyTablesAreTrue holds always: a table that is answered without rows  *)
(* has had every statement of every branch, and none of them found a row.  *)
(***************************************************************************)
THEOREM NoRowsMeansNoMatch == Spec => []EmptyTablesAreTrue
<1>1. Init => BlankInv
  BY DEF Init, BlankInv, BlankSoFar, EmptyTablesAreTrue, AnswerIs
<1>2. Inv /\ BlankInv /\ [Next]_vars => BlankInv'
  BY StepKeepsBlank
<1>3. BlankInv => EmptyTablesAreTrue
  BY DEF BlankInv
<1> QED BY <1>1, <1>2, <1>3, InvHolds, PTL DEF Spec

-----------------------------------------------------------------------------
(* Whole answers.                                                          *)

AllCovered(p, d, o, b) == \A cp \in ConcretePlans(b) : Covers(p, d, o, b, cp)

\* While nothing is cut, fails or is refused, all that has run is shown.
WholeSoFar ==
  stage \in {"branches", "plans"} /\ Uncut(plan) /\ failures = 0 /\ ~errors =>
    /\ \A b \in Branches(plan) : \/ b \in branches
                                 \/ stage = "plans" /\ b = branch
                                 \/ AllCovered(plan, links, merged, b)
    /\ stage = "plans" =>
         /\ Fits(links, branch, plans, out)
         /\ \A cp \in ConcretePlans(branch) : cp \in plans \/ Covers(plan, links, out, branch, cp)

WholeInv == WholeSoFar /\ NothingMissed

LEMMA CoversMore ==
  ASSUME NEW p, NEW d, NEW o, NEW u, NEW b, NEW cp, Covers(p, d, o, b, cp),
         ToSet(o.nodes) \subseteq ToSet(u.nodes), ToSet(o.rels) \subseteq ToSet(u.rels),
         ToSet(o.rows) \subseteq ToSet(u.rows)
  PROVE  Covers(p, d, u, b, cp)
BY DEF Covers

\* What a branch has run is no more than what it finds, and so within LIMIT.
LEMMA UncutBranch ==
  ASSUME links \in Databases, NEW p, WellFormed(p), Uncut(p), NEW b \in Branches(p), NEW ps
  PROVE  /\ p.skip = 0 /\ p.limit \in Nat /\ Hops(b) \in Nat
         /\ IsFiniteSet(RanRows(b, ps, links)) /\ Cardinality(RanRows(b, ps, links)) \in Nat
         /\ Cardinality(RanRows(b, ps, links)) <= p.limit
         /\ Hops(b) * Cardinality(RanRows(b, ps, links)) <= p.limit
         /\ (Hops(b) + 1) * Cardinality(RanRows(b, ps, links)) <= p.limit
<1>1. WellFormed(b) /\ Hops(b) = Hops(p) /\ Hops(b) \in Nat
  BY BranchIsPattern
<1>2. IsFiniteSet(AllRows(b, links)) /\ Cardinality(AllRows(b, links)) \in Nat
  BY <1>1, AllRowsFinite
<1>3. RanRows(b, ps, links) \in SUBSET AllRows(b, links)
  BY DEF RanRows, AllRows
<1>4. PICK h : h = Hops(b)
  OBVIOUS
<1>5. PICK a : a = Cardinality(AllRows(b, links))
  OBVIOUS
<1>6. PICK c : c = Cardinality(RanRows(b, ps, links))
  OBVIOUS
<1>7. IsFiniteSet(RanRows(b, ps, links)) /\ c \in Nat /\ c <= a
  BY <1>2, <1>3, <1>5, <1>6, FS_Subset, FS_CardinalityType
<1>8. p.skip = 0 /\ p.limit \in Nat /\ (h + 1) * a <= p.limit
  BY <1>1, <1>4, <1>5 DEF Uncut, WellFormed
<1>9. h \in Nat /\ a \in Nat /\ h + 1 \in Nat
  BY <1>1, <1>2, <1>4, <1>5
<1>10. (h + 1) * c <= (h + 1) * a /\ (h + 1) * c = h * c + c /\ h * c \in Nat
       /\ (h + 1) * a \in Nat
  BY <1>7, <1>9, Multiples
<1>11. c <= p.limit /\ h * c <= p.limit /\ (h + 1) * c <= p.limit
  BY <1>7, <1>8, <1>10
<1> QED BY <1>1, <1>4, <1>6, <1>7, <1>8, <1>11

LEMMA RunKeepsWhole ==
  ASSUME Inv, WholeInv, Run
  PROVE  WholeSoFar'
<1>1. /\ stage = "plans" /\ out' = Extended(out, Returned(branch, NextPlan))
      /\ plans' = plans \ {NextPlan}
      /\ UNCHANGED <<links, plan, stage, branches, branch, merged, failures, errors>>
  BY DEF Run
<1>2. NextPlan \in plans
  BY DEF Run, NextPlan
<1>3. /\ WellFormed(plan) /\ links \in Databases /\ branch \in Branches(plan)
      /\ plans \subseteq ConcretePlans(branch) /\ NextPlan \in ConcretePlans(branch)
      /\ plan.returns # "count"
  BY <1>1, <1>2 DEF Inv, Asking
<1>4. PICK t : t = Returned(branch, NextPlan)
  OBVIOUS
<1>5. Good(plan, links, out) /\ Good(plan, links, t) /\ out' = Extended(out, t)
  BY <1>1, <1>3, <1>4, ReturnedIsGood DEF Inv, Finding
<1>6. /\ ToSet(out'.nodes) = ToSet(out.nodes) \cup ToSet(t.nodes)
      /\ ToSet(out'.rels) = ToSet(out.rels) \cup ToSet(t.rels)
      /\ ToSet(out'.rows) = ToSet(out.rows) \cup ToSet(t.rows)
  BY <1>5, ExtendedIsGood
<1>7. SUFFICES ASSUME Uncut(plan), failures = 0, ~errors
               PROVE  /\ Fits(links, branch, plans', out')
                      /\ \A cp \in ConcretePlans(branch) :
                           cp \in plans' \/ Covers(plan, links, out', branch, cp)
  BY <1>1 DEF WholeInv, WholeSoFar, Uncut
<1>8. /\ Fits(links, branch, plans, out)
      /\ \A cp \in ConcretePlans(branch) : cp \in plans \/ Covers(plan, links, out, branch, cp)
  BY <1>1, <1>7 DEF WholeInv, WholeSoFar
<1>9. PICK h : h = Hops(branch)
  OBVIOUS
<1>10. PICK n : n = Cardinality(Rows(branch, NextPlan, links))
  OBVIOUS
<1>11. PICK c : c = Cardinality(RanRows(branch, plans, links))
  OBVIOUS
<1>12. h \in Nat /\ c \in Nat
  BY <1>3, <1>7, <1>9, <1>11, UncutBranch
<1>13. n \in Nat /\ Cardinality(RanRows(branch, plans', links)) = c + n
  <2>1. WellFormed(branch)
    BY <1>3, BranchIsPattern
  <2> QED BY <1>1, <1>2, <1>3, <1>10, <1>11, <2>1, RanRowsGrow, RowsFinite, FS_CardinalityType
<1>14. n <= plan.limit /\ plan.skip = 0
  <2>1. c + n <= plan.limit /\ plan.limit \in Nat /\ plan.skip = 0
    BY <1>3, <1>7, <1>13, UncutBranch
  <2> QED BY <2>1, <1>12, <1>13
<1>15. /\ Len(t.rels) <= h * n /\ Len(t.nodes) <= (h + 1) * n
       /\ Covers(plan, links, t, branch, NextPlan)
  BY <1>3, <1>4, <1>9, <1>10, <1>14, ReturnedCovers
<1>16. Fits(links, branch, plans', out')
  <2>1. /\ out.nodes \in Seq(Records) /\ t.nodes \in Seq(Records)
        /\ out.rels \in Seq(Rels) /\ t.rels \in Seq(Rels)
    BY <1>5 DEF Good, Outputs
  <2>2. out'.nodes = out.nodes \o t.nodes /\ out'.rels = out.rels \o t.rels
    BY <1>5 DEF Extended
  <2>3. /\ Len(out'.nodes) = Len(out.nodes) + Len(t.nodes)
        /\ Len(out'.rels) = Len(out.rels) + Len(t.rels)
    BY <2>1, <2>2, InBoth
  <2>4. /\ Len(out.nodes) \in Nat /\ Len(t.nodes) \in Nat
        /\ Len(out.rels) \in Nat /\ Len(t.rels) \in Nat
    BY <2>1, InList
  <2>5. Len(out.rels) <= h * c /\ Len(out.nodes) <= (h + 1) * c
    BY <1>8, <1>9, <1>11 DEF Fits
  <2>6. /\ h * (c + n) = h * c + h * n /\ (h + 1) * (c + n) = (h + 1) * c + (h + 1) * n
        /\ h * c \in Nat /\ h * n \in Nat /\ (h + 1) * c \in Nat /\ (h + 1) * n \in Nat
    BY <1>12, <1>13
  <2>7. \A x, y, u, v \in Nat : x <= u /\ y <= v => x + y <= u + v
    OBVIOUS
  <2>8. Len(out'.rels) <= h * c + h * n
    <3>1. Len(out.rels) + Len(t.rels) <= h * c + h * n
      BY ONLY <1>15, <2>4, <2>5, <2>6, <2>7
    <3> QED BY <2>3, <3>1
  <2>9. Len(out'.nodes) <= (h + 1) * c + (h + 1) * n
    <3>1. Len(out.nodes) + Len(t.nodes) <= (h + 1) * c + (h + 1) * n
      BY ONLY <1>15, <2>4, <2>5, <2>6, <2>7
    <3> QED BY <2>3, <3>1
  <2>10. Len(out'.rels) <= h * (c + n) /\ Len(out'.nodes) <= (h + 1) * (c + n)
    BY ONLY <2>6, <2>8, <2>9, Zenon
  <2> QED BY <1>9, <1>13, <2>10 DEF Fits
<1>17. ASSUME NEW cp \in ConcretePlans(branch), cp \notin plans'
       PROVE  Covers(plan, links, out', branch, cp)
  <2>1. CASE cp = NextPlan
    BY <1>6, <1>15, <2>1, CoversMore
  <2>2. CASE cp \notin plans
    <3>1. Covers(plan, links, out, branch, cp)
      BY <1>8, <2>2
    <3> QED BY <1>6, <3>1, CoversMore
  <2> QED BY <1>1, <1>17, <2>1, <2>2
<1> QED BY <1>16, <1>17

LEMMA LeaveKeepsWhole ==
  ASSUME Inv, WholeInv, Leave
  PROVE  WholeSoFar'
<1>1. /\ stage = "plans" /\ plans = {} /\ stage' = "branches"
      /\ merged' = Extended(merged, Trimmed(branch, out))
      /\ UNCHANGED <<links, plan, branches, branch, plans, failures, errors>>
  BY DEF Leave
<1>2. SUFFICES ASSUME Uncut(plan), failures = 0, ~errors, NEW b \in Branches(plan)
               PROVE  b \in branches \/ AllCovered(plan, links, merged', b)
  BY <1>1 DEF WholeSoFar, Uncut
<1>3. /\ WellFormed(plan) /\ links \in Databases /\ branch \in Branches(plan)
      /\ Good(plan, links, out) /\ Good(plan, links, merged)
  BY <1>1 DEF Inv, Asking, Finding
<1>4. branch.limit = plan.limit /\ plan.limit \in Nat
  BY <1>3, BranchIsPattern DEF WellFormed
<1>5. Len(out.rels) <= plan.limit /\ Len(out.nodes) <= plan.limit
  <2>1. Fits(links, branch, {}, out)
    BY <1>1, <1>2 DEF WholeInv, WholeSoFar
  <2>2. PICK c : c = Cardinality(RanRows(branch, {}, links))
    OBVIOUS
  <2>3. PICK h : h = Hops(branch)
    OBVIOUS
  <2>4. c \in Nat /\ h \in Nat /\ h * c <= plan.limit /\ (h + 1) * c <= plan.limit
    BY <1>2, <1>3, <2>2, <2>3, UncutBranch
  <2>5. Len(out.rels) <= h * c /\ Len(out.nodes) <= (h + 1) * c
    BY <2>1, <2>2, <2>3 DEF Fits
  <2>6. Len(out.rels) \in Nat /\ Len(out.nodes) \in Nat
    BY <1>3, InList DEF Good, Outputs
  <2>7. h * c \in Nat /\ (h + 1) * c \in Nat
    BY <2>4
  <2> QED BY <1>4, <2>4, <2>5, <2>6, <2>7
<1>6. Trimmed(branch, out) = out
  <2>1. PICK u : u = Trimmed(branch, out)
    OBVIOUS
  <2>2. branch.limit \in Nat /\ Len(out.rels) <= branch.limit /\ Len(out.nodes) <= branch.limit
    BY <1>4, <1>5
  <2> QED BY <1>3, <2>1, <2>2, TrimmedIsGood
<1>7. /\ ToSet(merged'.nodes) = ToSet(merged.nodes) \cup ToSet(out.nodes)
      /\ ToSet(merged'.rels) = ToSet(merged.rels) \cup ToSet(out.rels)
      /\ ToSet(merged'.rows) = ToSet(merged.rows) \cup ToSet(out.rows)
  BY <1>1, <1>3, <1>6, ExtendedIsGood
<1>8. CASE b = branch
  <2>1. ASSUME NEW cp \in ConcretePlans(branch) PROVE Covers(plan, links, merged', branch, cp)
    <3>1. Covers(plan, links, out, branch, cp)
      BY <1>1, <1>2 DEF WholeInv, WholeSoFar
    <3> QED BY <1>7, <3>1, CoversMore
  <2> QED BY <1>8, <2>1 DEF AllCovered
<1>9. CASE AllCovered(plan, links, merged, b)
  <2>1. ASSUME NEW cp \in ConcretePlans(b) PROVE Covers(plan, links, merged', b, cp)
    <3>1. Covers(plan, links, merged, b, cp)
      BY <1>9 DEF AllCovered
    <3> QED BY <1>7, <3>1, CoversMore
  <2> QED BY <2>1 DEF AllCovered
<1>10. b \in branches \/ b = branch \/ AllCovered(plan, links, merged, b)
  BY <1>1, <1>2 DEF WholeInv, WholeSoFar
<1> QED BY <1>8, <1>9, <1>10

\* What covers every branch, and shows nothing else, shows what is found.
LEMMA CoveredIsWhole ==
  ASSUME NEW p, WellFormed(p), Plain(p), links \in Databases, NEW o, Good(p, links, o),
         \A b \in Branches(p) : AllCovered(p, links, o, b)
  PROVE  /\ p.returns = "graph" => /\ ToSet(o.rels) = RelsFound(p, links)
                                   /\ ToSet(o.nodes) = NodesFound(p, links)
         /\ p.returns = "scalar" => ToSet(o.rows) = FirstsFound(p, links)
<1>1. Sound(p, links, o)
  BY DEF Good
<1>2. ASSUME p.returns = "graph", NEW r \in RelsFound(p, links) PROVE r \in ToSet(o.rels)
  <2>1. PICK b \in Branches(p) : \E cp \in ConcretePlans(b) : \E m \in Rows(b, cp, links) :
          \E i \in 1..Hops(p) : r = RelOf(cp, m, i)
    BY FoundAreRows
  <2>2. PICK cp \in ConcretePlans(b) : \E m \in Rows(b, cp, links) :
          \E i \in 1..Hops(p) : r = RelOf(cp, m, i)
    BY <2>1
  <2>3. r \in RelsIn(cp, Hops(b), Rows(b, cp, links))
    BY <2>2, BranchIsPattern DEF RelsIn
  <2> QED BY <1>2, <2>2, <2>3 DEF AllCovered, Covers
<1>3. ASSUME p.returns = "graph", NEW m \in Matches(p, links) PROVE ToSet(m.nodes) \subseteq ToSet(o.nodes)
  <2>1. PICK b \in Branches(p) : \E cp \in ConcretePlans(b) : m \in Rows(b, cp, links)
    BY FoundAreRows
  <2>2. PICK cp \in ConcretePlans(b) : m \in Rows(b, cp, links)
    BY <2>1
  <2>3. WellFormed(b)
    BY BranchIsPattern
  <2>4. m.nodes \in [1..(Hops(b) + 1) -> Records]
    BY <2>2, <2>3, RowShape
  <2>5. ASSUME NEW x \in ToSet(m.nodes) PROVE x \in NodesIn(Hops(b), Rows(b, cp, links))
    <3>1. PICK i \in 1..(Hops(b) + 1) : x = m.nodes[i]
      BY <2>4 DEF ToSet
    <3> QED BY <2>2, <3>1 DEF NodesIn
  <2> QED BY <1>3, <2>2, <2>5 DEF AllCovered, Covers
<1>4. ASSUME p.returns = "scalar", NEW m \in Matches(p, links) PROVE m.nodes[1] \in ToSet(o.rows)
  <2>1. PICK b \in Branches(p) : \E cp \in ConcretePlans(b) : m \in Rows(b, cp, links)
    BY FoundAreRows
  <2>2. PICK cp \in ConcretePlans(b) : m \in Rows(b, cp, links)
    BY <2>1
  <2>3. m.nodes[1] \in FirstsIn(Rows(b, cp, links))
    BY <2>2 DEF FirstsIn
  <2> QED BY <1>4, <2>2, <2>3 DEF AllCovered, Covers
<1>5. p.returns = "graph" => ToSet(o.rels) = RelsFound(p, links)
  BY <1>1, <1>2 DEF Sound
<1>6. p.returns = "graph" => ToSet(o.nodes) = NodesFound(p, links)
  BY <1>1, <1>3 DEF Sound, NodesFound
<1>7. p.returns = "scalar" => ToSet(o.rows) = FirstsFound(p, links)
  BY <1>1, <1>4 DEF Sound, FirstsFound
<1> QED BY <1>5, <1>6, <1>7

-----------------------------------------------------------------------------
(* Counts.                                                                 *)

LEMMA PlanRowsMatch ==
  ASSUME NEW p, WellFormed(p), Plain(p), links \in Databases, NEW cp \in ConcretePlans(p),
         NEW m \in Rows(p, cp, links)
  PROVE  m \in Matches(p, links)
<1>1. Narrows(p, p)
  BY DEF Narrows
<1> QED BY <1>1, LinksTyped, RowsMatch

LEMMA MatchesAreAllRows ==
  ASSUME NEW p, WellFormed(p), Plain(p), links \in Databases, NEW m \in Matches(p, links)
  PROVE  \E cp \in ConcretePlans(p) : m \in Rows(p, cp, links)
<1>1. PICK b \in Branches(p) : \E cp \in ConcretePlans(b) : m \in Rows(b, cp, links)
  BY FoundAreRows
<1>2. PICK cp \in ConcretePlans(b) : m \in Rows(b, cp, links)
  BY <1>1
<1>3. cp \in ConcretePlans(p)
  BY BranchPlans
<1>4. Hops(b) = Hops(p) /\ Vertices(b) = Vertices(p) /\ b.ids = p.ids
  BY BranchIsPattern DEF Typed
<1>5. m \in Rows(p, cp, links)
  BY <1>2, <1>4 DEF Rows, Paths, KeySelected
<1> QED BY <1>3, <1>5

\* The link joins these records, by this pair, and no others.
Joins(l, q, a, b) ==
  \A r \in Endpoints[l.type] : \A c, d \in Records : Reads(r, l, c, d) <=> r = q /\ c = a /\ d = b

LEMMA CountableJoins ==
  ASSUME NEW p, p.returns = "count", Hops(p) > 0, Countable(p), NEW l \in links
  PROVE  \E q \in Endpoints[l.type] : \E a, b \in Records :
           Joins(l, q, a, b) /\ ((\E i \in 1..Hops(p) : p.dirs[i] = "both") => a # b)
<1>1. PICK q \in Endpoints[l.type], a \in Records, b \in Records :
        /\ \A r \in Endpoints[l.type], c, d \in Records :
             Reads(r, l, c, d) <=> r = q /\ c = a /\ d = b
        /\ (\E i \in 1..Hops(p) : p.dirs[i] = "both") => a # b
  BY DEF Countable
<1>2. Joins(l, q, a, b)
  BY <1>1 DEF Joins
<1> QED BY <1>1, <1>2

\* How a hop of a row reads its link.
LEMMA RowsRead ==
  ASSUME NEW p, WellFormed(p), links \in Databases, NEW cp \in ConcretePlans(p),
         NEW m \in Rows(p, cp, links), NEW i \in 1..Hops(p), NEW e, e = cp.edges[i]
  PROVE  /\ m.rels[i] \in links /\ m.nodes[i] \in Records /\ m.nodes[i + 1] \in Records
         /\ e = [type |-> m.rels[i].type, pair |-> e.pair, swapped |-> e.swapped]
         /\ e.pair \in Endpoints[m.rels[i].type] /\ e.swapped \in BOOLEAN
         /\ e.swapped \in Orientations[p.dirs[i]]
         /\ ~e.swapped => Reads(e.pair, m.rels[i], m.nodes[i], m.nodes[i + 1])
         /\ e.swapped => Reads(e.pair, m.rels[i], m.nodes[i + 1], m.nodes[i])
<1>1. /\ m.nodes \in [1..(Hops(p) + 1) -> Records] /\ m.rels \in [1..Hops(p) -> links]
      /\ e \in BoundEdges /\ Near(e) = m.nodes[i].label /\ Far(e) = m.nodes[i + 1].label
      /\ Joined(e, m.nodes[i], m.rels[i], m.nodes[i + 1])
      /\ Hops(p) \in Nat
  BY RowShape
<1>2. i \in 1..(Hops(p) + 1) /\ i + 1 \in 1..(Hops(p) + 1)
  BY <1>1
<1>3. m.rels[i] \in links /\ m.nodes[i] \in Records /\ m.nodes[i + 1] \in Records
  BY <1>1, <1>2
<1>4. e.type = m.rels[i].type
  BY <1>1 DEF Joined
<1>5. PICK t \in Types : e \in [type : {t}, pair : Endpoints[t], swapped : BOOLEAN]
  BY <1>1 DEF BoundEdges
<1>6. /\ e = [type |-> e.type, pair |-> e.pair, swapped |-> e.swapped]
      /\ e.pair \in Endpoints[e.type] /\ e.swapped \in BOOLEAN
  BY <1>5
<1>7. cp.edges \in Combinations(p)
  BY DEF ConcretePlans
<1>8. e.swapped \in Orientations[p.dirs[i]]
  BY <1>7 DEF Combinations, EdgeCandidates
<1>9. CASE ~e.swapped
  <2>1. Near(e) = e.pair.src /\ Far(e) = e.pair.dst
    BY <1>9 DEF Near, Far
  <2>2. NearCol(e) = e.pair.src_col /\ FarCol(e) = e.pair.dst_col
    BY ONLY <1>9 DEF NearCol, FarCol
  <2>3. Reads(e.pair, m.rels[i], m.nodes[i], m.nodes[i + 1])
    BY <1>1, <2>1, <2>2 DEF Reads, Joined
  <2> QED BY <1>3, <1>4, <1>6, <1>8, <1>9, <2>3
<1>10. CASE e.swapped
  <2>1. Near(e) = e.pair.dst /\ Far(e) = e.pair.src
    BY <1>10 DEF Near, Far
  <2>2. NearCol(e) = e.pair.dst_col /\ FarCol(e) = e.pair.src_col
    BY <1>10 DEF NearCol, FarCol
  <2>3. Reads(e.pair, m.rels[i], m.nodes[i + 1], m.nodes[i])
    BY <1>1, <2>1, <2>2 DEF Reads, Joined
  <2> QED BY <1>3, <1>4, <1>6, <1>8, <1>10, <2>3
<1> QED BY <1>6, <1>9, <1>10

\* In a countable plan a row has one meaning.
LEMMA OneMeaning ==
  ASSUME NEW p, WellFormed(p), links \in Databases, p.returns = "count", Countable(p),
         NEW m, NEW cp \in ConcretePlans(p), m \in Rows(p, cp, links),
         NEW co \in ConcretePlans(p), m \in Rows(p, co, links)
  PROVE  cp = co
<1>1. Hops(p) \in Nat /\ Vertices(p) = 1..(Hops(p) + 1)
  BY DEF WellFormed, Hops, Vertices
<1>2. ASSUME NEW i \in 1..Hops(p) PROVE cp.edges[i] = co.edges[i]
  <2>1. PICK e : e = cp.edges[i]
    OBVIOUS
  <2>2. PICK f : f = co.edges[i]
    OBVIOUS
  <2>3. PICK l \in links : l = m.rels[i]
    BY RowsRead
  <2>4. PICK x \in Records : x = m.nodes[i]
    BY RowsRead
  <2>5. PICK y \in Records : y = m.nodes[i + 1]
    BY RowsRead
  <2>6. /\ e = [type |-> l.type, pair |-> e.pair, swapped |-> e.swapped]
        /\ e.pair \in Endpoints[l.type] /\ e.swapped \in BOOLEAN
        /\ e.swapped \in Orientations[p.dirs[i]]
        /\ ~e.swapped => Reads(e.pair, l, x, y)
        /\ e.swapped => Reads(e.pair, l, y, x)
    BY <2>1, <2>3, <2>4, <2>5, RowsRead
  <2>7. /\ f = [type |-> l.type, pair |-> f.pair, swapped |-> f.swapped]
        /\ f.pair \in Endpoints[l.type] /\ f.swapped \in BOOLEAN
        /\ f.swapped \in Orientations[p.dirs[i]]
        /\ ~f.swapped => Reads(f.pair, l, x, y)
        /\ f.swapped => Reads(f.pair, l, y, x)
    BY <2>2, <2>3, <2>4, <2>5, RowsRead
  <2>8. PICK q \in Endpoints[l.type] : \E a, b \in Records :
          Joins(l, q, a, b) /\ ((\E k \in 1..Hops(p) : p.dirs[k] = "both") => a # b)
    BY <1>1, CountableJoins
  <2>9. PICK a \in Records, b \in Records :
          Joins(l, q, a, b) /\ ((\E k \in 1..Hops(p) : p.dirs[k] = "both") => a # b)
    BY <2>8
  <2>10. /\ e.pair = q /\ (~e.swapped => x = a /\ y = b) /\ (e.swapped => y = a /\ x = b)
    BY <2>6, <2>9 DEF Joins
  <2>11. /\ f.pair = q /\ (~f.swapped => x = a /\ y = b) /\ (f.swapped => y = a /\ x = b)
    BY <2>7, <2>9 DEF Joins
  <2>12. e.swapped = f.swapped
    <3>1. SUFFICES ASSUME e.swapped # f.swapped PROVE FALSE
      OBVIOUS
    <3>2. a = b
      BY <2>6, <2>7, <2>10, <2>11, <3>1
    <3>3. p.dirs[i] \in {"out", "in", "both"}
      BY DEF WellFormed, Hops
    <3>4. TRUE \in Orientations[p.dirs[i]] /\ FALSE \in Orientations[p.dirs[i]]
      BY <2>6, <2>7, <3>1
    <3>5. p.dirs[i] = "both"
      BY <3>3, <3>4, OrientationsOf
    <3> QED BY <2>9, <3>2, <3>5
  <2> QED BY <2>1, <2>2, <2>6, <2>7, <2>10, <2>11, <2>12
<1>3. ASSUME NEW i \in 1..(Hops(p) + 1) PROVE cp.labels[i] = co.labels[i]
  BY RowShape
<1>4. /\ cp \in [labels : [Vertices(p) -> Labels], edges : [1..Hops(p) -> BoundEdges]]
      /\ co \in [labels : [Vertices(p) -> Labels], edges : [1..Hops(p) -> BoundEdges]]
  BY DEF ConcretePlans, Combinations
<1>5. cp.edges = co.edges
  <2>1. cp.edges \in [1..Hops(p) -> BoundEdges] /\ co.edges \in [1..Hops(p) -> BoundEdges]
    BY <1>4
  <2>2. PICK f : f = cp.edges
    OBVIOUS
  <2>3. PICK g : g = co.edges
    OBVIOUS
  <2>4. \A i \in 1..Hops(p) : f[i] = g[i]
    BY <1>2, <2>2, <2>3
  <2>5. f \in [1..Hops(p) -> BoundEdges] /\ g \in [1..Hops(p) -> BoundEdges]
    BY <2>1, <2>2, <2>3
  <2>6. f = [i \in 1..Hops(p) |-> f[i]] /\ g = [i \in 1..Hops(p) |-> g[i]]
    BY <2>5
  <2>7. [i \in 1..Hops(p) |-> f[i]] = [i \in 1..Hops(p) |-> g[i]]
    BY <2>4
  <2>8. f = g
    BY ONLY <2>6, <2>7, Zenon
  <2> QED BY <2>2, <2>3, <2>8
<1>6. cp.labels = co.labels
  <2>1. cp.labels \in [Vertices(p) -> Labels] /\ co.labels \in [Vertices(p) -> Labels]
    BY <1>4
  <2>2. \A v \in Vertices(p) : cp.labels[v] = co.labels[v]
    BY <1>1, <1>3
  <2> QED BY ONLY <2>1, <2>2
<1> QED BY <1>4, <1>5, <1>6

\* aggregate counts what the pattern matches.
LEMMA UnionIsExact ==
  ASSUME NEW p, WellFormed(p), Plain(p), links \in Databases, p.returns = "count",
         Countable(p)
  PROVE  UnionRows(p) = Cardinality(Matches(p, links))
<1> DEFINE R == AllRows(p, links)
           M == Matches(p, links)
           f == [x \in R |-> x[2]]
<1>1. \A x : x \in R <=> \E cp \in ConcretePlans(p) : \E m \in Rows(p, cp, links) : x = <<cp, m>>
  BY DEF AllRows
<1>2. f \in [R -> M]
  <2>1. ASSUME NEW x \in R PROVE x[2] \in M
    BY <1>1, PlanRowsMatch
  <2> QED BY <2>1
<1>3. \A m \in M : \E x \in R : f[x] = m
  <2> TAKE m \in M
  <2>1. PICK cp \in ConcretePlans(p) : m \in Rows(p, cp, links)
    BY MatchesAreAllRows
  <2>2. <<cp, m>> \in R /\ f[<<cp, m>>] = m
    BY <1>1, <2>1
  <2> QED BY <2>2
<1>4. ASSUME NEW x \in R, NEW y \in R, f[x] = f[y] PROVE x = y
  <2>1. PICK cp \in ConcretePlans(p) : \E m \in Rows(p, cp, links) : x = <<cp, m>>
    BY <1>1
  <2>2. PICK co \in ConcretePlans(p) : \E m \in Rows(p, co, links) : y = <<co, m>>
    BY <1>1
  <2>3. x = <<cp, x[2]>> /\ x[2] \in Rows(p, cp, links)
    BY <2>1
  <2>4. y = <<co, y[2]>> /\ y[2] \in Rows(p, co, links)
    BY <2>2
  <2>5. x[2] = y[2]
    BY <1>4
  <2>6. cp = co
    BY <2>3, <2>4, <2>5, OneMeaning
  <2> QED BY <2>3, <2>4, <2>5, <2>6
<1>5. IsFiniteSet(R)
  BY AllRowsFinite
<1> HIDE DEF R, M, f
<1>6. f \in Surjection(R, M) /\ f \in Injection(R, M)
  BY <1>2, <1>3, <1>4 DEF Surjection, Injection, IsInjective
<1>7. Cardinality(M) = Cardinality(R)
  BY <1>5, <1>6, FS_Surjection
<1> QED BY <1>7 DEF UnionRows, R, M

\* node_count counts what a vertex alone matches.
LEMMA VertexCount ==
  ASSUME NEW p, WellFormed(p), links \in Databases, p.ids = <<>>, Hops(p) = 0
  PROVE  TableRows(p) = Cardinality(Matches(p, links))
<1> DEFINE S == {s \in Records : p.labels[1] \in {NoLabel, s.label}}
           M == Matches(p, links)
           lone(s) == [nodes |-> [i \in {1} |-> s], rels |-> [i \in {} |-> s]]
           f == [s \in S |-> lone(s)]
<1>1. Vertices(p) = {1} /\ 1..Hops(p) = {}
  BY DEF Vertices
<1>2. \A m : m \in M <=> m \in Paths(p, links) /\ p.labels[1] \in {NoLabel, m.nodes[1].label}
  BY <1>1 DEF Matches
<1>3. \A s \in Records : lone(s) \in Paths(p, links) /\ lone(s).nodes[1] = s
  BY LoneRecords
<1>4. ASSUME NEW s \in S PROVE lone(s) \in M
  BY <1>2, <1>3
<1>5. ASSUME NEW m \in M PROVE \E s \in S : lone(s) = m
  <2>1. PICK s \in Records : m = lone(s)
    BY <1>2, LoneRecords
  <2>2. s \in S
    BY <1>2, <1>3, <2>1
  <2> QED BY <2>1, <2>2
<1>6. \A s, t \in S : lone(s) = lone(t) => s = t
  BY <1>3
<1> HIDE DEF lone
<1>7. f \in Surjection(S, M) /\ f \in Injection(S, M)
  BY <1>4, <1>5, <1>6 DEF Surjection, Injection, IsInjective
<1>8. IsFiniteSet(S)
  <2>1. S \in SUBSET Records
    OBVIOUS
  <2> QED BY <2>1, QueriesAssumption, FS_Subset
<1>9. TableRows(p) = Cardinality(S)
  BY DEF TableRows
<1> HIDE DEF S, M, f
<1>10. Cardinality(M) = Cardinality(S)
  BY <1>7, <1>8, FS_Surjection
<1> QED BY <1>9, <1>10 DEF M

\* The paths of one hop over links of S, along the mapping or against it.
HopsOver(S, p, d, back) ==
  {m \in Paths(p, d) : /\ m.rels[1] \in S
                       /\ IF back THEN Connects(m.rels[1], m.nodes[2], m.nodes[1])
                          ELSE Connects(m.rels[1], m.nodes[1], m.nodes[2])}

\* A link that joins one pair is one such path.
LEMMA HopsCount ==
  ASSUME NEW p, WellFormed(p), links \in Databases, p.returns = "count", Countable(p),
         Hops(p) = 1, NEW S, S \subseteq links, NEW back \in BOOLEAN,
         NEW H, H = HopsOver(S, p, links, back)
  PROVE  IsFiniteSet(H) /\ Cardinality(H) = Cardinality(S)
<1> DEFINE f == [m \in H |-> m.rels[1]]
<1>1. Vertices(p) = 1..2 /\ Paths(p, links) = [nodes : [1..2 -> Records], rels : [1..1 -> links]]
  BY DEF Vertices, Paths
<1>2. \A l \in links : \E q \in Endpoints[l.type] : \E a, b \in Records : Joins(l, q, a, b)
  BY CountableJoins
<1>3. f \in [H -> S]
  BY DEF HopsOver
<1>4. ASSUME NEW l \in S PROVE \E m \in H : f[m] = l
  <2>1. PICK q \in Endpoints[l.type] : \E a, b \in Records : Joins(l, q, a, b)
    BY <1>2
  <2>2. PICK a \in Records, b \in Records : Joins(l, q, a, b)
    BY <2>1
  <2>3. Connects(l, a, b)
    BY <2>2 DEF Joins, Connects
  <2>4. PICK x \in Records : x = IF back THEN b ELSE a
    OBVIOUS
  <2>5. PICK y \in Records : y = IF back THEN a ELSE b
    OBVIOUS
  <2> DEFINE ns == [i \in 1..2 |-> IF i = 1 THEN x ELSE y]
             ls == [i \in 1..1 |-> l]
             m == [nodes |-> ns, rels |-> ls]
  <2>6. ns \in [1..2 -> Records] /\ ls \in [1..1 -> links] /\ ns[1] = x /\ ns[2] = y /\ ls[1] = l
    OBVIOUS
  <2>7. m.nodes = ns /\ m.rels = ls
    OBVIOUS
  <2>8. m \in Paths(p, links)
    BY <1>1, <2>6
  <2>9. IF back THEN Connects(l, y, x) ELSE Connects(l, x, y)
    BY <2>3, <2>4, <2>5
  <2>10. m \in H
    BY <2>6, <2>7, <2>8, <2>9 DEF HopsOver
  <2> QED BY <2>6, <2>7, <2>10
<1>5. ASSUME NEW m \in H, NEW n \in H, f[m] = f[n] PROVE m = n
  <2>1. PICK l \in links : l = m.rels[1] /\ l = n.rels[1]
    BY <1>3, <1>5
  <2>2. PICK q \in Endpoints[l.type] : \E a, b \in Records : Joins(l, q, a, b)
    BY <1>2
  <2>3. PICK a \in Records, b \in Records : Joins(l, q, a, b)
    BY <2>2
  <2>4. \A c, d \in Records : Connects(l, c, d) => c = a /\ d = b
    BY <2>3 DEF Joins, Connects
  <2>5. m \in Paths(p, links) /\ n \in Paths(p, links)
    BY DEF HopsOver
  <2>6. /\ m.nodes[1] \in Records /\ m.nodes[2] \in Records
        /\ n.nodes[1] \in Records /\ n.nodes[2] \in Records
    BY <1>1, <2>5
  <2>7. /\ IF back THEN Connects(l, m.nodes[2], m.nodes[1]) ELSE Connects(l, m.nodes[1], m.nodes[2])
        /\ IF back THEN Connects(l, n.nodes[2], n.nodes[1]) ELSE Connects(l, n.nodes[1], n.nodes[2])
    BY <2>1 DEF HopsOver
  <2>8. m.nodes[1] = n.nodes[1] /\ m.nodes[2] = n.nodes[2]
    BY <2>4, <2>6, <2>7
  <2>9. \A i \in 1..2 : m.nodes[i] = n.nodes[i]
    BY <2>8
  <2>10. ASSUME NEW i \in 1..1 PROVE m.rels[i] = n.rels[i]
    <3>1. i = 1
      OBVIOUS
    <3> QED BY <2>1, <3>1
  <2>11. /\ m \in [nodes : [1..2 -> Records], rels : [1..1 -> links]]
         /\ n \in [nodes : [1..2 -> Records], rels : [1..1 -> links]]
    BY <1>1, <2>5
  <2> QED BY <2>9, <2>10, <2>11, SameRow
<1> HIDE DEF f
<1>6. f \in Surjection(H, S) /\ f \in Injection(H, S)
  BY <1>3, <1>4, <1>5 DEF Surjection, Injection, IsInjective
<1>7. IsFiniteSet(S)
  BY QueriesAssumption, FS_Subset
<1> QED BY <1>6, <1>7, FS_Injection

\* rel_count counts what a hop with at most one type and no labels matches.
LEMMA HopCount ==
  ASSUME NEW p, WellFormed(p), links \in Databases, p.returns = "count", Countable(p),
         Bare(p), Hops(p) = 1
  PROVE  TableRows(p) = Cardinality(Matches(p, links))
<1> DEFINE S == {l \in links : l.type \in TypesOf(p, 1)}
           M == Matches(p, links)
<1>1. /\ Vertices(p) = 1..2 /\ 1..Hops(p) = {1} /\ p.ids = <<>>
      /\ \A i \in Vertices(p) : p.labels[i] = NoLabel
      /\ p.dirs[1] \in {"out", "in", "both"} /\ p.dirs[1] # "in"
  BY DEF Vertices, Bare, Countable, WellFormed, Hops
<1>2. \A m : m \in M <=> /\ m \in Paths(p, links) /\ m.rels[1].type \in TypesOf(p, 1)
                         /\ Follows(p.dirs[1], m.rels[1], m.nodes[1], m.nodes[2])
  BY <1>1 DEF Matches
<1>3. \A m \in Paths(p, links) : m.rels[1] \in links
  BY <1>1 DEF Paths
<1>4. PICK A : A = HopsOver(S, p, links, FALSE)
  OBVIOUS
<1>5. PICK B : B = HopsOver(S, p, links, TRUE)
  OBVIOUS
<1>6. S \subseteq links
  OBVIOUS
<1>7. /\ IsFiniteSet(A) /\ Cardinality(A) = Cardinality(S)
      /\ IsFiniteSet(B) /\ Cardinality(B) = Cardinality(S)
  <2> HIDE DEF S
  <2> QED BY <1>4, <1>5, <1>6, HopsCount
<1>8. CASE p.dirs[1] = "out"
  <2>1. M = A
    BY <1>2, <1>3, <1>4, <1>8 DEF HopsOver, Follows
  <2>2. TableRows(p) = 1 * Cardinality(S)
    BY <1>8 DEF TableRows
  <2>3. Cardinality(S) \in Nat
    BY <1>7, FS_CardinalityType
  <2> HIDE DEF S, M
  <2> QED BY <1>7, <2>1, <2>2, <2>3 DEF M
<1>9. CASE p.dirs[1] = "both"
  <2>1. M = A \cup B
    BY <1>2, <1>3, <1>4, <1>5, <1>9 DEF HopsOver, Follows
  <2>2. ASSUME NEW m \in A \cap B PROVE FALSE
    <3>1. PICK l \in links : l = m.rels[1]
      BY <1>3, <1>4 DEF HopsOver
    <3>2. Connects(l, m.nodes[1], m.nodes[2]) /\ Connects(l, m.nodes[2], m.nodes[1])
      BY <1>4, <1>5, <3>1 DEF HopsOver
    <3>3. m.nodes[1] \in Records /\ m.nodes[2] \in Records
      BY <1>1, <1>4 DEF HopsOver, Paths
    <3>4. PICK q \in Endpoints[l.type] : \E a, b \in Records :
            Joins(l, q, a, b) /\ ((\E k \in 1..Hops(p) : p.dirs[k] = "both") => a # b)
      BY CountableJoins
    <3>5. PICK a \in Records, b \in Records :
            Joins(l, q, a, b) /\ ((\E k \in 1..Hops(p) : p.dirs[k] = "both") => a # b)
      BY <3>4
    <3>6. \A c, d \in Records : Connects(l, c, d) => c = a /\ d = b
      BY <3>5 DEF Joins, Connects
    <3> QED BY <1>1, <1>9, <3>2, <3>3, <3>5, <3>6
  <2>3. A \cap B = {}
    BY <2>2
  <2>4. Cardinality(A \cap B) = 0
    BY <2>3, FS_EmptySet
  <2>5. Cardinality(A \cup B) = Cardinality(A) + Cardinality(B) - Cardinality(A \cap B)
    BY <1>7, FS_Union
  <2>6. TableRows(p) = 2 * Cardinality(S)
    BY <1>9 DEF TableRows
  <2>7. Cardinality(S) \in Nat
    BY <1>7, FS_CardinalityType
  <2> HIDE DEF S, M
  <2> QED BY <1>7, <2>1, <2>4, <2>5, <2>6, <2>7 DEF M
<1> QED BY <1>1, <1>8, <1>9

\* However a count is answered, it is the number of matches.
LEMMA CountIsExact ==
  ASSUME NEW p, WellFormed(p), Plain(p), links \in Databases, p.returns = "count",
         Countable(p)
  PROVE  /\ Bare(p) => TableRows(p) = Cardinality(Matches(p, links))
         /\ UnionRows(p) = Cardinality(Matches(p, links))
<1>1. Bare(p) => p.ids = <<>> /\ (Hops(p) = 0 \/ Hops(p) = 1)
  BY DEF Bare
<1> QED BY <1>1, UnionIsExact, VertexCount, HopCount

-----------------------------------------------------------------------------
(* Nothing is missed.                                                      *)

LEMMA AtOnceIsWhole ==
  ASSUME Inv, NEW p \in Plans, Sample(p) \/ Count(p)
  PROVE  NothingMissed'
<1>1. /\ stage' = "answered" /\ plan' = p /\ links' = links
      /\ WellFormed(p) /\ links \in Databases
  BY QueriesAssumption DEF Sample, Count, AnswerAtOnce, Inv, Asking
<1>2. SUFFICES ASSUME Uncut(p), Plain(p), Countable(p)
               PROVE  ShowsEverything'
  BY <1>1 DEF NothingMissed, Uncut, Countable
<1>3. CASE answer' = Answered("error", Nothing)
  <2>1. answer'.kind = "error"
    BY <1>3 DEF Answered
  <2> QED BY <2>1 DEF ShowsEverything, AnswerIs
<1>4. CASE Sample(p) /\ answer' # Answered("error", Nothing)
  <2>1. PICK o : o = [Nothing EXCEPT !.nodes = Spread(p)]
    OBVIOUS
  <2>2. IsSample(p) /\ answer' = Answered("graph", o)
    BY <1>4, <2>1 DEF Sample, AnswerAtOnce
  <2>3. answer'.kind = "graph" /\ answer'.nodes = o.nodes /\ answer'.rels = o.rels
    BY <2>2 DEF Answered
  <2>4. ToSet(o.nodes) = NodesFound(p, links) /\ ToSet(o.rels) = RelsFound(p, links)
    BY <1>1, <1>2, <2>1, <2>2, SampleIsGood
  <2> QED BY <1>1, <2>3, <2>4 DEF ShowsEverything, AnswerIs
<1>5. CASE Count(p) /\ answer' # Answered("error", Nothing)
  <2>1. /\ p.returns = "count"
        /\ answer' = IF Bare(p) THEN Counted(TableRows(p))
                     ELSE IF TooMany(p) THEN Answered("error", Nothing)
                     ELSE IF ConcretePlans(p) = {} THEN Answered("scalar", Nothing)
                     ELSE Counted(UnionRows(p))
    BY <1>5 DEF Count, AnswerAtOnce
  <2>2. /\ Bare(p) => TableRows(p) = Cardinality(Matches(p, links))
        /\ UnionRows(p) = Cardinality(Matches(p, links))
    BY <1>1, <1>2, <2>1, CountIsExact
  <2>3. CASE \/ answer' = Counted(TableRows(p)) /\ Bare(p)
            \/ answer' = Counted(UnionRows(p))
    <3>1. answer'.kind = "count" /\ answer'.total = Cardinality(Matches(p, links))
      BY <2>2, <2>3 DEF Counted
    <3> QED BY <1>1, <3>1 DEF ShowsEverything, AnswerIs
  <2>4. CASE answer' = Answered("scalar", Nothing) /\ ConcretePlans(p) = {}
    <3>1. answer'.kind = "scalar" /\ answer'.rows = <<>>
      BY <2>4 DEF Answered, Nothing
    <3>2. Matches(p, links) = {}
      BY <1>1, <1>2, <2>4, MatchesAreAllRows
    <3>3. FirstsFound(p, links) = {}
      BY <3>2 DEF FirstsFound
    <3>4. ToSet(answer'.rows) = {}
      BY <3>1, EmptyList
    <3> QED BY <1>1, <3>1, <3>3, <3>4 DEF ShowsEverything, AnswerIs
  <2> QED BY <1>5, <2>1, <2>3, <2>4
<1> QED BY <1>3, <1>4, <1>5

LEMMA ReplyIsWhole ==
  ASSUME Inv, WholeInv, Reply
  PROVE  NothingMissed'
<1>1. /\ stage = "branches" /\ branches = {} /\ stage' = "answered"
      /\ UNCHANGED <<links, plan, failures, errors>>
      /\ answer' = IF merged.rows = <<>> /\ errors THEN Answered("error", Nothing)
                   ELSE Answered(plan.returns, merged)
  BY DEF Reply, work
<1>2. /\ WellFormed(plan) /\ links \in Databases /\ plan.returns \in {"graph", "scalar"}
      /\ Good(plan, links, merged) /\ merged \in Outputs
  BY <1>1 DEF Inv, Asking, Finding, WellFormed
<1>3. SUFFICES ASSUME Uncut(plan), Plain(plan), failures = 0, ~errors
               PROVE  ShowsEverything'
  BY <1>1 DEF NothingMissed, Uncut
<1>4. answer' = Answered(plan.returns, merged)
  BY <1>1, <1>3
<1>5. /\ answer'.kind = plan.returns /\ answer'.nodes = merged.nodes
      /\ answer'.rels = merged.rels /\ answer'.rows = merged.rows
  BY <1>2, <1>4, OutputsAreGood
<1>6. \A b \in Branches(plan) : AllCovered(plan, links, merged, b)
  BY <1>1, <1>3 DEF WholeInv, WholeSoFar
<1>7. /\ plan.returns = "graph" => /\ ToSet(merged.rels) = RelsFound(plan, links)
                                   /\ ToSet(merged.nodes) = NodesFound(plan, links)
      /\ plan.returns = "scalar" => ToSet(merged.rows) = FirstsFound(plan, links)
  BY <1>2, <1>3, <1>6, CoveredIsWhole
<1> QED BY <1>1, <1>2, <1>5, <1>7 DEF ShowsEverything, AnswerIs

LEMMA StepKeepsWhole ==
  ASSUME Inv, WholeInv, [Next]_vars
  PROVE  WholeInv'
<1>1. CASE More \/ \E p \in Plans : Ask(p)
  <2>1. PICK p : Begin(p)
    BY <1>1 DEF More, Ask
  <2>2. stage' = "branches" /\ branches' = Branches(plan')
    BY <2>1 DEF Begin
  <2> QED BY <2>2 DEF WholeInv, WholeSoFar, NothingMissed
<1>2. ASSUME NEW p \in Plans, Sample(p) \/ Count(p) PROVE WholeInv'
  <2>1. stage' = "answered"
    BY <1>2 DEF Sample, Count, AnswerAtOnce
  <2> QED BY <1>2, <2>1, AtOnceIsWhole DEF WholeInv, WholeSoFar
<1>3. CASE Enter
  <2>1. NextBranch \in branches
    BY <1>3 DEF Enter, NextBranch
  <2>2. /\ stage = "branches" /\ stage' = "plans"
        /\ branches' = branches \ {NextBranch} /\ branch' = NextBranch
        /\ plans' = ConcretePlans(NextBranch) /\ out' = Nothing
        /\ UNCHANGED <<links, plan, merged, failures, errors>>
    BY <1>3 DEF Enter
  <2>3. NextBranch \in Branches(plan) /\ WellFormed(plan) /\ links \in Databases
    BY <2>1, <2>2 DEF Inv, Asking
  <2>4. Fits(links, NextBranch, ConcretePlans(NextBranch), Nothing)
    <3>1. RanRows(NextBranch, ConcretePlans(NextBranch), links) = {}
      BY DEF RanRows
    <3>2. Cardinality(RanRows(NextBranch, ConcretePlans(NextBranch), links)) = 0
      BY <3>1, FS_EmptySet
    <3>3. Nothing.rels = <<>> /\ Nothing.nodes = <<>> /\ Len(<<>>) = 0
      BY DEF Nothing
    <3>4. Hops(NextBranch) \in Nat
      BY <2>3, BranchIsPattern
    <3>5. Hops(NextBranch) * 0 = 0 /\ (Hops(NextBranch) + 1) * 0 = 0
      BY <3>4
    <3> QED BY <3>2, <3>3, <3>5 DEF Fits
  <2>5. stage' # "answered"
    BY <2>2
  <2>6. ASSUME Uncut(plan), failures = 0, ~errors, NEW b \in Branches(plan)
        PROVE  b \in branches' \/ b = NextBranch \/ AllCovered(plan, links, merged, b)
    BY <2>2, <2>6 DEF WholeInv, WholeSoFar
  <2> QED BY <2>2, <2>4, <2>5, <2>6 DEF WholeInv, WholeSoFar, NothingMissed, Uncut
<1>4. CASE Refuse
  <2>1. CASE plan.returns = "graph"
    <3>1. stage' = "answered" /\ answer'.kind = "error"
      BY <1>4, <2>1 DEF Refuse, Answered
    <3> QED BY <3>1 DEF WholeInv, WholeSoFar, NothingMissed, ShowsEverything, AnswerIs
  <2>2. CASE plan.returns # "graph"
    <3>1. stage' = "branches" /\ errors' = TRUE
      BY <1>4, <2>2 DEF Refuse
    <3> QED BY <3>1 DEF WholeInv, WholeSoFar, NothingMissed
  <2> QED BY <2>1, <2>2
<1>5. CASE Run
  <2>1. stage' = "plans"
    BY <1>5 DEF Run
  <2> QED BY <1>5, <2>1, RunKeepsWhole DEF WholeInv, NothingMissed
<1>6. CASE Fail
  <2>1. stage' = "branches" /\ failures' = failures + 1 /\ failures \in Nat
    BY <1>6 DEF Fail, Inv, Counting
  <2>2. failures' # 0
    BY <2>1
  <2> QED BY <2>1, <2>2 DEF WholeInv, WholeSoFar, NothingMissed
<1>7. CASE Leave
  <2>1. stage' = "branches"
    BY <1>7 DEF Leave
  <2> QED BY <1>7, <2>1, LeaveKeepsWhole DEF WholeInv, NothingMissed
<1>8. CASE Reply
  <2>1. stage' = "answered"
    BY <1>8 DEF Reply
  <2> QED BY <1>8, <2>1, ReplyIsWhole DEF WholeInv, WholeSoFar
<1>9. CASE UNCHANGED vars
  <2>1. UNCHANGED <<links, plan, stage, branches, branch, plans, out, merged, failures, errors, answer>>
    BY <1>9 DEF vars, work
  <2>2. (Uncut(plan))' <=> Uncut(plan)
    BY <2>1 DEF Uncut
  <2>3. (Countable(plan))' <=> Countable(plan)
    BY <2>1 DEF Countable
  <2>4. ShowsEverything' <=> ShowsEverything
    BY <2>1 DEF ShowsEverything, AnswerIs
  <2>5. WholeSoFar'
    BY <2>1, <2>2 DEF WholeInv, WholeSoFar
  <2>6. NothingMissed'
    BY <2>1, <2>2, <2>3, <2>4 DEF WholeInv, NothingMissed
  <2> QED BY <2>5, <2>6 DEF WholeInv
<1> QED BY <1>1, <1>2, <1>3, <1>4, <1>5, <1>6, <1>7, <1>8, <1>9 DEF Next

(***************************************************************************)
(* NothingMissed holds always: where LIMIT cuts no branch, no statement    *)
(* fails and no branch is refused, execute shows all that the pattern      *)
(* matches, in whatever order branches and statements run, and all ways    *)
(* of counting agree.                                                      *)
(***************************************************************************)
THEOREM AnswersAreWhole == Spec => []NothingMissed
<1>1. Init => WholeInv
  BY DEF Init, WholeInv, WholeSoFar, NothingMissed
<1>2. Inv /\ Inv' /\ WholeInv /\ [Next]_vars => WholeInv'
  BY StepKeepsWhole
<1>3. WholeInv => NothingMissed
  BY DEF WholeInv
<1> QED BY <1>1, <1>2, <1>3, InvHolds, PTL DEF Spec

-----------------------------------------------------------------------------
(* Pages of a query that is one statement.                                 *)

Sole(p, cp) == \E b \in Branches(p) : Branches(p) = {b} /\ ConcretePlans(b) = {cp}

LEMMA SoleHolds ==
  ASSUME NEW p, WellFormed(p), NEW cp, Sole(p, cp), NEW b \in Branches(p), NEW d
  PROVE  /\ Branches(p) = {b} /\ ConcretePlans(b) = {cp} /\ cp \in ConcretePlans(p)
         /\ Rows(b, cp, d) = Rows(p, cp, d)
         /\ Page(b, Rows(b, cp, d)) = Page(p, Rows(p, cp, d))
<1>1. Branches(p) = {b} /\ ConcretePlans(b) = {cp}
  BY DEF Sole
<1>2. cp \in ConcretePlans(p)
  BY <1>1, BranchPlans
<1>3. /\ Hops(b) = Hops(p) /\ Vertices(b) = Vertices(p) /\ b.ids = p.ids
      /\ b.skip = p.skip /\ b.limit = p.limit
  BY BranchIsPattern DEF Typed
<1>4. Rows(b, cp, d) = Rows(p, cp, d)
  BY <1>3 DEF Rows, Paths, KeySelected
<1>5. Page(b, Rows(b, cp, d)) = Page(p, Rows(p, cp, d))
  BY <1>3, <1>4 DEF Page, Cut
<1> QED BY <1>1, <1>2, <1>4, <1>5

\* The same pattern, further on.
LEMMA FurtherOn ==
  ASSUME NEW p, WellFormed(p), NEW n \in Nat, NEW q, q = [p EXCEPT !.skip = n]
  PROVE  /\ WellFormed(q) /\ Hops(q) = Hops(p) /\ q.returns = p.returns
         /\ q.limit = p.limit /\ q.skip = n
         /\ q.dirs = p.dirs /\ q.labels = p.labels /\ q.ids = p.ids /\ q.types = p.types
         /\ \A cp, d : Rows(q, cp, d) = Rows(p, cp, d)
         /\ \A d : RelsFound(q, d) = RelsFound(p, d)
         /\ Plain(q) <=> Plain(p)
         /\ \A cp : Sole(q, cp) => Sole(p, cp)
<1>1. p = [labels |-> p.labels, types |-> p.types, dirs |-> p.dirs, ids |-> p.ids,
           limit |-> p.limit, skip |-> p.skip, returns |-> p.returns]
  BY DEF WellFormed
<1>2. q = [labels |-> p.labels, types |-> p.types, dirs |-> p.dirs, ids |-> p.ids,
           limit |-> p.limit, skip |-> n, returns |-> p.returns]
  BY <1>1
<1>3. /\ q.returns = p.returns /\ q.limit = p.limit /\ q.skip = n
      /\ q.dirs = p.dirs /\ q.labels = p.labels /\ q.ids = p.ids /\ q.types = p.types
  BY <1>2
<1>4. Hops(q) = Hops(p) /\ Vertices(q) = Vertices(p) /\ \A i : TypesOf(q, i) = TypesOf(p, i)
  BY <1>3 DEF Hops, Vertices, TypesOf
<1>5. WellFormed(q)
  BY <1>2, <1>3, <1>4 DEF WellFormed
<1>6. \A cp, d : Rows(q, cp, d) = Rows(p, cp, d)
  BY <1>3, <1>4 DEF Rows, Paths, KeySelected
<1>7. \A d : RelsFound(q, d) = RelsFound(p, d)
  <2>1. \A d : Matches(q, d) = Matches(p, d)
    BY <1>3, <1>4 DEF Matches, Paths
  <2> QED BY <1>3, <1>4, <2>1 DEF RelsFound
<1>8. \A i : Fixed(q, i) = Fixed(p, i)
  <2>1. Narrows(p, q)
    BY <1>3, <1>4 DEF Narrows
  <2> QED BY <2>1, NarrowFixes
<1>9. Plain(q) <=> Plain(p)
  BY <1>3, <1>4, <1>8 DEF Plain
<1>10. ASSUME NEW cp, Sole(q, cp) PROVE Sole(p, cp)
  <2> DEFINE F == {g \in [1..Hops(p) -> {{t} : t \in UNION {TypesOf(p, i) : i \in 1..Hops(p)}}] :
                     \A i \in 1..Hops(p) : g[i] \subseteq TypesOf(p, i)}
             of(f) == [p EXCEPT !.types = f]
             on(f) == [q EXCEPT !.types = f]
  <2>1. Branches(p) = {of(f) : f \in F} /\ Branches(q) = {on(f) : f \in F}
    <3>1. {TypesOf(q, i) : i \in 1..Hops(p)} = {TypesOf(p, i) : i \in 1..Hops(p)}
      BY <1>4
    <3>2. F = {g \in [1..Hops(p) -> {{t} : t \in UNION {TypesOf(q, i) : i \in 1..Hops(p)}}] :
                 \A i \in 1..Hops(p) : g[i] \subseteq TypesOf(q, i)}
      BY <1>4, <3>1
    <3>3. Branches(p) = {of(f) : f \in F}
      BY DEF Branches
    <3>4. Branches(q) =
            {on(f) : f \in {g \in [1..Hops(p) -> {{t} : t \in UNION {TypesOf(q, i) : i \in 1..Hops(p)}}] :
                              \A i \in 1..Hops(p) : g[i] \subseteq TypesOf(q, i)}}
      BY <1>4 DEF Branches
    <3> HIDE DEF F, on
    <3> QED BY <3>2, <3>3, <3>4
  <2>2. ASSUME NEW f
        PROVE  /\ of(f).dirs = on(f).dirs /\ of(f).labels = on(f).labels
               /\ of(f).ids = on(f).ids /\ of(f).types = f /\ on(f).types = f
    BY <1>1, <1>2
  <2>3. \A f : ConcretePlans(of(f)) = ConcretePlans(on(f))
    <3> TAKE f
    <3>1. Narrows(of(f), on(f)) /\ Narrows(on(f), of(f))
      BY <2>2 DEF Narrows, TypesOf
    <3> QED BY <3>1, NarrowPlans
  <2> HIDE DEF F, of, on
  <2>4. PICK b \in Branches(q) : Branches(q) = {b} /\ ConcretePlans(b) = {cp}
    BY <1>10 DEF Sole
  <2>5. PICK f \in F : b = on(f)
    BY <2>1, <2>4
  <2>6. \A g \in F : g = f
    BY <2>1, <2>2, <2>4, <2>5
  <2>7. Branches(p) = {of(f)}
    BY <2>1, <2>6
  <2>8. ConcretePlans(of(f)) = {cp}
    BY <2>3, <2>4, <2>5
  <2> QED BY <2>7, <2>8 DEF Sole
<1> QED BY <1>3, <1>4, <1>5, <1>6, <1>7, <1>9, <1>10

\* What the pages before this one have shown.
Seen(p, cp, d) ==
  {InOrder(Rows(p, cp, d))[j] : j \in {i \in 1..Cardinality(Rows(p, cp, d)) : i <= p.skip}}

LEMMA PagesFollow ==
  ASSUME NEW p, WellFormed(p), links \in Databases, NEW cp \in ConcretePlans(p),
         NEW S, S = Rows(p, cp, links), NEW page, page = Page(p, S),
         NEW q, q = [p EXCEPT !.skip = p.skip + p.limit]
  PROVE  /\ p.skip = 0 => Seen(p, cp, links) = {}
         /\ Seen(q, cp, links) = Seen(p, cp, links) \cup ToSet(page)
         /\ Seen(p, cp, links) \cap ToSet(page) = {}
         /\ Seen(p, cp, links) \subseteq S /\ ToSet(page) \subseteq S
         /\ ToSet(page) = {} /\ p.limit > 0 => Seen(p, cp, links) = S
         /\ ToSet(page) # {} => p.limit > 0
         /\ Len(page) \in Nat /\ Len(page) <= p.limit
<1>1. PICK n : n = Cardinality(S)
  OBVIOUS
<1>2. PICK o : o = InOrder(S)
  OBVIOUS
<1>3. p.skip \in Nat /\ p.limit \in Nat
  BY DEF WellFormed
<1>4. /\ n \in Nat /\ page \in Seq(S) /\ ToSet(page) \subseteq S
      /\ \A k \in 1..Len(page) : p.skip + k \in 1..n /\ page[k] = o[p.skip + k]
      /\ Len(page) = IF n <= p.skip THEN 0 ELSE IF n <= p.skip + p.limit THEN n - p.skip ELSE p.limit
  BY <1>1, <1>2, PageHolds
<1>5. o \in Seq(S) /\ Len(o) = n /\ IsInjective(o) /\ ToSet(o) = S
  BY <1>1, <1>2, RowsInOrder
<1>6. /\ DOMAIN o = 1..n /\ \A i \in 1..n : o[i] \in S
      /\ \A x : x \in S <=> \E i \in 1..n : o[i] = x
  BY <1>5, InList
<1>7. Len(page) \in Nat /\ Len(page) <= p.limit
  BY <1>3, <1>4
<1>8. /\ \A x : x \in ToSet(page) <=> \E k \in 1..Len(page) : page[k] = x
      /\ ToSet(page) = {} <=> page = <<>>
  BY <1>4, InList
<1>9. Seen(p, cp, links) = {o[j] : j \in {i \in 1..n : i <= p.skip}}
  BY <1>1, <1>2 DEF Seen
<1>10. Seen(q, cp, links) = {o[j] : j \in {i \in 1..n : i <= p.skip + p.limit}}
  <2>1. p.skip + p.limit \in Nat
    BY <1>3
  <2>2. q.skip = p.skip + p.limit /\ Rows(q, cp, links) = S
    BY <2>1, FurtherOn
  <2> QED BY <1>1, <1>2, <2>2 DEF Seen
<1>11. ToSet(page) = {o[j] : j \in {i \in 1..n : p.skip < i /\ i <= p.skip + p.limit}}
  <2>1. ASSUME NEW k \in 1..Len(page)
        PROVE  page[k] \in {o[j] : j \in {i \in 1..n : p.skip < i /\ i <= p.skip + p.limit}}
    <3>1. p.skip + k \in 1..n /\ page[k] = o[p.skip + k]
      BY <1>4
    <3>2. p.skip < p.skip + k /\ p.skip + k <= p.skip + p.limit
      BY <1>3, <1>7
    <3> QED BY <3>1, <3>2
  <2>2. ASSUME NEW j \in 1..n, p.skip < j, j <= p.skip + p.limit PROVE o[j] \in ToSet(page)
    <3>1. PICK k : k = j - p.skip
      OBVIOUS
    <3>2. k \in 1..Len(page) /\ p.skip + k = j
      BY <1>3, <1>4, <2>2, <3>1
    <3>3. page[k] = o[j]
      BY <1>4, <3>2
    <3> QED BY <1>8, <3>2, <3>3
  <2> QED BY <1>8, <2>1, <2>2
<1>12. p.skip = 0 => Seen(p, cp, links) = {}
  BY <1>9
<1>13. Seen(q, cp, links) = Seen(p, cp, links) \cup ToSet(page)
  <2>1. \A i \in 1..n : i <= p.skip + p.limit <=> i <= p.skip \/ (p.skip < i /\ i <= p.skip + p.limit)
    BY <1>3, <1>4
  <2> QED BY <1>9, <1>10, <1>11, <2>1
<1>14. Seen(p, cp, links) \cap ToSet(page) = {}
  <2>1. \A i, j \in 1..n : i <= p.skip /\ p.skip < j => i # j
    BY <1>3
  <2>2. \A i, j \in 1..n : o[i] = o[j] => i = j
    BY <1>5, <1>6 DEF IsInjective
  <2> QED BY <1>9, <1>11, <2>1, <2>2
<1>15. Seen(p, cp, links) \subseteq S
  BY <1>6, <1>9
<1>16. ASSUME ToSet(page) = {}, p.limit > 0 PROVE Seen(p, cp, links) = S
  <2>1. Len(page) = 0
    BY <1>8, <1>16
  <2>2. n <= p.skip
    BY <1>3, <1>4, <1>16, <2>1
  <2>3. \A i \in 1..n : i <= p.skip
    BY <1>3, <1>4, <2>2
  <2> QED BY <1>6, <1>9, <2>3
<1>17. ToSet(page) # {} => p.limit > 0
  <2>1. ASSUME ToSet(page) # {} PROVE p.limit > 0
    <3>1. PICK k \in 1..Len(page) : TRUE
      BY <1>8, <2>1
    <3> QED BY <1>3, <1>7, <3>1
  <2> QED BY <2>1
<1> QED BY <1>4, <1>7, <1>12, <1>13, <1>14, <1>15, <1>16, <1>17

\* A link, with its ends, tells which row it is of.
LEMMA RelTellsRow ==
  ASSUME NEW p, WellFormed(p), Hops(p) = 1, NEW cp \in ConcretePlans(p),
         NEW m \in Rows(p, cp, links), NEW n \in Rows(p, cp, links),
         RelOf(cp, m, 1) = RelOf(cp, n, 1)
  PROVE  m = n
<1>1. /\ m \in [nodes : [1..2 -> Records], rels : [1..1 -> links]]
      /\ n \in [nodes : [1..2 -> Records], rels : [1..1 -> links]]
  BY DEF Rows, Paths, Vertices
<1>2. PICK back : back = cp.edges[1].swapped
  OBVIOUS
<1>3. /\ m.rels[1] = n.rels[1]
      /\ m.nodes[IF back THEN 2 ELSE 1] = n.nodes[IF back THEN 2 ELSE 1]
      /\ m.nodes[IF back THEN 1 ELSE 2] = n.nodes[IF back THEN 1 ELSE 2]
  BY <1>2 DEF RelOf, Oriented
<1>4. m.nodes[1] = n.nodes[1] /\ m.nodes[2] = n.nodes[2]
  BY <1>3
<1>5. ASSUME NEW i \in 1..2 PROVE m.nodes[i] = n.nodes[i]
  <2>1. i = 1 \/ i = 2
    OBVIOUS
  <2> QED BY <1>4, <2>1
<1>6. ASSUME NEW i \in 1..1 PROVE m.rels[i] = n.rels[i]
  <2>1. i = 1
    OBVIOUS
  <2> QED BY <1>3, <2>1
<1> QED BY <1>1, <1>5, <1>6, SameRow

\* The links of one page.
Told(p, cp, d) == RelsIn(cp, 1, ToSet(Page(p, Rows(p, cp, d))))

\* A graph of one hop that is one statement: what has run of it, and what
\* the pages before this one have shown.
OnPage(cp) ==
  /\ plan.skip > 0 => plan.limit > 0
  /\ shown = RelsIn(cp, 1, Seen(plan, cp, links))
  /\ ~repeated
  /\ stage = "branches" /\ branches # {} => merged.rels = <<>>
  /\ stage = "branches" /\ branches = {} =>
       /\ merged.rels = <<>> \/ ToSet(merged.rels) = Told(plan, cp, links)
       /\ failures = 0 => ToSet(merged.rels) = Told(plan, cp, links)
  /\ stage = "plans" => branches = {} /\ merged.rels = <<>>
  /\ stage = "plans" /\ plans # {} => out.rels = <<>>
  /\ stage = "plans" /\ plans = {} =>
       ToSet(out.rels) = Told(plan, cp, links) /\ Len(out.rels) <= plan.limit
  /\ stage = "answered" =>
       /\ answer.rels = <<>> \/ ToSet(answer.rels) = Told(plan, cp, links)
       /\ answer.kind = "graph" /\ failures = 0 => ToSet(answer.rels) = Told(plan, cp, links)

PagesSoFar ==
  /\ stage = "idle" => shown = {} /\ ~repeated
  /\ stage # "idle" /\ plan.returns = "graph" /\ Hops(plan) = 1 =>
       \A cp : Sole(plan, cp) => OnPage(cp)

FirstPagesFirst == \A p \in Plans : p.skip = 0

\* Two pages show what both show, and no link twice.
LEMMA PagesTell ==
  ASSUME NEW p, WellFormed(p), Hops(p) = 1, NEW cp \in ConcretePlans(p),
         NEW A, A \subseteq Rows(p, cp, links), NEW B, B \subseteq Rows(p, cp, links)
  PROVE  /\ RelsIn(cp, 1, A \cup B) = RelsIn(cp, 1, A) \cup RelsIn(cp, 1, B)
         /\ A \cap B = {} => RelsIn(cp, 1, A) \cap RelsIn(cp, 1, B) = {}
         /\ A = {} <=> RelsIn(cp, 1, A) = {}
<1>1. \A M : RelsIn(cp, 1, M) = {RelOf(cp, m, 1) : m \in M}
  BY DEF RelsIn
<1>2. RelsIn(cp, 1, A \cup B) = RelsIn(cp, 1, A) \cup RelsIn(cp, 1, B)
  BY <1>1
<1>3. A \cap B = {} => RelsIn(cp, 1, A) \cap RelsIn(cp, 1, B) = {}
  BY <1>1, RelTellsRow
<1>4. A = {} <=> RelsIn(cp, 1, A) = {}
  <2>1. ASSUME NEW m \in A PROVE RelsIn(cp, 1, A) # {}
    <3>1. RelOf(cp, m, 1) \in RelsIn(cp, 1, A)
      BY <1>1
    <3> QED BY <3>1
  <2>2. A = {} => RelsIn(cp, 1, A) = {}
    BY <1>1
  <2> QED BY <2>1, <2>2
<1> QED BY <1>2, <1>3, <1>4

LEMMA AskStartsPages ==
  ASSUME Inv, PagesSoFar, FirstPagesFirst, NEW p \in Plans, Ask(p)
  PROVE  PagesSoFar'
<1>1. /\ stage = "idle" /\ plan' = p /\ stage' = "branches" /\ branches' = Branches(p)
      /\ merged' = Nothing /\ UNCHANGED <<links, shown, repeated>>
  BY DEF Ask, Begin
<1>2. p.skip = 0 /\ WellFormed(p) /\ links \in Databases
  BY QueriesAssumption DEF FirstPagesFirst, Inv, Asking
<1>3. shown = {} /\ ~repeated
  BY <1>1 DEF PagesSoFar
<1>4. ASSUME NEW cp, Sole(p, cp) PROVE RelsIn(cp, 1, Seen(p, cp, links)) = {} /\ branches' # {}
  <2>1. PICK b \in Branches(p) : TRUE
    BY <1>4 DEF Sole
  <2>2. Seen(p, cp, links) = {}
    BY <1>2 DEF Seen
  <2> QED BY <1>1, <2>1, <2>2 DEF RelsIn
<1>5. merged'.rels = <<>>
  BY <1>1 DEF Nothing
<1> QED BY <1>1, <1>2, <1>3, <1>4, <1>5 DEF PagesSoFar, OnPage

LEMMA MoreTurnsPage ==
  ASSUME Inv, PagesSoFar, More
  PROVE  PagesSoFar'
<1>1. PICK q : q = [plan EXCEPT !.skip = plan.skip + plan.limit]
  OBVIOUS
<1>2. /\ stage = "answered" /\ answer.rels # <<>> /\ plan' = q /\ stage' = "branches"
      /\ branches' = Branches(q) /\ merged' = Nothing /\ links' = links
      /\ shown' = shown \cup ToSet(answer.rels)
      /\ repeated' = (repeated \/ shown \cap ToSet(answer.rels) # {})
  BY <1>1 DEF More, Begin
<1>3. WellFormed(plan) /\ links \in Databases /\ plan.skip \in Nat /\ plan.limit \in Nat
  BY <1>2 DEF Inv, Asking, WellFormed
<1>4. plan.skip + plan.limit \in Nat
  BY <1>3
<1>5. /\ Hops(q) = Hops(plan) /\ q.returns = plan.returns /\ q.limit = plan.limit
      /\ q.skip = plan.skip + plan.limit /\ \A cp : Sole(q, cp) => Sole(plan, cp)
  <2>1. PICK n \in Nat : n = plan.skip + plan.limit
    BY <1>4
  <2>2. q = [plan EXCEPT !.skip = n]
    BY <1>1, <2>1
  <2>3. PICK p : p = plan
    OBVIOUS
  <2>4. WellFormed(p) /\ q = [p EXCEPT !.skip = n]
    BY <1>3, <2>2, <2>3
  <2>5. Hops(q) = Hops(p) /\ q.returns = p.returns /\ q.limit = p.limit /\ q.skip = n
    BY <2>4, FurtherOn
  <2>6. \A cp : Sole(q, cp) => Sole(p, cp)
    BY <2>4, FurtherOn
  <2> QED BY <2>1, <2>3, <2>5, <2>6
<1>6. merged'.rels = <<>>
  BY <1>2 DEF Nothing
<1>7. SUFFICES ASSUME plan.returns = "graph", Hops(plan) = 1, NEW cp, Sole(q, cp)
               PROVE  /\ q.limit > 0 /\ branches' # {}
                      /\ shown' = RelsIn(cp, 1, Seen(q, cp, links))
                      /\ ~repeated'
  BY <1>2, <1>5, <1>6 DEF PagesSoFar, OnPage
<1>8. OnPage(cp) /\ Sole(plan, cp)
  BY <1>2, <1>5, <1>7 DEF PagesSoFar
<1>9. PICK S : S = Rows(plan, cp, links)
  OBVIOUS
<1>10. PICK page : page = Page(plan, S)
  OBVIOUS
<1>11. ToSet(answer.rels) = RelsIn(cp, 1, ToSet(page)) /\ shown = RelsIn(cp, 1, Seen(plan, cp, links)) /\ ~repeated
  BY <1>2, <1>8, <1>9, <1>10 DEF OnPage, Told
<1>12. cp \in ConcretePlans(plan)
  <2>1. PICK b \in Branches(plan) : TRUE
    BY <1>8 DEF Sole
  <2> QED BY <1>3, <1>8, <2>1, SoleHolds
<1>13. /\ Seen(q, cp, links) = Seen(plan, cp, links) \cup ToSet(page)
       /\ Seen(plan, cp, links) \cap ToSet(page) = {}
       /\ Seen(plan, cp, links) \subseteq S /\ ToSet(page) \subseteq S
       /\ ToSet(page) # {} => plan.limit > 0
  BY <1>1, <1>3, <1>9, <1>10, <1>12, PagesFollow
<1>14. /\ RelsIn(cp, 1, Seen(q, cp, links)) = shown \cup ToSet(answer.rels)
       /\ shown \cap ToSet(answer.rels) = {}
       /\ ToSet(page) = {} => ToSet(answer.rels) = {}
  BY <1>3, <1>7, <1>9, <1>11, <1>12, <1>13, PagesTell
<1>15. ToSet(answer.rels) # {}
  <2>1. answer.rels \in Seq(Rels)
    BY <1>2 DEF Inv, Answering, Contents, Outputs
  <2> QED BY <1>2, <2>1, InList
<1>16. branches' # {}
  BY <1>2, <1>7 DEF Sole
<1> QED BY <1>2, <1>5, <1>11, <1>13, <1>14, <1>15, <1>16

LEMMA RunFillsPage ==
  ASSUME Inv, PagesSoFar, Run
  PROVE  PagesSoFar'
<1>1. /\ stage = "plans" /\ out' = Extended(out, Returned(branch, NextPlan))
      /\ plans' = plans \ {NextPlan}
      /\ UNCHANGED <<links, plan, stage, branches, branch, merged, failures, shown, repeated>>
  BY DEF Run
<1>2. NextPlan \in plans
  BY DEF Run, NextPlan
<1>3. /\ WellFormed(plan) /\ links \in Databases /\ branch \in Branches(plan)
      /\ plans \subseteq ConcretePlans(branch) /\ out \in Outputs
  BY <1>1 DEF Inv, Asking, Finding
<1>4. SUFFICES ASSUME plan.returns = "graph", Hops(plan) = 1, NEW cp, Sole(plan, cp)
               PROVE  /\ plans' = {} /\ ToSet(out'.rels) = Told(plan, cp, links)
                      /\ Len(out'.rels) <= plan.limit
  BY <1>1 DEF PagesSoFar, OnPage
<1>5. OnPage(cp) /\ out.rels = <<>>
  BY <1>1, <1>2, <1>4 DEF PagesSoFar, OnPage
<1>6. /\ ConcretePlans(branch) = {cp} /\ cp \in ConcretePlans(plan)
      /\ Rows(branch, cp, links) = Rows(plan, cp, links)
      /\ Page(branch, Rows(branch, cp, links)) = Page(plan, Rows(plan, cp, links))
  BY <1>3, <1>4, SoleHolds
<1>7. NextPlan = cp /\ plans' = {}
  BY <1>1, <1>2, <1>3, <1>6
<1>8. PICK page : page = Page(plan, Rows(plan, cp, links))
  OBVIOUS
<1>9. PICK t : t = Returned(branch, cp)
  OBVIOUS
<1>10. branch.returns = "graph" /\ Hops(branch) = 1 /\ WellFormed(branch)
  BY <1>3, <1>4, BranchIsPattern
<1>11. t = Converted(branch, cp, page)
  BY <1>6, <1>8, <1>9, <1>10 DEF Returned
<1>12. page \in Seq(Rows(branch, cp, links)) /\ cp \in ConcretePlans(branch)
  BY <1>3, <1>6, <1>8, <1>10, PageHolds
<1>13. Len(page) \in Nat /\ Len(page) <= plan.limit
  <2>1. PICK q : q = [plan EXCEPT !.skip = plan.skip + plan.limit]
    OBVIOUS
  <2> QED BY <1>3, <1>6, <1>8, <2>1, PagesFollow
<1>14. /\ t \in Outputs /\ Len(t.rels) = 1 * Len(page)
       /\ ToSet(t.rels) = RelsIn(cp, 1, ToSet(page))
  BY <1>3, <1>10, <1>11, <1>12, ConvertedHolds
<1>15. out'.rels = out.rels \o t.rels /\ t.rels \in Seq(Rels)
  BY <1>1, <1>7, <1>9, <1>14 DEF Extended, Outputs
<1>16. out'.rels = t.rels
  BY <1>5, <1>15
<1> QED BY <1>7, <1>8, <1>13, <1>14, <1>16 DEF Told

LEMMA LeaveKeepsPage ==
  ASSUME Inv, PagesSoFar, Leave
  PROVE  PagesSoFar'
<1>1. /\ stage = "plans" /\ plans = {} /\ stage' = "branches"
      /\ merged' = Extended(merged, Trimmed(branch, out))
      /\ UNCHANGED <<links, plan, branches, branch, failures, shown, repeated>>
  BY DEF Leave
<1>2. /\ WellFormed(plan) /\ branch \in Branches(plan) /\ out \in Outputs
  BY <1>1 DEF Inv, Asking, Finding
<1>3. SUFFICES ASSUME plan.returns = "graph", Hops(plan) = 1, NEW cp, Sole(plan, cp)
               PROVE  branches = {} /\ ToSet(merged'.rels) = Told(plan, cp, links)
  BY <1>1 DEF PagesSoFar, OnPage
<1>4. /\ branches = {} /\ merged.rels = <<>> /\ Len(out.rels) <= plan.limit
      /\ ToSet(out.rels) = Told(plan, cp, links)
  BY <1>1, <1>3 DEF PagesSoFar, OnPage
<1>5. branch.limit = plan.limit /\ plan.limit \in Nat /\ out.rels \in Seq(Rels)
  BY <1>2, BranchIsPattern DEF WellFormed, Outputs
<1>6. Trimmed(branch, out).rels = out.rels
  <2>1. ~(Len(out.rels) > branch.limit)
    BY <1>4, <1>5, InList
  <2>2. out = [nodes |-> out.nodes, rels |-> out.rels, rows |-> out.rows]
    BY <1>2 DEF Outputs
  <2> QED BY <2>1, <2>2 DEF Trimmed
<1>7. merged'.rels = merged.rels \o out.rels
  BY <1>1, <1>6 DEF Extended
<1>8. merged'.rels = out.rels
  BY <1>4, <1>5, <1>7
<1> QED BY <1>4, <1>8

LEMMA StepTurnsPages ==
  ASSUME Inv, PagesSoFar, FirstPagesFirst, [Next]_vars
  PROVE  PagesSoFar'
<1>1. ASSUME NEW p \in Plans, Sample(p) \/ Count(p) PROVE PagesSoFar'
  <2>1. stage' = "answered" /\ plan' = p /\ WellFormed(p)
    BY <1>1, QueriesAssumption DEF Sample, Count, AnswerAtOnce
  <2>2. p.returns = "count" \/ Hops(p) = 0
    BY <1>1, <2>1, SampleIsAlone DEF Sample, Count
  <2> QED BY <2>1, <2>2 DEF PagesSoFar
<1>2. CASE Enter
  <2>1. NextBranch \in branches
    BY <1>2 DEF Enter, NextBranch
  <2>2. /\ stage = "branches" /\ stage' = "plans"
        /\ branches' = branches \ {NextBranch} /\ branches # {}
        /\ plans' = ConcretePlans(NextBranch) /\ out' = Nothing
        /\ UNCHANGED <<links, plan, merged, shown, repeated>>
    BY <1>2 DEF Enter
  <2>3. WellFormed(plan) /\ branches \subseteq Branches(plan)
    BY <2>2 DEF Inv, Asking
  <2>4. out'.rels = <<>>
    BY <2>2 DEF Nothing
  <2>5. ASSUME NEW cp, Sole(plan, cp) PROVE branches' = {} /\ plans' # {}
    <3>1. Branches(plan) = {NextBranch} /\ ConcretePlans(NextBranch) = {cp}
      BY <2>1, <2>3, <2>5, SoleHolds
    <3> QED BY <2>2, <2>3, <3>1
  <2> QED BY <2>2, <2>4, <2>5 DEF PagesSoFar, OnPage
<1>3. CASE Refuse
  <2>1. CASE plan.returns = "graph"
    <3>1. /\ stage = "branches" /\ stage' = "answered" /\ answer' = Answered("error", Nothing)
          /\ UNCHANGED <<links, plan, shown, repeated>>
      BY <1>3, <2>1 DEF Refuse
    <3>2. answer'.kind = "error" /\ answer'.rels = <<>>
      BY <3>1 DEF Answered, Nothing
    <3> QED BY <3>1, <3>2 DEF PagesSoFar, OnPage
  <2>2. CASE plan.returns # "graph"
    <3>1. stage' = "branches" /\ plan' = plan
      BY <1>3, <2>2 DEF Refuse
    <3> QED BY <2>2, <3>1 DEF PagesSoFar
  <2> QED BY <2>1, <2>2
<1>4. CASE Fail
  <2>1. /\ stage = "plans" /\ stage' = "branches" /\ failures' = failures + 1 /\ failures \in Nat
        /\ UNCHANGED <<links, plan, branches, merged, shown, repeated>>
    BY <1>4 DEF Fail, Inv, Counting
  <2>2. failures' # 0
    BY <2>1
  <2> QED BY <2>1, <2>2 DEF PagesSoFar, OnPage
<1>5. CASE Reply
  <2>1. /\ stage = "branches" /\ branches = {} /\ stage' = "answered"
        /\ UNCHANGED <<links, plan, failures, shown, repeated>>
        /\ answer' = Answered("error", Nothing) \/ answer' = Answered(plan.returns, merged)
    BY <1>5 DEF Reply, work
  <2>2. CASE answer' = Answered("error", Nothing)
    <3>1. answer'.kind = "error" /\ answer'.rels = <<>>
      BY <2>2 DEF Answered, Nothing
    <3> QED BY <2>1, <3>1 DEF PagesSoFar, OnPage
  <2>3. CASE answer' = Answered(plan.returns, merged)
    <3>1. answer'.rels = merged.rels
      BY <2>3 DEF Answered
    <3> QED BY <2>1, <3>1 DEF PagesSoFar, OnPage
  <2> QED BY <2>1, <2>2, <2>3
<1>6. CASE UNCHANGED vars
  <2>1. UNCHANGED <<links, plan, stage, branches, plans, out, merged, failures, answer, shown, repeated>>
    BY <1>6 DEF vars, work
  <2>2. ASSUME NEW cp, OnPage(cp) PROVE OnPage(cp)'
    BY <2>1, <2>2 DEF OnPage
  <2> QED BY <2>1, <2>2 DEF PagesSoFar
<1> QED BY <1>1, <1>2, <1>3, <1>4, <1>5, <1>6, AskStartsPages, MoreTurnsPage, RunFillsPage,
           LeaveKeepsPage DEF Next

LEMMA PagesDone ==
  ASSUME Inv, PagesSoFar
  PROVE  PagesCover
<1>1. SUFFICES ASSUME stage = "answered", answer.kind = "graph", answer.rels = <<>>, plan.skip > 0,
                      Hops(plan) = 1, OneStatement(plan), Plain(plan), failures = 0
               PROVE  shown = RelsFound(plan, links) /\ ~repeated
  BY DEF PagesCover, AnswerIs
<1>2. WellFormed(plan) /\ links \in Databases /\ plan.returns = "graph"
  BY <1>1 DEF Inv, Asking, Answering
<1>3. PICK b \in Branches(plan) : Branches(plan) = {b} /\ \E cp \in ConcretePlans(b) : ConcretePlans(b) = {cp}
  BY <1>1 DEF OneStatement
<1>4. PICK cp : ConcretePlans(b) = {cp}
  BY <1>3
<1>5. Sole(plan, cp)
  BY <1>3, <1>4 DEF Sole
<1>6. OnPage(cp)
  BY <1>1, <1>2, <1>5 DEF PagesSoFar
<1>7. cp \in ConcretePlans(plan) /\ Rows(b, cp, links) = Rows(plan, cp, links)
  BY <1>2, <1>5, SoleHolds
<1>8. PICK S : S = Rows(plan, cp, links)
  OBVIOUS
<1>9. PICK page : page = Page(plan, S)
  OBVIOUS
<1>16. PICK q : q = [plan EXCEPT !.skip = plan.skip + plan.limit]
  OBVIOUS
<1>10. RelsIn(cp, 1, ToSet(page)) = {}
  BY <1>1, <1>6, <1>8, <1>9, EmptyList DEF OnPage, Told
<1>11. plan.limit > 0 /\ shown = RelsIn(cp, 1, Seen(plan, cp, links)) /\ ~repeated
  BY <1>1, <1>6 DEF OnPage
<1>12. ToSet(page) = {}
  <2>1. ToSet(page) \subseteq S
    BY <1>2, <1>7, <1>8, <1>9, <1>16, PagesFollow
  <2> QED BY <1>1, <1>2, <1>7, <1>8, <1>10, <2>1, PagesTell
<1>13. Seen(plan, cp, links) = S
  BY <1>2, <1>7, <1>8, <1>9, <1>11, <1>12, <1>16, PagesFollow
<1>14. ASSUME NEW r \in RelsFound(plan, links) PROVE r \in RelsIn(cp, 1, S)
  <2>1. PICK c \in Branches(plan) : \E co \in ConcretePlans(c) : \E m \in Rows(c, co, links) :
          \E i \in 1..Hops(plan) : r = RelOf(co, m, i)
    BY <1>1, <1>2, FoundAreRows
  <2>2. c = b
    BY <1>3
  <2>3. PICK m \in S : \E i \in 1..1 : r = RelOf(cp, m, i)
    BY <1>1, <1>4, <1>7, <1>8, <2>1, <2>2
  <2> QED BY <2>3 DEF RelsIn
<1>15. ASSUME NEW r \in RelsIn(cp, 1, S) PROVE r \in RelsFound(plan, links)
  <2>1. PICK m \in S, i \in 1..1 : r = RelOf(cp, m, i)
    BY DEF RelsIn
  <2> QED BY <1>1, <1>2, <1>4, <1>7, <1>8, <2>1, RowsAreFound
<1> QED BY <1>11, <1>13, <1>14, <1>15

(***************************************************************************)
(* PagesCover holds always, if a caller begins with the first page: the    *)
(* pages of a query of one statement and one hop show every link, and each *)
(* once, because each page continues where the order of all keys had been  *)
(* cut (MssqlBackend.compile, order_by).                                   *)
(***************************************************************************)
THEOREM PagesShowAll ==
  ASSUME FirstPagesFirst
  PROVE  Spec => []PagesCover
<1>1. Init => PagesSoFar
  BY DEF Init, PagesSoFar
<1>2. Inv /\ PagesSoFar /\ [Next]_vars => PagesSoFar'
  BY StepTurnsPages
<1>3. Inv /\ PagesSoFar => PagesCover
  BY PagesDone
<1> QED BY <1>1, <1>2, <1>3, InvHolds, PTL DEF Spec
=============================================================================
