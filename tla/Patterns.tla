------------------------------ MODULE Patterns ------------------------------
(***************************************************************************)
(* How a Cypher pattern becomes statements: _expand_branches of            *)
(* query_processor.py, and concrete_plans and _from_join of                *)
(* mssql_backend.py, with the id lists of predicate.py.                    *)
(*                                                                         *)
(* A pattern is a chain of hops between vertices.  It may leave the labels *)
(* and the types open, offer several types, and point either way; the first*)
(* vertex may be restricted to selected records, as Expand does.  Nothing  *)
(* is open in a concrete plan, which is one SELECT over joined tables.     *)
(*                                                                         *)
(* A record is its label (its table) and its key.  A link is a row of the  *)
(* table of its type, with the keys of two records in its columns.         *)
(***************************************************************************)
EXTENDS Naturals, Sequences, FiniteSets

CONSTANTS
  Labels,       \* node_schemas of the mapping
  Types,        \* rel_schemas, each with a link table of its own
  Endpoints,    \* the endpoint pairs of each type
  Records,
  Arithmetic,   \* labels whose codec decodes the offset 0
  MaxBranches,  \* tuning.max_branches of the mapping
  NoLabel

Columns == {1, 2}
Pairs == [src : Labels, dst : Labels, src_col : Columns, dst_col : Columns]

ASSUME PatternsAssumption ==
  /\ Endpoints \in [Types -> SUBSET Pairs]
  /\ \A s \in Records : s.label \in Labels /\ s.key \in Nat
  /\ \A s, t \in Records : s.label = t.label /\ s.key = t.key => s = t
  /\ Arithmetic \subseteq Labels
  /\ MaxBranches \in Nat
  /\ NoLabel \notin Labels

Hops(p) == Len(p.dirs)
Vertices(p) == 1..(Hops(p) + 1)

\* What the translator builds: n hops between n + 1 vertices.
WellFormed(p) ==
  /\ p = [labels |-> p.labels, types |-> p.types, dirs |-> p.dirs, ids |-> p.ids,
          limit |-> p.limit, skip |-> p.skip, returns |-> p.returns]
  /\ p.dirs \in Seq({"out", "in", "both"})
  /\ DOMAIN p.types = 1..Hops(p)
  /\ DOMAIN p.labels = Vertices(p)
  /\ p.ids \in Seq(Records)
  /\ p.limit \in Nat /\ p.skip \in Nat
  /\ p.returns \in {"graph", "scalar", "count"}

(***************************************************************************)
(* _expand_branches: one pattern for every choice of one type for each hop.*)
(***************************************************************************)
TypesOf(p, i) == IF p.types[i] = {} THEN Types ELSE p.types[i]

Branches(p) ==
  {[p EXCEPT !.types = f] :
     f \in {g \in [1..Hops(p) -> {{t} : t \in UNION {TypesOf(p, i) : i \in 1..Hops(p)}}] :
              \A i \in 1..Hops(p) : g[i] \subseteq TypesOf(p, i)}}

(***************************************************************************)
(* _labels_from_ids: the label of the first selected record whose label    *)
(* can be told without its offset.                                         *)
(***************************************************************************)
Hint(p) ==
  LET told == {i \in DOMAIN p.ids : p.ids[i].label \in Arithmetic}
  IN  IF told = {} THEN NoLabel
      ELSE p.ids[CHOOSE i \in told : \A j \in told : i <= j].label

\* A label that the mapping knows is fixed; where none is, the ids may hint.
Fixed(p, i) == IF p.labels[i] \in Labels THEN p.labels[i]
               ELSE IF i = 1 THEN Hint(p) ELSE NoLabel

(***************************************************************************)
(* _edge_candidates: what a hop may mean, a pair of a type that is walked  *)
(* from its source (not swapped) or from its destination (swapped).        *)
(***************************************************************************)
Near(e) == IF e.swapped THEN e.pair.dst ELSE e.pair.src
Far(e) == IF e.swapped THEN e.pair.src ELSE e.pair.dst

Orientations == [out |-> {FALSE}, in |-> {TRUE}, both |-> {FALSE, TRUE}]

\* Faulty: a type joins the records of its most common pair only.
BoundEdgesOnePair ==
  UNION {[type : {t}, pair : {CHOOSE q \in Endpoints[t] : TRUE}, swapped : BOOLEAN] :
         t \in {u \in Types : Endpoints[u] # {}}}

BoundEdges == UNION {[type : {t}, pair : Endpoints[t], swapped : BOOLEAN] : t \in Types}

EdgeCandidates(p, i) ==
  {e \in BoundEdges :
     /\ e.type \in TypesOf(p, i)
     /\ e.swapped \in Orientations[p.dirs[i]]
     /\ Fixed(p, i) \in {NoLabel, Near(e)}
     /\ Fixed(p, i + 1) \in {NoLabel, Far(e)}}

(***************************************************************************)
(* concrete_plans: neighbouring hops agree on the vertex they share.  A    *)
(* vertex alone is any of its labels.                                      *)
(***************************************************************************)
Combinations(p) == {f \in [1..Hops(p) -> BoundEdges] :
                 \A i \in 1..Hops(p) : f[i] \in EdgeCandidates(p, i)}

ConcretePlans(p) ==
  {cp \in [labels : [Vertices(p) -> Labels], edges : Combinations(p)] :
     /\ \A i \in 1..Hops(p) : /\ cp.labels[i] = Near(cp.edges[i])
                              /\ cp.labels[i + 1] = Far(cp.edges[i])
     /\ \A i \in Vertices(p) : Fixed(p, i) \in {NoLabel, cp.labels[i]}}

\* BranchLimitExceeded
TooMany(p) ==
  /\ Hops(p) > 0
  /\ \/ Cardinality(Combinations(p)) > 64 * MaxBranches
     \/ Cardinality(ConcretePlans(p)) > MaxBranches

(***************************************************************************)
(* _from_join and _where: the rows of a concrete plan's SELECT.            *)
(***************************************************************************)
Paths(p, links) == [nodes : [Vertices(p) -> Records], rels : [1..Hops(p) -> links]]

NearCol(e) == IF e.swapped THEN e.pair.dst_col ELSE e.pair.src_col
FarCol(e) == IF e.swapped THEN e.pair.src_col ELSE e.pair.dst_col

\* Faulty: joins by the mapping's direction whichever way the hop is walked.
JoinedUnswapped(e, a, l, b) ==
  /\ l.type = e.type
  /\ l.col[e.pair.src_col] = a.key
  /\ l.col[e.pair.dst_col] = b.key

Joined(e, a, l, b) ==
  /\ l.type = e.type
  /\ l.col[NearCol(e)] = a.key
  /\ l.col[FarCol(e)] = b.key

\* No link occurs twice: hops over the same table differ in the link's key.
Unique(m) == \A i, j \in DOMAIN m.rels :
               i # j /\ m.rels[i].type = m.rels[j].type => m.rels[i] # m.rels[j]

\* IdIn: the decoded keys of all that is selected, against the key column.
KeySelected(p, s) == p.ids = <<>> \/ \E i \in DOMAIN p.ids : p.ids[i].key = s.key

Rows(p, cp, links) ==
  {m \in Paths(p, links) :
     /\ \A i \in Vertices(p) : m.nodes[i].label = cp.labels[i]
     /\ \A i \in 1..Hops(p) : Joined(cp.edges[i], m.nodes[i], m.rels[i], m.nodes[i + 1])
     /\ Unique(m)
     /\ KeySelected(p, m.nodes[1])}

-----------------------------------------------------------------------------
(* What the pattern means: the paths that Cypher finds in the graph that   *)
(* the mapping describes.                                                  *)

Reads(q, l, a, b) == /\ a.label = q.src /\ l.col[q.src_col] = a.key
                     /\ b.label = q.dst /\ l.col[q.dst_col] = b.key

Connects(l, a, b) == \E q \in Endpoints[l.type] : Reads(q, l, a, b)

Follows(dir, l, a, b) == \/ dir \in {"out", "both"} /\ Connects(l, a, b)
                         \/ dir \in {"in", "both"} /\ Connects(l, b, a)

Matches(p, links) ==
  {m \in Paths(p, links) :
     /\ \A i \in Vertices(p) : p.labels[i] \in {NoLabel, m.nodes[i].label}
     /\ \A i \in 1..Hops(p) : /\ m.rels[i].type \in TypesOf(p, i)
                              /\ Follows(p.dirs[i], m.rels[i], m.nodes[i], m.nodes[i + 1])
     /\ \A i, j \in 1..Hops(p) : i # j => m.rels[i] # m.rels[j]
     /\ p.ids = <<>> \/ \E i \in DOMAIN p.ids : m.nodes[1] = p.ids[i]}

\* Labels are the mapping's, and everything selected is of the label taken
\* for the first vertex; if none is taken, keys do not recur in other tables.
Plain(p) ==
  /\ \A i \in Vertices(p) : p.labels[i] \in Labels \cup {NoLabel}
  /\ \A i \in DOMAIN p.ids :
       \/ Fixed(p, 1) = p.ids[i].label
       \/ /\ Fixed(p, 1) = NoLabel
          /\ \A s \in Records : s.key = p.ids[i].key => s = p.ids[i]
=============================================================================
