----------------------------- MODULE Discovery -----------------------------
(***************************************************************************)
(* discovery.py and its callers, main and the /api/discover handler of     *)
(* studio.py: what a database is taken for when nothing is mapped yet; and *)
(* preview_edge of studio.py, which runs a proposed link both ways round.  *)
(*                                                                         *)
(* Discovery sorts the tables by their keys and foreign keys, then asks    *)
(* the _LinkEnd table of iBase, if it knows its columns, which tables are  *)
(* links and what their ends' ids begin with, and then each table whether  *)
(* it has ids that begin so.  Any of these questions may fail.             *)
(*                                                                         *)
(* A link is two ends: the columns of a row of a link table, or the ends   *)
(* of a link in _LinkEnd; each holds the id of a record.                   *)
(***************************************************************************)
EXTENDS Naturals, Sequences, FiniteSets

CONSTANTS
  Tables,
  Rank,         \* the place of each table in the catalog
  Skipped,      \* system tables, and those that are never proposed
  Ids,
  Prefix,       \* the first three characters of each id
  Databases,
  MaxFailures   \* how many questions may fail

Ends == {1, 2}
LinkEndKinds == {"absent", "unfamiliar", "known"}

ASSUME DiscoveryAssumption ==
  /\ IsFiniteSet(Tables)
  /\ Rank \in [Tables -> Nat]
  /\ \A t, u \in Tables : Rank[t] = Rank[u] => t = u
  /\ Skipped \subseteq Tables
  /\ MaxFailures \in Nat
  /\ \A d \in Databases :
       /\ d.keys \in [Tables -> Nat]               \* columns of the primary key
       /\ d.refs \in [Tables -> Seq(Tables)]       \* of each foreign key column, in order
       /\ d.link_end \in LinkEndKinds
       /\ d.ids \in [Tables -> SUBSET Ids]
       /\ d.links \in [Tables -> SUBSET [Ends -> Ids]]
       /\ d.named \in SUBSET Tables                \* by the rows of _LinkEnd
       /\ \A t \in Tables : d.links[t] # {} => d.ids[t] # {}

VARIABLES
  db,
  stage,
  nodes, edges, ambiguous, skipped,   \* the piles of classify
  linkTables,   \* what _LinkEnd names
  asked,        \* link tables whose ends have been asked for
  observed,     \* the pairs of prefixes found at their ends
  located,      \* prefixes that have been looked for
  labelOf,      \* the tables they were found in, as pairs
  draft,        \* the pairs of each link in the editor
  failures,
  verdict       \* of the last preview

piles == <<nodes, edges, ambiguous, skipped>>
evidence == <<linkTables, asked, observed, located, labelOf>>
vars == <<db, stage, piles, evidence, draft, failures, verdict>>

NoVerdict == [table |-> "none", pairs |-> {}, says |-> "none"]
Said(e, says) == [table |-> e.table, pairs |-> draft[e.table], says |-> says]

-----------------------------------------------------------------------------
(* classify.                                                               *)

Referenced(d, t) == \E u \in Tables : \E i \in DOMAIN d.refs[u] : d.refs[u][i] = t

Pile(d, t) ==
  IF t \in Skipped THEN "skipped"
  ELSE IF Len(d.refs[t]) = 2 /\ ~Referenced(d, t) THEN "edge"
  ELSE IF Len(d.refs[t]) >= 2 \/ d.keys[t] # 1 THEN "ambiguous"
  ELSE "node"

Piled(d, pile) == {t \in Tables : Pile(d, t) = pile}

\* from and to are the columns, or the numbers of the ends.
Pair(src, dst) == [src |-> src, dst |-> dst, from |-> 1, to |-> 2]
PairSet == [src : Tables, dst : Tables, from : Ends, to : Ends]

\* Faulty: one end that is a record will do.
FkEdgeEither(d, t) ==
  [table |-> t, resolution |-> "fk", pairs |-> {Pair(d.refs[t][1], d.refs[t][2])},
   resolvable |-> {d.refs[t][1], d.refs[t][2]} \cap Piled(d, "node") # {}]

\* A link by foreign keys.  Whether both ends are records is told now.
FkEdge(d, t) ==
  [table |-> t, resolution |-> "fk", pairs |-> {Pair(d.refs[t][1], d.refs[t][2])},
   resolvable |-> {d.refs[t][1], d.refs[t][2]} \subseteq Piled(d, "node")]

(***************************************************************************)
(* apply_link_end_evidence: what _LinkEnd names and classify took for a    *)
(* record is a link, between the tables that its ends' prefixes are of.    *)
(***************************************************************************)
\* Faulty: any source is paired with any destination.
EndpointsCrossed(t) ==
  {p \in PairSet : \E o, q \in observed[t] : /\ <<o[1], p.src>> \in labelOf
                                           /\ <<q[2], p.dst>> \in labelOf
                                           /\ p.from = 1 /\ p.to = 2}

\* A row with a prefix that was found nowhere is left out.
Endpoints(t) ==
  {p \in PairSet : \E o \in observed[t] : /\ <<o[1], p.src>> \in labelOf
                                        /\ <<o[2], p.dst>> \in labelOf
                                        /\ p.from = 1 /\ p.to = 2}

LinkEndEdge(t) == [table |-> t, resolution |-> "link_end", pairs |-> Endpoints(t),
                   resolvable |-> Endpoints(t) # {}]

\* flip: columns change sides with the names; the ends of _LinkEnd stay.
Flipped(e, p) == IF e.resolution = "fk"
                 THEN [src |-> p.dst, dst |-> p.src, from |-> p.to, to |-> p.from]
                 ELSE [p EXCEPT !.src = p.dst, !.dst = p.src]

Turned(e) == {Flipped(e, p) : p \in draft[e.table]}

-----------------------------------------------------------------------------
Init ==
  /\ db \in Databases
  /\ stage = "idle"
  /\ nodes = {} /\ edges = {} /\ ambiguous = {} /\ skipped = {}
  /\ linkTables = {} /\ asked = {}
  /\ observed = [t \in Tables |-> {}]
  /\ located = {}
  /\ labelOf = {}
  /\ draft = [t \in Tables |-> {}]
  /\ failures = 0
  /\ verdict = NoVerdict

Fails == failures < MaxFailures /\ failures' = failures + 1
Succeeds == UNCHANGED failures

\* read_catalog and classify.
Classify ==
  /\ stage = "idle"
  /\ stage' = "classified"
  /\ nodes' = Piled(db, "node")
  /\ edges' = {FkEdge(db, t) : t \in Piled(db, "edge")}
  /\ ambiguous' = Piled(db, "ambiguous")
  /\ skipped' = Piled(db, "skipped")
  /\ Succeeds
  /\ UNCHANGED <<db, evidence, draft, verdict>>

\* The catalog, or the columns of _LinkEnd, cannot be read.
GiveUp ==
  /\ stage \in {"idle", "classified"}
  /\ stage' = "error"
  /\ Fails
  /\ UNCHANGED <<db, piles, evidence, draft, verdict>>

\* probe_link_end and link_tables_from_link_end.
NameLinks ==
  /\ stage = "classified"
  /\ stage' = "asking"
  /\ \/ /\ linkTables' = IF db.link_end = "known" THEN db.named ELSE {}
        /\ Succeeds
     \/ db.link_end = "known" /\ linkTables' = {} /\ Fails
  /\ UNCHANGED <<db, piles, asked, observed, located, labelOf, draft, verdict>>

\* discover_endpoint_pairs; a link whose ends cannot be read has none.
AskEnds(t) ==
  /\ stage = "asking"
  /\ t \in linkTables \ asked
  /\ asked' = asked \cup {t}
  /\ \/ /\ observed' = [observed EXCEPT ![t] = {<<Prefix[l[1]], Prefix[l[2]]>> : l \in db.links[t]}]
        /\ Succeeds
     \/ UNCHANGED observed /\ Fails
  /\ UNCHANGED <<db, stage, piles, linkTables, located, labelOf, draft, verdict>>

PrefixesSeen == UNION {UNION {{o[1], o[2]} : o \in observed[t]} : t \in linkTables}

Begins(t, p) == \E i \in db.ids[t] : Prefix[i] = p

\* map_prefixes_to_labels: the first table with such ids, of those that can
\* be asked; links that were taken for records are among them.
Locate(p) ==
  /\ stage = "asking"
  /\ asked = linkTables
  /\ p \in PrefixesSeen \ located
  /\ located' = located \cup {p}
  /\ \E silent \in SUBSET nodes :
       LET found == {t \in nodes \ silent : Begins(t, p)}
           first == {t \in found : \A u \in found : Rank[t] <= Rank[u]}
       IN  /\ \A s \in silent : \A t \in first : Rank[s] < Rank[t]
           /\ failures + Cardinality(silent) <= MaxFailures
           /\ failures' = failures + Cardinality(silent)
           /\ labelOf' = labelOf \cup {<<p, t>> : t \in first}
  /\ UNCHANGED <<db, stage, piles, linkTables, asked, observed, draft, verdict>>

\* Faulty: the tables that _LinkEnd names stay in the records' pile.
ProposeBoth ==
  /\ stage = "asking"
  /\ asked = linkTables
  /\ located = PrefixesSeen
  /\ stage' = "drafted"
  /\ edges' = edges \cup {LinkEndEdge(t) : t \in nodes \cap linkTables}
  /\ draft' = [t \in Tables |-> UNION {e.pairs : e \in {f \in edges' : f.table = t}}]
  /\ UNCHANGED <<db, nodes, ambiguous, skipped, evidence, failures, verdict>>

\* apply_link_end_evidence and draft_from_discovery.
Propose ==
  /\ stage = "asking"
  /\ asked = linkTables
  /\ located = PrefixesSeen
  /\ stage' = "drafted"
  /\ nodes' = nodes \ linkTables
  /\ edges' = edges \cup {LinkEndEdge(t) : t \in nodes \cap linkTables}
  /\ draft' = [t \in Tables |-> UNION {e.pairs : e \in {f \in edges' : f.table = t}}]
  /\ UNCHANGED <<db, ambiguous, skipped, evidence, failures, verdict>>

Flip(e) ==
  /\ stage = "drafted"
  /\ e \in edges
  /\ draft' = [draft EXCEPT ![e.table] = Turned(e)]
  /\ UNCHANGED <<db, stage, piles, evidence, failures, verdict>>

-----------------------------------------------------------------------------
(* preview_edge.                                                           *)

\* The links that join records of a pair; every record type is included.
Joining(t, p) == {l \in db.links[t] : l[p.from] \in db.ids[p.src] /\ l[p.to] \in db.ids[p.dst]}

Joins(t, pairs) == \E p \in pairs : Joining(t, p) # {}

\* The mapping of this link alone: it has a key, and its ends are records.
Previewable(e) ==
  /\ db.keys[e.table] > 0
  /\ draft[e.table] # {}
  /\ \A p \in draft[e.table] : {p.src, p.dst} \subseteq nodes

\* Faulty: only the direction at hand is asked for.
SaysOneWay(here, other, rows) == IF here THEN "ok" ELSE IF rows THEN "broken" ELSE "empty"

Says(here, other, rows) ==
  IF here THEN IF other THEN "ambiguous" ELSE "ok"
  ELSE IF other THEN "backwards"
  ELSE IF rows THEN "broken" ELSE "empty"

\* What fails counts as nothing found: the table's rows, the other direction.
Preview(e) ==
  /\ stage = "drafted"
  /\ e \in edges
  /\ \/ /\ ~Previewable(e)
        /\ verdict' = Said(e, "error")
        /\ Succeeds
     \/ /\ Previewable(e)
        /\ verdict' = Said(e, "error")
        /\ Fails
     \/ /\ Previewable(e)
        /\ \E lost \in SUBSET {"other", "rows"} :
             /\ failures + Cardinality(lost) <= MaxFailures
             /\ failures' = failures + Cardinality(lost)
             /\ verdict' = Said(e, Says(Joins(e.table, draft[e.table]),
                                        "other" \notin lost /\ Joins(e.table, Turned(e)),
                                        "rows" \notin lost /\ db.ids[e.table] # {}))
  /\ UNCHANGED <<db, stage, piles, evidence, draft>>

Next == \/ Classify \/ GiveUp \/ NameLinks \/ Propose
        \/ \E t \in Tables : AskEnds(t)
        \/ \E p \in PrefixesSeen : Locate(p)
        \/ \E e \in edges : Flip(e) \/ Preview(e)

Spec == Init /\ [][Next]_vars

-----------------------------------------------------------------------------
(* Properties.                                                             *)

EdgeTables == {e.table : e \in edges}

(***************************************************************************)
(* The variables have their types, and once classified every table is on   *)
(* one pile: none is forgotten, and none is a record and a link at once.   *)
(***************************************************************************)
TypeOK ==
  /\ stage \in {"idle", "classified", "asking", "drafted", "error"}
  /\ edges \subseteq [table : Tables, resolution : {"fk", "link_end"},
                     pairs : SUBSET PairSet, resolvable : BOOLEAN]
  /\ asked \subseteq linkTables /\ linkTables \subseteq Tables
  /\ draft \in [Tables -> SUBSET PairSet]
  /\ failures \in 0..MaxFailures
  /\ stage \notin {"idle", "error"} =>
       /\ nodes \cup EdgeTables \cup ambiguous \cup skipped = Tables
       /\ nodes \cap EdgeTables = {}
       /\ (nodes \cup EdgeTables) \cap (ambiguous \cup skipped) = {}
       /\ ambiguous \cap skipped = {}

\* _LinkEnd names no table that others refer to, or that has ids like an end's.
Apart ==
  \A t \in db.named :
    /\ ~Referenced(db, t)
    /\ \A i \in db.ids[t] : \A u \in Tables : \A l \in db.links[u] :
         Prefix[i] \notin {Prefix[l[1]], Prefix[l[2]]}

(***************************************************************************)
(* The draft warns of the links whose ends are not both among its records, *)
(* and of no others, though the piles have changed since the links by      *)
(* foreign keys were judged (discovery.py:383).                            *)
(***************************************************************************)
WarningsAreRight ==
  stage = "drafted" /\ Apart =>
    \A e \in edges : e.resolvable <=> /\ e.pairs # {}
                                      /\ \A p \in e.pairs : {p.src, p.dst} \subseteq nodes

\* A link's two ends could be records of the tables of p.
Fits(l, p) == Begins(p.src, Prefix[l[1]]) /\ Begins(p.dst, Prefix[l[2]])

(***************************************************************************)
(* What _LinkEnd shows is what is proposed: every pair of tables fits a    *)
(* link there, and if no question failed, every link whose ends are like   *)
(* the ids of some records fits a pair.                                    *)
(***************************************************************************)
EndsAreTrue ==
  stage = "drafted" =>
    \A e \in {f \in edges : f.resolution = "link_end"} :
      /\ \A p \in e.pairs : \E l \in db.links[e.table] : Fits(l, p)
      /\ failures = 0 =>
           \A l \in db.links[e.table] :
             (\A i \in Ends : \E t \in Piled(db, "node") : Begins(t, Prefix[l[i]]))
               => \E p \in e.pairs : Fits(l, p)

(***************************************************************************)
(* What a preview says is so: only this direction joins, only the other,   *)
(* both, or neither although there are links; and a preview of which a     *)
(* question failed never says that the other direction joins when it does  *)
(* not (README.md:269).                                                    *)
(***************************************************************************)
VerdictIsTrue ==
  \A e \in {f \in edges : f.table = verdict.table} :
    LET here == Joins(e.table, verdict.pairs)
        other == Joins(e.table, {Flipped(e, p) : p \in verdict.pairs})
    IN  /\ verdict.says = "ambiguous" => here /\ other
        /\ verdict.says = "backwards" => ~here /\ other
        /\ failures = 0 => /\ verdict.says = "ok" => here /\ ~other
                           /\ verdict.says \in {"broken", "empty"} => ~here /\ ~other
                           /\ verdict.says = "empty" => db.ids[e.table] = {}
=============================================================================
