------------------------------- MODULE Drafts -------------------------------
(***************************************************************************)
(* ibase_bridge/studio.py and mapping.py: the draft the schema editor      *)
(* edits, what a person can do to it, and the mapping it becomes.          *)
(*                                                                         *)
(* A draft keeps every table discovery found, included or not.  A link     *)
(* joins two records by two key columns, 1 and 2; Joins says which table   *)
(* each refers to.  Labels and table names are the same kind of string,    *)
(* and draft_to_mapping_dict looks one up as if it were the other.         *)
(***************************************************************************)
EXTENDS Integers, Lists, Functions

CONSTANTS
  TableOrder,   \* the record tables, in the order discovery lists them
  LinkOrder,    \* the link tables, likewise
  Joins,        \* Joins[l][c]: the table that column c of l refers to
  Names,        \* labels and link types, table names among them
  Identifiers,  \* the names that are valid SQL identifiers
  NoEdge,       \* JavaScript's undefined, in the place of a link
  NoMapping     \* what is in a file that cannot be loaded

Tables == Range(TableOrder)
Links == Range(LinkOrder)

Ends == [label : Names, column : 1..2]
Edges == [type : Names, include : BOOLEAN, src : Ends, dst : Ends] \cup {NoEdge}
Drafts == [nodes : [Tables -> [label : Names, include : BOOLEAN]],
           edges : [Links -> Edges]]

\* A mapping file, as far as it names records and links.
Mappings == [nodes : Seq([label : Names, table : Tables]),
             edges : Seq([type : Names, table : Links, src : Ends, dst : Ends])]

ASSUME DraftAssumption ==
  /\ TableOrder \in Seq(Tables) /\ IsInjective(TableOrder)
  /\ LinkOrder \in Seq(Links) /\ IsInjective(LinkOrder)
  /\ Joins \in [Links -> [1..2 -> Tables]]
  /\ Identifiers \subseteq Names
  /\ Tables \cup Links \subseteq Identifiers
  /\ NoMapping \notin Mappings

\* draft_from_discovery: everything under the name of its table.
Discovered ==
  [nodes |-> [t \in Tables |-> [label |-> t, include |-> TRUE]],
   edges |-> [l \in Links |-> [type |-> l, include |-> TRUE,
                               src |-> [label |-> Joins[l][1], column |-> 1],
                               dst |-> [label |-> Joins[l][2], column |-> 2]]]]

-----------------------------------------------------------------------------
(* What the page lets a person do.                                         *)

\* A loop over the links that stops at an undefined one gets as far as l.
Reaches(d, l) ==
  \A i \in 1..(CHOOSE j \in DOMAIN LinkOrder : LinkOrder[j] = l) :
    d.edges[LinkOrder[i]] # NoEdge

Renamed(end, old, new) == IF end.label = old THEN [end EXCEPT !.label = new]
                          ELSE end

\* A new label goes to every end that has the old one.
RenameNode(d, t, new) ==
  LET old == d.nodes[t].label IN
  [nodes |-> [d.nodes EXCEPT ![t].label = new],
   edges |-> [l \in Links |->
     IF Reaches(d, l)
     THEN [d.edges[l] EXCEPT !.src = Renamed(@, old, new),
                             !.dst = Renamed(@, old, new)]
     ELSE d.edges[l]]]

IncludeNode(d, t) == [d EXCEPT !.nodes[t].include = ~@]
RenameEdge(d, l, new) == [d EXCEPT !.edges[l].type = new]
IncludeEdge(d, l) == [d EXCEPT !.edges[l].include = ~@]

\* Faulty: the columns stay where they were.
FlippedNames(e) == [e EXCEPT !.src.label = e.dst.label,
                             !.dst.label = e.src.label]

\* flip: label and column change sides together.
Flipped(e) == [e EXCEPT !.src = e.dst, !.dst = e.src]

-----------------------------------------------------------------------------
(* draft_to_mapping_dict and from_dict.                                    *)

Included(d) == {t \in Tables : d.nodes[t].include}
Labels(d) == {d.nodes[t].label : t \in Included(d)}

\* The name of an end is taken for a table first, and for a label otherwise.
Resolve(d, name) == IF name \in Included(d) THEN d.nodes[name].label ELSE name

\* Faulty: the link is written although one of its records is left out.
WrittenAnyway(d, l) == d.edges[l].include

\* A link is left out when one of its records is.
Written(d, l) ==
  /\ d.edges[l].include
  /\ Resolve(d, d.edges[l].src.label) \in Labels(d)
  /\ Resolve(d, d.edges[l].dst.label) \in Labels(d)

MappedEdge(d, l) ==
  [type |-> d.edges[l].type, table |-> l,
   src |-> [d.edges[l].src EXCEPT !.label = Resolve(d, @)],
   dst |-> [d.edges[l].dst EXCEPT !.label = Resolve(d, @)]]

ToMapping(d) ==
  LET ts == Kept(TableOrder, Included(d))
      ls == Kept(LinkOrder, {l \in Links : Written(d, l)})
  IN [nodes |-> [i \in DOMAIN ts |-> [label |-> d.nodes[ts[i]].label,
                                      table |-> ts[i]]],
      edges |-> [i \in DOMAIN ls |-> MappedEdge(d, ls[i])]]

\* A draft with a hole in it makes draft_to_mapping_dict raise.
HasMapping(d) == \A l \in Links : d.edges[l] # NoEdge

NodeLabels(m) == [i \in DOMAIN m.nodes |-> m.nodes[i].label]
EdgeTypes(m) == [i \in DOMAIN m.edges |-> m.edges[i].type]

\* backend.labels() + backend.rel_types(), the names a node id counts.
Order(m) == NodeLabels(m) \o EdgeTypes(m)

\* What mapping.from_dict accepts.
Loads(m) ==
  /\ m # NoMapping
  /\ m.nodes # <<>>
  /\ IsInjective(Order(m))
  /\ Range(Order(m)) \subseteq Identifiers
  /\ \A e \in Range(m.edges) : {e.src.label, e.dst.label} \subseteq Range(NodeLabels(m))

\* What a file holds when writing m to it stopped early: an error for YAML or
\* for from_dict, or a mapping that lacks what was to come.
Shorter(m) == {[nodes |-> SubSeq(m.nodes, 1, i), edges |-> <<>>] : i \in 1..Len(m.nodes)}
              \cup {[m EXCEPT !.edges = SubSeq(@, 1, j)] : j \in DOMAIN m.edges}
Cut(m) == {NoMapping} \cup (IF m = NoMapping THEN {}
                            ELSE {c \in Shorter(m) \ {m} : Loads(c)})
=============================================================================
