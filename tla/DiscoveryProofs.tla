-------------------------- MODULE DiscoveryProofs --------------------------
(***************************************************************************)
(* What holds of Discovery for any tables, ids and databases.  The piles   *)
(* are what the catalog makes of them until _LinkEnd moves some tables,    *)
(* and what was found at the ends of links and in tables is true, and      *)
(* complete when no question has failed.                                   *)
(***************************************************************************)
EXTENDS Discovery, FiniteSetTheorems, WellFoundedInduction, TLAPS

Records == Piled(db, "node")
FkEdges == {FkEdge(db, t) : t \in Piled(db, "edge")}
EdgeSet == [table : Tables, resolution : {"fk", "link_end"},
            pairs : SUBSET PairSet, resolvable : BOOLEAN]
SeenAt(l) == <<Prefix[l[1]], Prefix[l[2]]>>

TypeInv ==
  /\ db \in Databases
  /\ stage \in {"idle", "classified", "asking", "drafted", "error"}
  /\ edges \subseteq EdgeSet
  /\ asked \subseteq linkTables
  /\ linkTables \subseteq db.named
  /\ draft \in [Tables -> SUBSET PairSet]
  /\ failures \in 0..MaxFailures

\* Each table is on the pile that the catalog, or _LinkEnd, puts it on.
PilesInv ==
  /\ stage \in {"classified", "asking", "drafted"} =>
       ambiguous = Piled(db, "ambiguous") /\ skipped = Piled(db, "skipped")
  /\ stage \in {"classified", "asking"} => nodes = Records /\ edges = FkEdges
  /\ stage = "drafted" =>
       /\ nodes = Records \ linkTables
       /\ edges = FkEdges \cup {LinkEndEdge(t) : t \in Records \cap linkTables}

\* What was found is there.
FoundInv ==
  /\ observed = [t \in Tables |-> observed[t]]
  /\ \A t \in Tables : \A o \in observed[t] : \E l \in db.links[t] : o = SeenAt(l)
  /\ \A x \in labelOf : x[2] \in Records /\ Begins(x[2], x[1])

\* What is there was found, if no question failed.
CompleteInv ==
  /\ failures = 0 =>
       /\ \A t \in asked : \A l \in db.links[t] : SeenAt(l) \in observed[t]
       /\ \A p \in located : (\E t \in Records : Begins(t, p))
                               => \E u \in Tables : <<p, u>> \in labelOf
  /\ stage = "drafted" => asked = linkTables /\ located = PrefixesSeen

\* Nothing has been asked before the links are named.
EarlyInv == stage \in {"idle", "classified"} => asked = {} /\ located = {}

VerdictInv ==
  /\ stage # "drafted" => verdict = NoVerdict
  /\ VerdictIsTrue

Inv == TypeInv /\ PilesInv /\ FoundInv /\ CompleteInv /\ EarlyInv /\ VerdictInv

-----------------------------------------------------------------------------
(* The piles.                                                              *)

LEMMA PileIsOne ==
  ASSUME NEW d, NEW t \in Tables
  PROVE  /\ Pile(d, t) \in {"skipped", "edge", "ambiguous", "node"}
         /\ \A p : t \in Piled(d, p) <=> Pile(d, t) = p
  BY DEF Pile, Piled

LEMMA PiledAreTables == \A d, p : Piled(d, p) \subseteq Tables
  BY DEF Piled

\* A table on the pile of links has two foreign keys, and is not referred to.
LEMMA TwoEnds ==
  ASSUME NEW d \in Databases, NEW t \in Piled(d, "edge")
  PROVE  d.refs[t][1] \in Tables /\ d.refs[t][2] \in Tables
  <1>1. t \in Tables /\ Len(d.refs[t]) = 2
    BY DEF Piled, Pile
  <1>2. d.refs[t] \in Seq(Tables)
    BY <1>1, DiscoveryAssumption
  <1>3. 1 \in 1..Len(d.refs[t]) /\ 2 \in 1..Len(d.refs[t])
    BY <1>1
  <1> QED BY <1>2, <1>3

\* What a link refers to, others refer to.
LEMMA EndsAreReferenced ==
  ASSUME NEW d \in Databases, NEW t \in Piled(d, "edge"), NEW i \in {1, 2}
  PROVE  Referenced(d, d.refs[t][i])
  <1>1. t \in Tables /\ Len(d.refs[t]) = 2
    BY DEF Piled, Pile
  <1>2. d.refs[t] \in Seq(Tables)
    BY <1>1, DiscoveryAssumption
  <1>3. i \in DOMAIN d.refs[t]
    BY <1>1, <1>2
  <1> QED BY <1>1, <1>3 DEF Referenced

LEMMA FkEdgeType ==
  ASSUME NEW d \in Databases, NEW t \in Piled(d, "edge")
  PROVE  FkEdge(d, t) \in EdgeSet
  BY TwoEnds, PiledAreTables DEF FkEdge, EdgeSet, Pair, PairSet, Ends

LEMMA LinkEndEdgeType ==
  ASSUME NEW t \in Tables
  PROVE  LinkEndEdge(t) \in EdgeSet
  BY DEF LinkEndEdge, EdgeSet, Endpoints

LEMMA FlippedType ==
  ASSUME NEW e \in EdgeSet, draft \in [Tables -> SUBSET PairSet]
  PROVE  Turned(e) \subseteq PairSet
  <1>1. e.table \in Tables
    BY DEF EdgeSet
  <1>2. \A p \in draft[e.table] : p \in PairSet
    BY <1>1
  <1>3. \A p \in PairSet : Flipped(e, p) \in PairSet
    BY DEF Flipped, PairSet
  <1> QED BY <1>2, <1>3 DEF Turned

\* A set of tables that is not empty has a first one.
LEMMA FirstTable ==
  ASSUME NEW S \in SUBSET Tables, S # {}
  PROVE  \E t \in S : \A u \in S : Rank[t] <= Rank[u]
  <1> DEFINE ranks == {Rank[t] : t \in S}
  <1>1. ranks \subseteq Nat /\ ranks # {}
    BY DiscoveryAssumption
  <1>2. PICK n \in ranks : \A k \in ranks : ~(<<k, n>> \in OpToRel(<, Nat))
    BY <1>1, NatLessThanWellFounded, WFMin
  <1>3. \A k \in ranks : ~(k < n)
    BY <1>1, <1>2 DEF OpToRel
  <1>4. PICK t \in S : Rank[t] = n
    BY <1>2
  <1>5. \A u \in S : Rank[u] \in ranks /\ Rank[u] \in Nat
    BY <1>1
  <1> HIDE DEF ranks
  <1> QED BY <1>3, <1>4, <1>5

\* Of what is finite, only nothing has no elements.
LEMMA CountsNothing ==
  ASSUME NEW S, IsFiniteSet(S), NEW T \in SUBSET S
  PROVE  Cardinality(T) \in Nat /\ (Cardinality(T) = 0 => T = {})
  <1>1. IsFiniteSet(T)
    BY FS_Subset
  <1> QED BY <1>1, FS_CardinalityType, FS_EmptySet

LEMMA TwoAreFinite == IsFiniteSet({"other", "rows"})
  <1>1. IsFiniteSet({} \cup {"other"})
    BY FS_EmptySet, FS_AddElement
  <1>2. IsFiniteSet(({} \cup {"other"}) \cup {"rows"})
    BY <1>1, FS_AddElement
  <1>3. ({} \cup {"other"}) \cup {"rows"} = {"other", "rows"}
    OBVIOUS
  <1> QED BY <1>2, <1>3

-----------------------------------------------------------------------------
(* What steps do to the types, the piles and what was found.               *)

LEMMA InitInv == Init => Inv
  <1> SUFFICES ASSUME Init PROVE Inv
    OBVIOUS
  <1>1. TypeInv
    BY DiscoveryAssumption DEF Init, TypeInv
  <1>2. PilesInv /\ FoundInv /\ CompleteInv /\ EarlyInv
    BY DEF Init, PilesInv, FoundInv, CompleteInv, EarlyInv
  <1>3. VerdictInv
    BY DEF Init, VerdictInv, VerdictIsTrue
  <1> QED BY <1>1, <1>2, <1>3 DEF Inv

LEMMA TypeStep == Inv /\ [Next]_vars => TypeInv'
  <1> SUFFICES ASSUME Inv, [Next]_vars PROVE TypeInv'
    OBVIOUS
  <1> USE DEF Fails, Succeeds, evidence, piles
  <1>n. MaxFailures \in Nat
    BY DiscoveryAssumption
  <1>t. TypeInv
    BY DEF Inv
  <1>1. CASE Classify
    <2>1. edges' \subseteq EdgeSet
      BY <1>1, <1>t, FkEdgeType DEF Classify, TypeInv
    <2> QED BY <1>1, <1>t, <2>1 DEF Classify, TypeInv
  <1>2. CASE GiveUp
    BY <1>2, <1>n, <1>t DEF GiveUp, TypeInv
  <1>3. CASE NameLinks
    <2>1. asked = {}
      BY <1>3 DEF Inv, EarlyInv, NameLinks
    <2>2. linkTables' \subseteq db'.named
      BY <1>3, <1>t DEF NameLinks, TypeInv
    <2> QED BY <1>3, <1>n, <1>t, <2>1, <2>2 DEF NameLinks, TypeInv
  <1>4. ASSUME NEW t \in Tables, AskEnds(t) PROVE TypeInv'
    BY <1>4, <1>n, <1>t DEF AskEnds, TypeInv
  <1>5. ASSUME NEW p, Locate(p) PROVE TypeInv'
    <2>1. failures' \in 0..MaxFailures
      <3>1. PICK silent \in SUBSET nodes : /\ failures + Cardinality(silent) <= MaxFailures
                                          /\ failures' = failures + Cardinality(silent)
        BY <1>5 DEF Locate
      <3>2. silent \in SUBSET Tables
        BY <1>5, PiledAreTables DEF Inv, PilesInv, Locate, Records
      <3>3. Cardinality(silent) \in Nat
        BY <3>2, CountsNothing, DiscoveryAssumption
      <3> QED BY <1>n, <1>t, <3>1, <3>3 DEF TypeInv
    <2> QED BY <1>5, <1>t, <2>1 DEF Locate, TypeInv
  <1>6. CASE Propose
    <2>1. edges' \subseteq EdgeSet
      <3>1. nodes \subseteq Tables
        BY <1>6, PiledAreTables DEF Inv, PilesInv, Propose, Records
      <3> QED BY <1>6, <1>t, <3>1, LinkEndEdgeType DEF Propose, TypeInv
    <2>2. draft' \in [Tables -> SUBSET PairSet]
      <3>1. \A e \in edges' : e.pairs \subseteq PairSet
        BY <2>1 DEF EdgeSet
      <3> QED BY <1>6, <3>1 DEF Propose
    <2> QED BY <1>6, <1>t, <2>1, <2>2 DEF Propose, TypeInv
  <1>7. ASSUME NEW e \in edges, Flip(e) PROVE TypeInv'
    <2>1. Turned(e) \subseteq PairSet
      BY <1>t, FlippedType DEF TypeInv
    <2> QED BY <1>7, <1>t, <2>1 DEF Flip, TypeInv
  <1>8. ASSUME NEW e \in edges, Preview(e) PROVE TypeInv'
    <2>1. failures' \in 0..MaxFailures
      <3>1. \A lost \in SUBSET {"other", "rows"} : Cardinality(lost) \in Nat
        BY TwoAreFinite, CountsNothing
      <3> QED BY <1>8, <1>n, <1>t, <3>1 DEF Preview, TypeInv
    <2> QED BY <1>8, <1>t, <2>1 DEF Preview, TypeInv
  <1>9. CASE UNCHANGED vars
    BY <1>9, <1>t DEF vars, TypeInv
  <1> QED BY <1>1, <1>2, <1>3, <1>4, <1>5, <1>6, <1>7, <1>8, <1>9 DEF Next

LEMMA PilesStep == Inv /\ [Next]_vars => PilesInv'
  <1> SUFFICES ASSUME Inv, [Next]_vars PROVE PilesInv'
    OBVIOUS
  <1> USE DEF evidence, piles, FkEdges, Records
  <1>p. PilesInv
    BY DEF Inv
  <1>1. CASE Classify
    BY <1>1 DEF Classify, PilesInv
  <1>2. CASE GiveUp
    BY <1>2 DEF GiveUp, PilesInv
  <1>3. CASE NameLinks
    BY <1>3, <1>p DEF NameLinks, PilesInv
  <1>4. ASSUME NEW t \in Tables, AskEnds(t) PROVE PilesInv'
    BY <1>4, <1>p DEF AskEnds, PilesInv
  <1>5. ASSUME NEW p, Locate(p) PROVE PilesInv'
    BY <1>5, <1>p DEF Locate, PilesInv
  <1>6. CASE Propose
    <2>1. \A t : LinkEndEdge(t)' = LinkEndEdge(t)
      BY <1>6 DEF Propose, LinkEndEdge, Endpoints
    <2> QED BY <1>6, <1>p, <2>1 DEF Propose, PilesInv
  <1>7. stage = "drafted" /\ UNCHANGED <<db, stage, piles, evidence>> => PilesInv'
    <2> SUFFICES ASSUME stage = "drafted", UNCHANGED <<db, stage, piles, evidence>>
                 PROVE  PilesInv'
      OBVIOUS
    <2>1. \A t : LinkEndEdge(t)' = LinkEndEdge(t)
      BY DEF LinkEndEdge, Endpoints
    <2> QED BY <1>p, <2>1 DEF PilesInv
  <1>8. ASSUME NEW e \in edges, Flip(e) \/ Preview(e) PROVE PilesInv'
    BY <1>7, <1>8 DEF Flip, Preview
  <1>9. CASE UNCHANGED vars
    <2>1. \A t : LinkEndEdge(t)' = LinkEndEdge(t)
      BY <1>9 DEF LinkEndEdge, Endpoints, vars
    <2> QED BY <1>9, <1>p, <2>1 DEF vars, PilesInv
  <1> QED BY <1>1, <1>2, <1>3, <1>4, <1>5, <1>6, <1>8, <1>9 DEF Next

LEMMA FoundStep == Inv /\ [Next]_vars => FoundInv'
  <1> SUFFICES ASSUME Inv, [Next]_vars PROVE FoundInv'
    OBVIOUS
  <1> USE DEF evidence, Records
  <1>f. FoundInv
    BY DEF Inv
  <1>1. ASSUME NEW t \in Tables, AskEnds(t) PROVE FoundInv'
    <2>1. \A x \in labelOf' : x[2] \in Records' /\ Begins(x[2], x[1])'
      BY <1>1, <1>f DEF AskEnds, FoundInv, Begins
    <2> QED BY <1>1, <1>f, <2>1 DEF AskEnds, FoundInv, SeenAt
  <1>2. ASSUME NEW p, Locate(p) PROVE FoundInv'
    <2>1. nodes = Records
      BY <1>2 DEF Inv, PilesInv, Locate
    <2>2. \A x \in labelOf' \ labelOf : x[2] \in Records /\ Begins(x[2], x[1])
      BY <1>2, <2>1 DEF Locate
    <2> QED BY <1>2, <1>f, <2>2 DEF Locate, FoundInv, SeenAt, Begins
  <1>3. UNCHANGED <<db, observed, labelOf>> => FoundInv'
    BY <1>f DEF FoundInv, SeenAt, Begins
  <1>4. Classify \/ GiveUp \/ NameLinks \/ Propose => UNCHANGED <<db, observed, labelOf>>
    BY DEF Classify, GiveUp, NameLinks, Propose
  <1>5. ASSUME NEW e \in edges, Flip(e) \/ Preview(e) PROVE UNCHANGED <<db, observed, labelOf>>
    BY <1>5 DEF Flip, Preview
  <1>6. UNCHANGED vars => UNCHANGED <<db, observed, labelOf>>
    BY DEF vars
  <1> QED BY <1>1, <1>2, <1>3, <1>4, <1>5, <1>6 DEF Next

\* A question that succeeds asks the first table that begins so, if any does.
LEMMA LocateFinds ==
  ASSUME Inv, NEW p, Locate(p), failures' = 0, \E t \in Records : Begins(t, p)
  PROVE  \E u \in Tables : <<p, u>> \in labelOf'
  <1>1. nodes = Records /\ nodes \subseteq Tables /\ failures \in Nat
    BY PiledAreTables DEF Inv, PilesInv, TypeInv, Locate, Records
  <1> DEFINE found(silent) == {t \in nodes \ silent : Begins(t, p)}
             first(silent) == {t \in found(silent) : \A u \in found(silent) : Rank[t] <= Rank[u]}
  <1>2. PICK silent \in SUBSET nodes : /\ failures' = failures + Cardinality(silent)
                                      /\ labelOf' = labelOf \cup {<<p, t>> : t \in first(silent)}
    BY Zenon DEF Locate
  <1>3. Cardinality(silent) \in Nat /\ (Cardinality(silent) = 0 => silent = {})
    BY <1>1, CountsNothing, DiscoveryAssumption
  <1>4. silent = {}
    BY <1>1, <1>2, <1>3
  <1>5. found(silent) \in SUBSET Tables /\ found(silent) # {}
    BY <1>1, <1>4
  <1>6. PICK t \in found(silent) : \A u \in found(silent) : Rank[t] <= Rank[u]
    BY <1>5, FirstTable
  <1>7. t \in first(silent) /\ t \in Tables
    BY <1>5, <1>6
  <1> QED BY <1>2, <1>7

LEMMA CompleteStep == Inv /\ [Next]_vars => CompleteInv' /\ EarlyInv'
  <1> SUFFICES ASSUME Inv, [Next]_vars PROVE CompleteInv' /\ EarlyInv'
    OBVIOUS
  <1> USE DEF Fails, Succeeds, evidence, piles, Records
  <1>c. CompleteInv /\ EarlyInv /\ failures \in Nat
    BY DEF Inv, TypeInv
  <1>1. ASSUME NEW t \in Tables, AskEnds(t) PROVE CompleteInv' /\ EarlyInv'
    <2>1. DOMAIN observed = Tables
      BY DEF Inv, FoundInv
    <2>2. failures' = 0 => \A u \in asked' : \A l \in db'.links[u] : SeenAt(l) \in observed'[u]
      <3> SUFFICES ASSUME failures' = 0, NEW u \in asked', NEW l \in db'.links[u]
                   PROVE  SeenAt(l) \in observed'[u]
        BY DEF SeenAt
      <3>1. failures = 0 /\ observed' = [observed EXCEPT ![t] = {SeenAt(k) : k \in db.links[t]}]
        BY <1>1, <1>c DEF AskEnds, SeenAt
      <3>2. CASE u = t
        BY <1>1, <2>1, <3>1, <3>2 DEF AskEnds
      <3>3. CASE u # t
        BY <1>1, <1>c, <2>1, <3>1, <3>3 DEF AskEnds, CompleteInv
      <3> QED BY <3>2, <3>3
    <2>3. failures' = 0 => failures = 0
      BY <1>1, <1>c DEF AskEnds
    <2> QED BY <1>1, <1>c, <2>2, <2>3 DEF AskEnds, CompleteInv, EarlyInv, SeenAt, Begins
  <1>2. ASSUME NEW p, Locate(p) PROVE CompleteInv' /\ EarlyInv'
    <2>1. failures' = 0 => failures = 0
      <3>1. PICK silent \in SUBSET nodes : failures' = failures + Cardinality(silent)
        BY <1>2 DEF Locate
      <3>2. silent \in SUBSET Tables
        BY <1>2, PiledAreTables DEF Inv, PilesInv, Locate
      <3>3. Cardinality(silent) \in Nat
        BY <3>2, CountsNothing, DiscoveryAssumption
      <3> QED BY <1>c, <3>1, <3>3
    <2>2. failures' = 0 => \A q \in located' : (\E t \in Records : Begins(t, q))
                                                => \E u \in Tables : <<q, u>> \in labelOf'
      <3> SUFFICES ASSUME failures' = 0, NEW q \in located', \E t \in Records : Begins(t, q)
                   PROVE  \E u \in Tables : <<q, u>> \in labelOf'
        OBVIOUS
      <3>1. CASE q = p
        BY <1>2, <3>1, LocateFinds
      <3>2. CASE q # p
        BY <1>2, <1>c, <2>1, <3>2 DEF Locate, CompleteInv
      <3> QED BY <3>1, <3>2
    <2> QED BY <1>2, <1>c, <2>1, <2>2 DEF Locate, CompleteInv, EarlyInv, SeenAt, Begins
  <1>3. CASE NameLinks
    BY <1>3, <1>c DEF NameLinks, CompleteInv, EarlyInv
  <1>4. CASE Propose
    BY <1>4, <1>c DEF Propose, CompleteInv, EarlyInv, SeenAt, Begins, PrefixesSeen
  <1>5. Classify \/ GiveUp => CompleteInv' /\ EarlyInv'
    BY <1>c DEF Classify, GiveUp, CompleteInv, EarlyInv, SeenAt, Begins
  <1>6. ASSUME NEW e \in edges, Flip(e) \/ Preview(e) PROVE CompleteInv' /\ EarlyInv'
    <2>1. failures' = 0 => failures = 0
      <3>1. \A lost \in SUBSET {"other", "rows"} : Cardinality(lost) \in Nat
        BY TwoAreFinite, CountsNothing
      <3> QED BY <1>6, <1>c, <3>1 DEF Flip, Preview
    <2>2. stage = "drafted" /\ UNCHANGED <<db, stage, evidence>>
      BY <1>6 DEF Flip, Preview
    <2> QED BY <1>c, <2>1, <2>2 DEF CompleteInv, EarlyInv, SeenAt, Begins, PrefixesSeen
  <1>7. CASE UNCHANGED vars
    BY <1>7, <1>c DEF vars, CompleteInv, EarlyInv, SeenAt, Begins, PrefixesSeen
  <1> QED BY <1>1, <1>2, <1>3, <1>4, <1>5, <1>6, <1>7 DEF Next

-----------------------------------------------------------------------------
(* The verdict is of one link: no table is a link twice.                   *)

LEMMA OneEdgePerTable ==
  ASSUME Inv, stage = "drafted", NEW e \in edges, NEW f \in edges, e.table = f.table
  PROVE  e = f
  <1>1. edges = FkEdges \cup {LinkEndEdge(t) : t \in Records \cap linkTables}
    BY DEF Inv, PilesInv
  <1>2. \A g \in edges : \/ g.table \in Piled(db, "edge") /\ g = FkEdge(db, g.table)
                         \/ g.table \in Records /\ g = LinkEndEdge(g.table)
    BY <1>1 DEF FkEdges, FkEdge, LinkEndEdge
  <1>3. Piled(db, "edge") \cap Records = {}
    BY DEF Records, Piled
  <1> QED BY <1>2, <1>3

\* What VerdictIsTrue says of the link that was previewed.
TrueOf(e) ==
  LET here == Joins(e.table, verdict.pairs)
      other == Joins(e.table, {Flipped(e, p) : p \in verdict.pairs})
  IN  /\ verdict.says = "ambiguous" => here /\ other
      /\ verdict.says = "backwards" => ~here /\ other
      /\ failures = 0 => /\ verdict.says = "ok" => here /\ ~other
                         /\ verdict.says \in {"broken", "empty"} => ~here /\ ~other
                         /\ verdict.says = "empty" => db.ids[e.table] = {}

LEMMA PreviewIsTrue ==
  ASSUME Inv, NEW e \in edges, Preview(e)
  PROVE  VerdictIsTrue'
  <1> SUFFICES ASSUME NEW f \in edges', f.table = verdict'.table
               PROVE  TrueOf(f)'
    BY DEF VerdictIsTrue, TrueOf
  <1>1. UNCHANGED <<db, edges>> /\ stage = "drafted"
    BY DEF Preview, piles
  <1>2. CASE verdict' = Said(e, "error")
    BY <1>2 DEF Said, TrueOf
  <1>3. CASE verdict' # Said(e, "error")
    <2> DEFINE here == Joins(e.table, draft[e.table])
               other == Joins(e.table, Turned(e))
               rows == db.ids[e.table] # {}
    <2>1. PICK lost \in SUBSET {"other", "rows"} :
            /\ failures' = failures + Cardinality(lost)
            /\ verdict' = Said(e, Says(here, "other" \notin lost /\ other,
                                       "rows" \notin lost /\ rows))
      BY <1>3 DEF Preview
    <2>2. verdict'.table = e.table /\ verdict'.pairs = draft[e.table]
          /\ verdict'.says = Says(here, "other" \notin lost /\ other, "rows" \notin lost /\ rows)
      BY <2>1 DEF Said
    <2>3. f = e
      BY <1>1, <2>2, OneEdgePerTable
    <2>4. /\ Joins(f.table, verdict.pairs)' = here
          /\ Joins(f.table, {Flipped(f, p) : p \in verdict.pairs})' = other
          /\ (db'.ids[f.table] = {}) = ~rows
      BY <1>1, <2>2, <2>3 DEF Joins, Joining, Turned
    <2>5. failures' = 0 => lost = {}
      <3>1. Cardinality(lost) \in Nat /\ (Cardinality(lost) = 0 => lost = {})
        BY TwoAreFinite, CountsNothing
      <3>2. failures \in Nat
        BY DEF Inv, TypeInv
      <3> QED BY <2>1, <3>1, <3>2
    <2> HIDE DEF here, other, rows
    <2> QED BY <2>2, <2>4, <2>5 DEF Says, TrueOf
  <1> QED BY <1>2, <1>3

LEMMA VerdictStep == Inv /\ [Next]_vars => VerdictInv'
  <1> SUFFICES ASSUME Inv, [Next]_vars PROVE VerdictInv'
    OBVIOUS
  <1> USE DEF piles
  <1>v. VerdictInv
    BY DEF Inv
  <1>1. ASSUME verdict' = NoVerdict PROVE VerdictInv'
    BY <1>1 DEF VerdictInv, VerdictIsTrue, NoVerdict
  <1>2. Classify \/ GiveUp \/ NameLinks \/ Propose => verdict' = NoVerdict
    BY <1>v DEF Classify, GiveUp, NameLinks, Propose, VerdictInv
  <1>3. ASSUME NEW t \in Tables, AskEnds(t) PROVE verdict' = NoVerdict
    BY <1>3, <1>v DEF AskEnds, VerdictInv
  <1>4. ASSUME NEW p, Locate(p) PROVE verdict' = NoVerdict
    BY <1>4, <1>v DEF Locate, VerdictInv
  <1>5. UNCHANGED <<db, stage, edges, failures, verdict>> => VerdictInv'
    BY <1>v DEF VerdictInv, VerdictIsTrue, Joins, Joining
  <1>6. ASSUME NEW e \in edges, Flip(e) PROVE VerdictInv'
    BY <1>5, <1>6 DEF Flip
  <1>7. ASSUME NEW e \in edges, Preview(e) PROVE VerdictInv'
    BY <1>7, PreviewIsTrue DEF VerdictInv, Preview
  <1>8. UNCHANGED vars => UNCHANGED <<db, stage, edges, failures, verdict>>
    BY DEF vars
  <1> QED BY <1>1, <1>2, <1>3, <1>4, <1>5, <1>6, <1>7, <1>8 DEF Next

LEMMA Invariant == Spec => []Inv
  <1>1. Inv /\ [Next]_vars => Inv'
    BY TypeStep, PilesStep, FoundStep, CompleteStep, VerdictStep DEF Inv
  <1> QED BY InitInv, <1>1, PTL DEF Spec

-----------------------------------------------------------------------------
(* The properties of Discovery.                                            *)

(***************************************************************************)
(* The verdict of a preview is so, whatever is flipped before and after it *)
(* and whichever questions fail (studio.py preview_edge).                  *)
(***************************************************************************)
THEOREM VerdictsAreTrue == Spec => []VerdictIsTrue
  <1>1. Inv => VerdictIsTrue
    BY DEF Inv, VerdictInv
  <1> QED BY <1>1, Invariant, PTL

\* The piles that the catalog makes hold every table once.
LEMMA CatalogPiles ==
  /\ Piled(db, "node") \cup Piled(db, "edge") \cup Piled(db, "ambiguous") \cup Piled(db, "skipped") = Tables
  /\ \A p, q : p # q => Piled(db, p) \cap Piled(db, q) = {}
  BY DEF Piled, Pile

LEMMA EdgesOfPiles ==
  ASSUME Inv, stage \in {"classified", "asking", "drafted"}
  PROVE  \/ nodes = Records /\ EdgeTables = Piled(db, "edge")
         \/ /\ nodes = Records \ linkTables
            /\ EdgeTables = Piled(db, "edge") \cup (Records \cap linkTables)
  <1>f. \A t : FkEdge(db, t).table = t /\ LinkEndEdge(t).table = t
    BY DEF FkEdge, LinkEndEdge
  <1>1. {e.table : e \in FkEdges} = Piled(db, "edge")
    BY <1>f, Zenon DEF FkEdges
  <1>2. {e.table : e \in {LinkEndEdge(t) : t \in Records \cap linkTables}} = Records \cap linkTables
    BY <1>f, Zenon
  <1>3. CASE stage = "drafted"
    BY <1>1, <1>2, <1>3 DEF Inv, PilesInv, EdgeTables
  <1>4. CASE stage # "drafted"
    BY <1>1, <1>4 DEF Inv, PilesInv, EdgeTables
  <1> QED BY <1>3, <1>4

(***************************************************************************)
(* Classifying a catalog and then moving what _LinkEnd names keeps every   *)
(* table on exactly one pile.                                              *)
(***************************************************************************)
THEOREM Typing == Spec => []TypeOK
  <1>1. Inv => TypeOK
    <2> SUFFICES ASSUME Inv PROVE TypeOK
      OBVIOUS
    <2>1. linkTables \subseteq Tables
      BY DiscoveryAssumption DEF Inv, TypeInv
    <2>2. ASSUME stage \notin {"idle", "error"}
          PROVE  /\ nodes \cup EdgeTables \cup ambiguous \cup skipped = Tables
                 /\ nodes \cap EdgeTables = {}
                 /\ (nodes \cup EdgeTables) \cap (ambiguous \cup skipped) = {}
                 /\ ambiguous \cap skipped = {}
      <3>1. stage \in {"classified", "asking", "drafted"}
        BY <2>2 DEF Inv, TypeInv
      <3>2. ambiguous = Piled(db, "ambiguous") /\ skipped = Piled(db, "skipped")
        BY <3>1 DEF Inv, PilesInv
      <3>3. /\ Records \cap Piled(db, "edge") = {}
            /\ (Records \cup Piled(db, "edge")) \cap (ambiguous \cup skipped) = {}
            /\ ambiguous \cap skipped = {}
        BY <3>2, CatalogPiles DEF Records
      <3> QED BY <3>1, <3>2, <3>3, EdgesOfPiles, CatalogPiles DEF Records
    <2> QED BY <2>1, <2>2 DEF Inv, TypeInv, TypeOK, EdgeSet
  <1> QED BY <1>1, Invariant, PTL

(***************************************************************************)
(* A link by foreign keys is judged before the piles change, and its       *)
(* warning is still right after, if _LinkEnd names only what nothing       *)
(* refers to (discovery.py:189).                                           *)
(***************************************************************************)
THEOREM Warnings == Spec => []WarningsAreRight
  <1>1. Inv => WarningsAreRight
    <2> SUFFICES ASSUME Inv, stage = "drafted", Apart, NEW e \in edges
                 PROVE  e.resolvable <=> /\ e.pairs # {}
                                         /\ \A p \in e.pairs : {p.src, p.dst} \subseteq nodes
      BY DEF WarningsAreRight
    <2>1. nodes = Records \ linkTables /\ linkTables \subseteq db.named /\ db \in Databases
      BY DEF Inv, PilesInv, TypeInv
    <2>2. ASSUME NEW t \in Piled(db, "edge"), e = FkEdge(db, t)
          PROVE  e.resolvable <=> /\ e.pairs # {}
                                  /\ \A p \in e.pairs : {p.src, p.dst} \subseteq nodes
      <3>1. db.refs[t][1] \notin linkTables /\ db.refs[t][2] \notin linkTables
        BY <2>1, EndsAreReferenced DEF Apart
      <3>2. e.resolvable = ({db.refs[t][1], db.refs[t][2]} \subseteq Records)
        BY <2>2 DEF FkEdge, Records
      <3> DEFINE p == Pair(db.refs[t][1], db.refs[t][2])
      <3>3. e.pairs = {p} /\ {p.src, p.dst} = {db.refs[t][1], db.refs[t][2]}
        BY <2>2 DEF FkEdge, Pair
      <3> HIDE DEF p
      <3>4. {db.refs[t][1], db.refs[t][2]} \subseteq nodes <=>
              {db.refs[t][1], db.refs[t][2]} \subseteq Records
        BY <2>1, <3>1
      <3> QED BY <3>2, <3>3, <3>4
    <2>3. ASSUME NEW t \in Records, e = LinkEndEdge(t)
          PROVE  e.resolvable <=> /\ e.pairs # {}
                                  /\ \A p \in e.pairs : {p.src, p.dst} \subseteq nodes
      <3>1. t \in Tables
        BY PiledAreTables DEF Records
      <3>2. ASSUME NEW u \in Records, NEW i \in {1, 2}, NEW o \in observed[t], Begins(u, o[i])
            PROVE  u \in nodes
        <4>1. PICK l \in db.links[t] : o = SeenAt(l)
          BY <3>1 DEF Inv, FoundInv
        <4>2. PICK j \in db.ids[u] : Prefix[j] = o[i]
          BY <3>2 DEF Begins
        <4>3. o[i] \in {Prefix[l[1]], Prefix[l[2]]}
          BY <4>1 DEF SeenAt
        <4>4. u \notin db.named
          BY <3>1, <4>2, <4>3 DEF Apart
        <4> QED BY <2>1, <4>4
      <3>3. ASSUME NEW p \in Endpoints(t) PROVE {p.src, p.dst} \subseteq nodes
        <4>1. PICK o \in observed[t] : <<o[1], p.src>> \in labelOf /\ <<o[2], p.dst>> \in labelOf
          BY DEF Endpoints
        <4>2. /\ p.src \in Records /\ Begins(p.src, o[1])
              /\ p.dst \in Records /\ Begins(p.dst, o[2])
          BY <4>1 DEF Inv, FoundInv
        <4> QED BY <3>2, <4>2
      <3> QED BY <2>3, <3>3 DEF LinkEndEdge
    <2> QED BY <2>2, <2>3 DEF Inv, PilesInv, FkEdges
  <1> QED BY <1>1, Invariant, PTL

(***************************************************************************)
(* What the draft proposes for a link of _LinkEnd is what the data shows,  *)
(* and all of it when every question was answered (discovery.py:196-240).  *)
(***************************************************************************)
THEOREM ProposedEnds == Spec => []EndsAreTrue
  <1>1. Inv => EndsAreTrue
    <2> SUFFICES ASSUME Inv, stage = "drafted",
                        NEW e \in edges, e.resolution = "link_end"
                 PROVE  /\ \A p \in e.pairs : \E l \in db.links[e.table] : Fits(l, p)
                        /\ failures = 0 =>
                             \A l \in db.links[e.table] :
                               (\A i \in Ends : \E t \in Piled(db, "node") : Begins(t, Prefix[l[i]]))
                                 => \E p \in e.pairs : Fits(l, p)
      BY DEF EndsAreTrue
    <2>1. PICK t \in Records \cap linkTables : e = LinkEndEdge(t)
      BY DEF Inv, PilesInv, FkEdges, FkEdge
    <2>2. t \in Tables /\ e.table = t /\ e.pairs = Endpoints(t)
      BY <2>1, PiledAreTables DEF LinkEndEdge, Records
    <2>3. ASSUME NEW p \in Endpoints(t) PROVE \E l \in db.links[t] : Fits(l, p)
      <3>1. PICK o \in observed[t] : <<o[1], p.src>> \in labelOf /\ <<o[2], p.dst>> \in labelOf
        BY DEF Endpoints
      <3>2. Begins(p.src, o[1]) /\ Begins(p.dst, o[2])
        BY <3>1 DEF Inv, FoundInv
      <3>3. PICK l \in db.links[t] : o = SeenAt(l)
        BY <2>2 DEF Inv, FoundInv
      <3> QED BY <3>2, <3>3 DEF SeenAt, Fits
    <2>4. ASSUME failures = 0, NEW l \in db.links[t],
                 \A i \in Ends : \E u \in Records : Begins(u, Prefix[l[i]])
          PROVE  \E p \in Endpoints(t) : Fits(l, p)
      <3> DEFINE o == SeenAt(l)
      <3>1. o \in observed[t] /\ o[1] = Prefix[l[1]] /\ o[2] = Prefix[l[2]]
        BY <2>1, <2>4 DEF Inv, CompleteInv, SeenAt
      <3>2. o[1] \in located /\ o[2] \in located
        BY <2>1, <3>1 DEF Inv, CompleteInv, PrefixesSeen
      <3>3. PICK u \in Tables : <<o[1], u>> \in labelOf
        BY <2>4, <3>1, <3>2 DEF Inv, CompleteInv, Ends
      <3>4. PICK w \in Tables : <<o[2], w>> \in labelOf
        BY <2>4, <3>1, <3>2 DEF Inv, CompleteInv, Ends
      <3>5. Pair(u, w) \in Endpoints(t)
        BY <3>1, <3>3, <3>4 DEF Pair, PairSet, Endpoints, Ends
      <3>6. Begins(u, o[1]) /\ Begins(w, o[2])
        BY <3>3, <3>4 DEF Inv, FoundInv
      <3> QED BY <3>1, <3>5, <3>6 DEF Pair, Fits
    <2> QED BY <2>2, <2>3, <2>4 DEF Records
  <1> QED BY <1>1, Invariant, PTL
=============================================================================
