------------------------------ MODULE Queries ------------------------------
(***************************************************************************)
(* QueryProcessor.execute of query_processor.py for a translated pattern,  *)
(* with MssqlBackend.execute and .project under it.  A query is expanded   *)
(* into branches, a branch into concrete plans, and each plan is one       *)
(* statement that SQL Server may refuse or fail to finish.                 *)
(*                                                                         *)
(* The caller pages through a graph: while an answer shows links, it may   *)
(* ask for the same query, further on.  Nothing of a query outlives it, so *)
(* a behaviour is one query and its pages.                                 *)
(*                                                                         *)
(* A plan "returns" a graph, the value of the first vertex (a scalar), or  *)
(* the count of its links, or of its vertex if it has none; the record     *)
(* stands for its value.  Branches and plans run in some order that the    *)
(* mapping fixes; CHOOSE stands for it.                                    *)
(***************************************************************************)
EXTENDS Patterns, Lists

CONSTANTS
  Plans,        \* the patterns that are asked, auto-LIMIT applied
  Databases,    \* what the link tables may hold
  MaxFailures,  \* how many statements of a query may fail
  NoPlan

ASSUME QueriesAssumption ==
  /\ \A p \in Plans : WellFormed(p)
  /\ IsFiniteSet(Labels) /\ IsFiniteSet(Types) /\ IsFiniteSet(Records)
  /\ \A d \in Databases : IsFiniteSet(d)
  /\ \A d \in Databases : \A l \in d : /\ l.type \in Types /\ l.id \in Nat
                                       /\ \A k \in d : k.type = l.type /\ k.id = l.id => k = l
  /\ MaxFailures \in Nat

VARIABLES
  links,     \* the rows of the link tables
  plan,      \* what was asked
  stage,     \* "idle", "branches", "plans" or "answered"
  branches,  \* branches still to run
  branch,    \* the one that runs
  plans,     \* its concrete plans that have not run
  out,       \* what those that have run returned
  merged,    \* what finished branches returned
  failures,  \* statements of this query that have failed
  errors,    \* whether the scalar path has noted an error
  answer,
  shown,     \* links on the pages before this one
  repeated   \* whether a page showed one of them again

work == <<branches, branch, plans, out, merged, failures, errors>>
vars == <<links, plan, stage, work, answer, shown, repeated>>

Nothing == [nodes |-> <<>>, rels |-> <<>>, rows |-> <<>>]
Answered(kind, o) == [kind |-> kind, nodes |-> o.nodes, rels |-> o.rels, rows |-> o.rows]

Extended(o, t) == [nodes |-> o.nodes \o t.nodes, rels |-> o.rels \o t.rels,
                   rows |-> o.rows \o t.rows]

(***************************************************************************)
(* What a statement returns: its rows in the order of all the keys it      *)
(* projects, cut by TOP or by OFFSET and FETCH.                            *)
(***************************************************************************)
SortKeys(m) == [i \in DOMAIN m.nodes |-> m.nodes[i].key]
               \o [i \in DOMAIN m.rels |-> m.rels[i].id]

Cut(p, all) == SubSeq(all, p.skip + 1, Min({p.skip + p.limit, Len(all)}))

\* ORDER BY
InOrder(S) == Sorted(S, {r \in S \X S : Precedes(SortKeys(r[1]), SortKeys(r[2]))})

\* Faulty: no ORDER BY, and OFFSET counts in another order than TOP.
PageUnsorted(p, S) == Cut(p, IF p.skip = 0 THEN InOrder(S) ELSE Reverse(InOrder(S)))

Page(p, S) == Cut(p, InOrder(S))

\* Faulty: a link's start is named by the link's own key.
RelOfOwnKey(cp, m, i) ==
  [link |-> m.rels[i], start |-> [m.nodes[i] EXCEPT !.key = m.rels[i].id],
   end |-> m.nodes[i + 1]]

\* convert_rows: links start and end where the mapping says they do.
Oriented(m, i, back) ==
  [link |-> m.rels[i], start |-> m.nodes[IF back THEN i + 1 ELSE i],
   end |-> m.nodes[IF back THEN i ELSE i + 1]]

RelOf(cp, m, i) == Oriented(m, i, cp.edges[i].swapped)

\* project: the value of the first vertex, in its order.
Projected(p, page) == [Nothing EXCEPT !.rows = [k \in DOMAIN page |-> page[k].nodes[1]]]

Converted(p, cp, page) ==
  [Nothing EXCEPT !.nodes = FlattenSeq([k \in DOMAIN page |-> page[k].nodes]),
                  !.rels = FlattenSeq([k \in DOMAIN page |->
                                         [i \in 1..Hops(p) |-> RelOf(cp, page[k], i)]])]

Returned(p, cp) ==
  LET page == Page(p, Rows(p, cp, links))
  IN  IF p.returns = "scalar" THEN Projected(p, page) ELSE Converted(p, cp, page)

\* Faulty: nodes are cut like links.
TrimmedNodes(p, o) ==
  [o EXCEPT !.rels = SubSeq(@, 1, Min({Len(@), p.limit})),
            !.nodes = SubSeq(@, 1, Min({Len(@), p.limit}))]

(***************************************************************************)
(* The end of MssqlBackend.execute: a branch returns no more links than    *)
(* LIMIT, and the nodes at their ends; or no more nodes, without links.    *)
(***************************************************************************)
Trimmed(p, o) ==
  IF Len(o.rels) > p.limit
  THEN LET kept == SubSeq(o.rels, 1, p.limit)
           live == UNION {{r.start, r.end} : r \in ToSet(kept)}
       IN  [o EXCEPT !.rels = kept,
                     !.nodes = Kept(@, live)]
  ELSE IF o.rels = <<>> /\ Len(o.nodes) > p.limit
       THEN [o EXCEPT !.nodes = SubSeq(@, 1, p.limit)]
       ELSE o

-----------------------------------------------------------------------------
(* Queries that are answered at once: MATCH (n) RETURN n, and counts.      *)

IsSample(p) == p.returns = "graph" /\ p.labels = <<NoLabel>> /\ p.ids = <<>> /\ p.skip = 0
AtOnce(p) == IsSample(p) \/ p.returns = "count"

\* sample: of each label equally many, the first by key.
First(s, n) == SubSeq(s, 1, Min({n, Len(s)}))

OfLabel(l) ==
  LET S == {s \in Records : s.label = l}
  IN  Sorted(S, {r \in S \X S : r[1].key < r[2].key})

Spread(p) ==
  LET order == SetToSeq(Labels)
      each == Max({1, p.limit \div Cardinality(Labels)})
  IN  First(FlattenSeq([i \in DOMAIN order |-> First(OfLabel(order[i]), each)]), p.limit)

\* _count reads a vertex, or a link, with at most one label or type; it does
\* not look at the labels of the link's ends.
Bare(p) == /\ p.ids = <<>>
           /\ \/ Hops(p) = 0
              \/ Hops(p) = 1 /\ Cardinality(p.types[1]) <= 1 /\ p.dirs[1] # "in"

\* node_count and rel_count; a link without direction is counted twice.
TableRows(p) ==
  IF Hops(p) = 0 THEN Cardinality({s \in Records : p.labels[1] \in {NoLabel, s.label}})
  ELSE (IF p.dirs[1] = "both" THEN 2 ELSE 1) * Cardinality({l \in links : l.type \in TypesOf(p, 1)})

\* aggregate: the rows of all concrete plans, in one statement.
AllRows(p, d) == UNION {{cp} \X Rows(p, cp, d) : cp \in ConcretePlans(p)}
UnionRows(p) == Cardinality(AllRows(p, links))

Counted(n) == [kind |-> "count", total |-> n, nodes |-> <<>>, rels |-> <<>>, rows |-> <<>>]

-----------------------------------------------------------------------------
Init ==
  /\ links \in Databases
  /\ plan = NoPlan
  /\ stage = "idle"
  /\ branches = {}
  /\ branch = NoPlan
  /\ plans = {}
  /\ out = Nothing
  /\ merged = Nothing
  /\ failures = 0
  /\ errors = FALSE
  /\ answer = Answered("none", Nothing)
  /\ shown = {}
  /\ repeated = FALSE

\* execute: the plan is expanded, and nothing of an earlier query is left.
Begin(p) ==
  /\ plan' = p
  /\ stage' = "branches"
  /\ branches' = Branches(p)
  /\ branch' = NoPlan
  /\ plans' = {}
  /\ out' = Nothing
  /\ merged' = Nothing
  /\ failures' = 0
  /\ errors' = FALSE
  /\ answer' = Answered("none", Nothing)
  /\ UNCHANGED links

Ask(p) ==
  /\ stage = "idle"
  /\ ~AtOnce(p)
  /\ Begin(p)
  /\ UNCHANGED <<shown, repeated>>

\* An exception of these is not caught, whatever has been found.
AnswerAtOnce(p, told) ==
  /\ stage = "idle"
  /\ plan' = p
  /\ stage' = "answered"
  /\ \/ answer' = told /\ UNCHANGED failures
     \/ answer' = Answered("error", Nothing) /\ failures < MaxFailures /\ failures' = failures + 1
  /\ UNCHANGED <<links, branches, branch, plans, out, merged, errors, shown, repeated>>

Sample(p) == IsSample(p) /\ AnswerAtOnce(p, Answered("graph", [Nothing EXCEPT !.nodes = Spread(p)]))

Count(p) ==
  /\ p.returns = "count"
  /\ AnswerAtOnce(p, IF Bare(p) THEN Counted(TableRows(p))
                     ELSE IF TooMany(p) THEN Answered("error", Nothing)
                     ELSE IF ConcretePlans(p) = {} THEN Answered("scalar", Nothing)
                     ELSE Counted(UnionRows(p)))

More ==
  /\ stage = "answered"
  /\ answer.rels # <<>>
  /\ Begin([plan EXCEPT !.skip = @ + plan.limit])
  /\ shown' = shown \cup ToSet(answer.rels)
  /\ repeated' = (repeated \/ shown \cap ToSet(answer.rels) # {})

NextBranch == CHOOSE b \in branches : TRUE
NextPlan == CHOOSE cp \in plans : TRUE

Enter ==
  /\ stage = "branches"
  /\ branches # {}
  /\ ~TooMany(NextBranch)
  /\ stage' = "plans"
  /\ branches' = branches \ {NextBranch}
  /\ branch' = NextBranch
  /\ plans' = ConcretePlans(NextBranch)
  /\ out' = Nothing
  /\ UNCHANGED <<links, plan, merged, failures, errors, answer, shown, repeated>>

\* Faulty: a refusal is one more branch that found nothing.
RefuseQuietly ==
  /\ stage = "branches"
  /\ branches # {}
  /\ TooMany(NextBranch)
  /\ branches' = branches \ {NextBranch}
  /\ errors' = (plan.returns = "scalar")
  /\ UNCHANGED <<links, plan, stage, branch, plans, out, merged, failures, answer,
                 shown, repeated>>

\* BranchLimitExceeded: a graph is refused, a table goes on without the branch.
Refuse ==
  /\ stage = "branches"
  /\ branches # {}
  /\ TooMany(NextBranch)
  /\ branches' = branches \ {NextBranch}
  /\ IF plan.returns = "graph"
     THEN /\ stage' = "answered"
          /\ answer' = Answered("error", Nothing)
          /\ UNCHANGED errors
     ELSE /\ errors' = TRUE
          /\ UNCHANGED <<stage, answer>>
  /\ UNCHANGED <<links, plan, branch, plans, out, merged, failures, shown, repeated>>

Run ==
  /\ stage = "plans"
  /\ plans # {}
  /\ out' = Extended(out, Returned(branch, NextPlan))
  /\ plans' = plans \ {NextPlan}
  /\ UNCHANGED <<links, plan, stage, branches, branch, merged, failures, errors, answer,
                 shown, repeated>>

\* Any other exception: the branch ends, and what it has returned is lost.
Fail ==
  /\ stage = "plans"
  /\ plans # {}
  /\ failures < MaxFailures
  /\ failures' = failures + 1
  /\ errors' = (errors \/ plan.returns = "scalar")
  /\ stage' = "branches"
  /\ out' = Nothing
  /\ plans' = {}
  /\ UNCHANGED <<links, plan, branches, branch, merged, answer, shown, repeated>>

Leave ==
  /\ stage = "plans"
  /\ plans = {}
  /\ merged' = Extended(merged, Trimmed(branch, out))
  /\ stage' = "branches"
  /\ out' = Nothing
  /\ UNCHANGED <<links, plan, branches, branch, plans, failures, errors, answer, shown,
                 repeated>>

\* Faulty: errors of a table are only logged.
ReplyAnyway ==
  /\ stage = "branches"
  /\ branches = {}
  /\ stage' = "answered"
  /\ answer' = Answered(plan.returns, merged)
  /\ UNCHANGED <<links, plan, work, shown, repeated>>

\* A table without rows is an error if there was one.
Reply ==
  /\ stage = "branches"
  /\ branches = {}
  /\ stage' = "answered"
  /\ answer' = IF merged.rows = <<>> /\ errors THEN Answered("error", Nothing)
               ELSE Answered(plan.returns, merged)
  /\ UNCHANGED <<links, plan, work, shown, repeated>>

Next == \/ \E p \in Plans : Ask(p) \/ Sample(p) \/ Count(p)
        \/ More
        \/ Enter \/ Refuse \/ Run \/ Fail \/ Leave \/ Reply

Spec == Init /\ [][Next]_vars

-----------------------------------------------------------------------------
(* Properties.                                                             *)

AllLinks == UNION Databases
Rels == [link : AllLinks, start : Records, end : Records]
Outputs == [nodes : Seq(Records), rels : Seq(Rels), rows : Seq(Records)]

TypeOK ==
  /\ links \in Databases
  /\ stage \in {"idle", "branches", "plans", "answered"}
  /\ failures \in 0..MaxFailures
  /\ errors \in BOOLEAN
  /\ out \in Outputs
  /\ merged \in Outputs
  /\ answer.kind \in {"none", "graph", "scalar", "count", "error"}
  /\ answer.kind = "count" => answer.total \in Nat
  /\ [nodes |-> answer.nodes, rels |-> answer.rels, rows |-> answer.rows] \in Outputs
  /\ shown \subseteq Rels
  /\ repeated \in BOOLEAN

\* What a right answer shows, without LIMIT and SKIP.
RelsFound(p, d) ==
  UNION {UNION {{r \in {Oriented(m, i, back) : back \in Orientations[p.dirs[i]]} :
                   Connects(r.link, r.start, r.end)} : i \in 1..Hops(p)} :
         m \in Matches(p, d)}
NodesFound(p, d) == UNION {ToSet(m.nodes) : m \in Matches(p, d)}
FirstsFound(p, d) == {m.nodes[1] : m \in Matches(p, d)}

AnswerIs(kind) == stage = "answered" /\ answer.kind = kind

\* Nothing is cut: LIMIT is no less than what any branch finds, or any label
\* of a sample.
Uncut(p) ==
  /\ p.skip = 0
  /\ \A b \in Branches(p) : (Hops(p) + 1) * Cardinality(AllRows(b, links)) <= p.limit
  /\ IsSample(p) =>
       \A l \in Labels : Cardinality({s \in Records : s.label = l})
                           <= p.limit \div Cardinality(Labels)

(***************************************************************************)
(* Nothing is shown that the database does not hold in this pattern,       *)
(* whichever statements fail, wherever LIMIT cuts, on every page.          *)
(***************************************************************************)
NothingInvented ==
  stage = "answered" /\ Plain(plan) =>
    /\ ToSet(answer.rels) \subseteq RelsFound(plan, links)
    /\ ToSet(answer.nodes) \subseteq NodesFound(plan, links)
    /\ ToSet(answer.rows) \subseteq FirstsFound(plan, links)

(***************************************************************************)
(* An answer that no LIMIT cuts shows everything the pattern matches, and  *)
(* if it cannot, it is an error: a query that would give a wrong answer    *)
(* fails loudly (README.md:396).                                           *)
(***************************************************************************)
ShowsEverything ==
  /\ AnswerIs("graph") => /\ ToSet(answer.rels) = RelsFound(plan, links)
                          /\ ToSet(answer.nodes) = NodesFound(plan, links)
  /\ AnswerIs("scalar") => ToSet(answer.rows) = FirstsFound(plan, links)
  /\ AnswerIs("count") => answer.total = Cardinality(Matches(plan, links))

FailsLoudly == stage = "answered" /\ Uncut(plan) => ShowsEverything

\* A count takes a link for one match, or two without a direction: it names
\* no labels that are not looked at, and every link joins two records by one
\* endpoint pair.
Countable(p) ==
  p.returns = "count" /\ Hops(p) > 0 =>
    /\ Bare(p) => \A i \in Vertices(p) : p.labels[i] = NoLabel
    /\ \A l \in links : \E q \in Endpoints[l.type], a, b \in Records :
         /\ \A r \in Endpoints[l.type], c, d \in Records :
              Reads(r, l, c, d) <=> r = q /\ c = a /\ d = b
         /\ (\E i \in 1..Hops(p) : p.dirs[i] = "both") => a # b

(***************************************************************************)
(* The same for a plain query of which no statement failed and no branch   *)
(* was refused: every meaning of an open type, direction or label is       *)
(* among the concrete plans, and the statements find it.  Counts that are  *)
(* read off the tables agree with those that are put together.             *)
(***************************************************************************)
NothingMissed ==
  stage = "answered" /\ Uncut(plan) /\ Plain(plan) /\ Countable(plan) /\ failures = 0 /\ ~errors =>
    ShowsEverything

(***************************************************************************)
(* A graph has no loose ends: the ends of a link are among the nodes, and  *)
(* where the pattern has a link, every node is an end of one, though       *)
(* LIMIT may have cut the links.                                           *)
(***************************************************************************)
NoLooseEnds ==
  AnswerIs("graph") =>
    LET ends == UNION {{r.start, r.end} : r \in ToSet(answer.rels)}
    IN  /\ ends \subseteq ToSet(answer.nodes)
        /\ Hops(plan) > 0 => ToSet(answer.nodes) \subseteq ends

(***************************************************************************)
(* A pattern that could mean too much is refused, not answered by what the *)
(* other branches found (tests/test_pipeline.py:392, design-notes.md:131). *)
(***************************************************************************)
RefusalsAreTold ==
  AnswerIs("graph") => \A b \in Branches(plan) : ~TooMany(b)

(***************************************************************************)
(* A table without rows means that nothing matched, never that statements  *)
(* failed or branches were refused.  LIMIT 0 asks for no rows.             *)
(***************************************************************************)
EmptyTablesAreTrue ==
  AnswerIs("scalar") /\ answer.rows = <<>> /\ Plain(plan) /\ plan.skip = 0 /\ plan.limit > 0 =>
    Matches(plan, links) = {}

(***************************************************************************)
(* Paging to the end of a query that is one statement and one hop shows    *)
(* every link, and each once (design-notes.md:157).                        *)
(***************************************************************************)
OneStatement(p) == \E b \in Branches(p) : /\ Branches(p) = {b}
                                          /\ \E cp \in ConcretePlans(b) : ConcretePlans(b) = {cp}

PagesCover ==
  AnswerIs("graph") /\ answer.rels = <<>> /\ plan.skip > 0 /\ Hops(plan) = 1
  /\ OneStatement(plan) /\ Plain(plan) /\ failures = 0 =>
    shown = RelsFound(plan, links) /\ ~repeated
=============================================================================
