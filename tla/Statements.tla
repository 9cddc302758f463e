---------------------------- MODULE Statements ----------------------------
(***************************************************************************)
(* A query with a filter, from its text to the rows that SQL Server keeps: *)
(* translate of cypher_translator.py, compile and aggregate of             *)
(* mssql_backend.py, and the binding of parameters to the question marks   *)
(* of the statement.                                                       *)
(*                                                                         *)
(* A route is the hops of one concrete plan, and how each finds the links  *)
(* of a record: by the columns of the link table, by those and the prefix  *)
(* of their ids, or by the rows of the shared _LinkEnd table.  A query     *)
(* that groups is one statement over the routes of all its plans; any      *)
(* other has a statement for each, so it is a query of one route here.     *)
(*                                                                         *)
(* SQL Server gives the first parameter to the first question mark of the  *)
(* text; compile appends parameters in the order it writes the parts.      *)
(***************************************************************************)
EXTENDS Where

CONSTANTS
  Filters,      \* [text, meant]: a text and its meaning, or <<"error">>
  Queries,      \* sequences of routes
  Rows,         \* what the joins may find
  MaxParams     \* 2100

\* A column holds null or a value of its kind.
Cells(kind) == {x \in Operands : x[1] \in {kind, "null"}}

\* near_prefix and far_prefix, as far as there are any.
Hops == [resolution : {"fk", "prefixed_fk", "link_end"}, table : STRING,
         near_end : {1, 2}, far_end : {1, 2}, prefixes : {p \in Seq(STRING) : Len(p) <= 2}]

ASSUME StatementsAssumption ==
  /\ MaxParams \in Nat
  /\ \A f \in Filters : f.text = <<>> \/ Parse(f.text) \in {<<"error">>} \cup Trees
  /\ \A r \in Rows : /\ r.label = Label /\ r.key \in Int /\ DOMAIN r.columns = DOMAIN Columns
                    /\ \A c \in DOMAIN Columns : r.columns[c] \in Cells(Columns[c])
  /\ Queries \subseteq Seq(Seq(Hops))

VARIABLES
  filter,     \* what follows WHERE, and what its writer means
  routes,
  openjson,   \* the server and the database are new enough
  stage,
  where,      \* the parsed tree, <<"all">> without a WHERE
  holes,      \* what each question mark stands for
  params,     \* what is bound
  kept        \* the rows that the statement keeps

vars == <<filter, routes, openjson, stage, where, holes, params, kept>>

-----------------------------------------------------------------------------
\* _has_id_filter: then the ids drive the plan, and prefixes are no help.
Selected(e) == e # <<"all">> /\ IdRefs(e) # <<>>

\* The question marks of a hop in FROM, and those it adds to WHERE.
FromParams(h) == IF h.resolution = "link_end"
                 THEN <<h.table, h.near_end, h.table, h.far_end>> ELSE <<>>

PrefixParams(h, e) == IF h.resolution = "prefixed_fk" /\ ~Selected(e) THEN h.prefixes ELSE <<>>

FilterParams(e) == IF e = <<"all">> THEN <<>> ELSE Params(e)

AllFrom(route) == FlattenSeq([i \in DOMAIN route |-> FromParams(route[i])])
AllPrefixes(route, e) == FlattenSeq([i \in DOMAIN route |-> PrefixParams(route[i], e)])

\* The text of a SELECT: FROM and its joins, then the terms of WHERE.
TextOrder(route, e) == AllFrom(route) \o AllPrefixes(route, e) \o FilterParams(e)

\* Faulty: the prefixes are written into the text, but not bound.
CompileOrderBare(route, e) == AllFrom(route) \o FilterParams(e)

\* _from_join appends hop by hop, joins and prefixes alike, then _where.
CompileOrder(route, e) ==
  FlattenSeq([i \in DOMAIN route |-> FromParams(route[i]) \o PrefixParams(route[i], e)])
    \o FilterParams(e)

-----------------------------------------------------------------------------
Init ==
  /\ filter \in Filters
  /\ routes \in Queries
  /\ openjson \in BOOLEAN
  /\ stage = "asked"
  /\ where = <<"all">>
  /\ holes = <<>>
  /\ params = <<>>
  /\ kept = {}

Translate ==
  /\ stage = "asked"
  /\ where' = IF filter.text = <<>> THEN <<"all">> ELSE Parse(filter.text)
  /\ stage' = IF where' = <<"error">> THEN "refused" ELSE "translated"
  /\ UNCHANGED <<filter, routes, openjson, holes, params, kept>>

\* An operator that T-SQL lacks is refused, and a bad test raises: the first
\* of them in the text.
Decline ==
  /\ stage = "translated"
  /\ where # <<"all">>
  /\ \/ Refuses(where) /\ stage' = "refused"
     \/ Raises(where) /\ stage' = "failed"
  /\ UNCHANGED <<filter, routes, openjson, where, holes, params, kept>>

Compile ==
  /\ stage = "translated"
  /\ where # <<"all">> => ~Refuses(where) /\ ~Raises(where)
  /\ holes' = FlattenSeq([k \in DOMAIN routes |-> TextOrder(routes[k], where)])
  /\ params' = FlattenSeq([k \in DOMAIN routes |-> CompileOrder(routes[k], where)])
  /\ stage' = "compiled"
  /\ UNCHANGED <<filter, routes, openjson, where, kept>>

\* A prefix bound as a link table or an end is none of either: no row, or an
\* error where the end is a number.
Misbound == params # holes

Run ==
  /\ stage = "compiled"
  /\ Len(params) <= MaxParams
  /\ where # <<"all">> => ~Breaks(where, openjson)
  /\ stage' = "answered"
  /\ kept' = {r \in Rows : ~Misbound /\ (where # <<"all">> => Keeps(where, r, openjson))}
  /\ UNCHANGED <<filter, routes, openjson, where, holes, params>>

Fail ==
  /\ stage = "compiled"
  /\ \/ Len(params) > MaxParams
     \/ where # <<"all">> /\ Breaks(where, openjson)
     \/ Misbound
  /\ stage' = "failed"
  /\ UNCHANGED <<filter, routes, openjson, where, holes, params, kept>>

Next == Translate \/ Decline \/ Compile \/ Run \/ Fail

Spec == Init /\ [][Next]_vars

-----------------------------------------------------------------------------
(* Properties.                                                             *)

TypeOK ==
  /\ routes \in Queries /\ openjson \in BOOLEAN
  /\ stage \in {"asked", "translated", "compiled", "answered", "refused", "failed"}
  /\ Len(params) = Len(holes)
  /\ kept \subseteq Rows

\* A keyword stands where one may: _operand takes any other for a variable.
KeywordsInPlace(t) ==
  LET Ends(i) == Word(t, i) \in Literals \cup {"prop", "id", "internal_id", ")", "]"}
  IN  \A i \in DOMAIN t :
        /\ Word(t, i) \in {"and", "or", "is", "contains", "starts", "ends"} => Ends(i - 1)
        /\ Word(t, i) = "in" => Ends(IF Word(t, i - 1) = "not" THEN i - 2 ELSE i - 1)
        /\ Word(t, i) = "not" =>
             /\ Ends(i - 1) \/ Word(t, i - 1) \in {"end", "(", "and", "or", "not", "is"}
             /\ Word(t, i + 1) # ")"
        /\ Word(t, i) = "with" => Word(t, i - 1) \in {"starts", "ends"}
        /\ Word(t, i) = "unnest" => Word(t, i - 1) = "in"

\* A bracket is closed after whole tests: _predicate takes it for such a one.
BracketsHoldTests(t) ==
  \A i \in DOMAIN t : Word(t, i) = ")" =>
    Word(t, i + 1) \notin {"op", "is", "in", "not", "contains", "starts", "ends"}

ReadAsMeant ==
  stage # "asked" =>
    IF filter.meant = <<"error">> THEN stage = "refused" ELSE where = filter.meant

(***************************************************************************)
(* NOT, AND, OR and brackets group as the grammar has it (predicate.py:10) *)
(* and Cypher, IN and IS take their own NOT, and what is no expression is  *)
(* refused, never dropped (cypher_translator.py:83) - of texts whose       *)
(* keywords are in place and whose brackets hold tests.  Of others it is   *)
(* false: n.x AND AND is accepted, and (n.x) = 1 refused.                  *)
(***************************************************************************)
ParsedAsWritten ==
  KeywordsInPlace(filter.text) /\ BracketsHoldTests(filter.text) => ReadAsMeant

(***************************************************************************)
(* No question mark of a join comes after a prefix: a hop with prefixes is *)
(* not followed by a hop through _LinkEnd.                                 *)
(***************************************************************************)
JoinsFirst ==
  \A k \in DOMAIN routes : \A i, j \in DOMAIN routes[k] :
    i < j => FromParams(routes[k][j]) = <<>> \/ PrefixParams(routes[k][i], where) = <<>>

(***************************************************************************)
(* An answer keeps the rows that Cypher keeps, whatever is null in them,   *)
(* whichever wildcards, quotes and long lists the filter holds, and        *)
(* whichever way the list is sent.                                         *)
(***************************************************************************)
KeepsWhatCypherKeeps ==
  stage = "answered" /\ JoinsFirst =>
    /\ where = <<"all">> => kept = Rows
    /\ where # <<"all">> /\ Straight(where, openjson) => kept = {r \in Rows : Matches(where, r)}

(***************************************************************************)
(* The ids that the filter hints at for n, which fix its label and switch  *)
(* the prefixes off, are true of every row it keeps.                       *)
(***************************************************************************)
HintsAreSound ==
  stage = "answered" /\ Selected(where) =>
    \A r \in kept : \E i \in DOMAIN IdRefs(where) : IdRefs(where)[i][3] = r.key

TestCount(e) ==
  LET count[x \in Trees] ==
        CASE x[1] \in {"and", "or"} -> count[x[2]] + count[x[3]]
          [] x[1] = "not" -> count[x[2]]
          [] OTHER -> 1
  IN  count[e]

Used(e) == IF e = <<"all">> THEN 0 ELSE InlineMax * TestCount(e)

(***************************************************************************)
(* Every question mark is bound to what it stands for, and a test takes no *)
(* more of the server's parameters than a short list, however long its     *)
(* list is, and a hop no more than four (tsql.py:20).                      *)
(***************************************************************************)
BoundInOrder ==
  stage = "compiled" /\ JoinsFirst =>
    /\ params = holes
    /\ Len(params) <= 4 * Len(FlattenSeq(routes)) + Used(where) * Len(routes)

(***************************************************************************)
(* The same for every statement: multi-hop patterns work, and what would   *)
(* give a wrong answer fails loudly (README.md:387, README.md:396).        *)
(***************************************************************************)
BoundAsMeant == stage = "compiled" => params = holes
=============================================================================
