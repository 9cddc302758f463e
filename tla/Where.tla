------------------------------- MODULE Where -------------------------------
(***************************************************************************)
(* The WHERE engine: the parser of predicate.py, to_sql with the spelling  *)
(* of tsql.py, and the rows that SQL Server keeps for what they write.     *)
(*                                                                         *)
(* A text is a sequence of tokens, and a token is a tuple whose first      *)
(* element tells its kind: <<"and">>, <<"(">>, <<"op", "<">>, or an        *)
(* operand: <<"prop", column>>, <<"number", n>>, <<"text", characters>>,   *)
(* <<"bool", b>>, <<"null">>, <<"id">> for id(n) and                       *)
(* <<"internal_id", label, key>>.  The characters of a text are those      *)
(* between its quotes.  Case is left out, as the usual collations do.      *)
(*                                                                         *)
(* A row is what the joins have found: the label and the key of the        *)
(* vertex n, and its columns.                                              *)
(***************************************************************************)
EXTENDS Integers, Lists

CONSTANTS
  Columns,      \* column -> "number", "text" or "bool"
  Label,        \* the label of n in the concrete plan
  NoLabel,      \* of an id whose label or key the codec cannot decode
  InlineMax,    \* INLINE_ID_MAX
  Depth         \* how deep the trees of filters are

ASSUME WhereAssumption ==
  /\ InlineMax \in Nat \ {0} /\ Depth \in Nat
  /\ Label \in STRING /\ NoLabel \in STRING /\ Label # NoLabel
  /\ \A c \in DOMAIN Columns : c \in STRING /\ Columns[c] \in {"number", "text", "bool"}

-----------------------------------------------------------------------------
(* Trees: operands, tests of them, and what NOT, AND and OR make of tests. *)

InternalIds == {"internal_id"} \X STRING \X Int
Operands ==
  ({"prop"} \X STRING) \cup ({"number"} \X Int) \cup ({"text"} \X Seq(STRING))
  \cup ({"bool"} \X BOOLEAN) \cup {<<"null">>, <<"id">>, <<"var">>} \cup InternalIds

Comparisons == {"=", "<>", "!=", "<", ">", "<=", ">="}
Tests ==
  ({"cmp"} \X Comparisons \X Operands \X Operands)
  \cup ({"like"} \X {"contains", "starts", "ends", "regex"} \X Operands \X Operands)
  \cup ({"in"} \X Operands \X Seq(Operands) \X BOOLEAN)
  \cup ({"idin"} \X Seq(InternalIds) \X BOOLEAN)
  \cup ({"isnull"} \X Operands \X BOOLEAN)
  \cup ({"flag"} \X Operands)

TreesOf[n \in 0..Depth] ==
  IF n = 0 THEN Tests
  ELSE Tests \cup ({"and", "or"} \X TreesOf[n - 1] \X TreesOf[n - 1])
             \cup ({"not"} \X TreesOf[n - 1])

Trees == TreesOf[Depth]

-----------------------------------------------------------------------------
(* The parser.  What has been parsed of a text, and where it goes on.      *)

Got(tree, next) == [tree |-> tree, next |-> next]
ParseError == Got(<<"error">>, 0)

Word(t, i) == IF i \in DOMAIN t THEN t[i][1] ELSE "end"

Closing(t, got, word) == IF Word(t, got.next) = word THEN Got(got.tree, got.next + 1)
                         ELSE ParseError

Literals == {"number", "text", "bool", "null"}
Keywords == {"and", "or", "not", "in", "is", "contains", "starts", "ends", "with", "unnest"}

\* A keyword out of place is taken for the name of a variable.
OperandAt(t, i) ==
  LET operand[j \in Nat] ==
        CASE Word(t, j) = "(" -> Closing(t, operand[j + 1], ")")
          [] Word(t, j) \in Literals \cup {"prop", "id", "internal_id"} -> Got(t[j], j + 1)
          [] Word(t, j) \in Keywords -> Got(<<"var">>, j + 1)
          [] OTHER -> ParseError
  IN  operand[i]

ItemsAt(t, i) ==
  LET items[j \in Nat] ==
        LET item == OperandAt(t, j)
            rest == items[item.next + 1]
        IN  IF Word(t, item.next) = "," THEN Got(<<item.tree>> \o rest.tree, rest.next)
            ELSE Got(<<item.tree>>, item.next)
  IN  items[i]

BracketAt(t, i) == IF Word(t, i) # "[" THEN ParseError
                   ELSE IF Word(t, i + 1) = "]" THEN Got(<<>>, i + 2)
                   ELSE Closing(t, ItemsAt(t, i + 1), "]")

\* [...], ([...]) and UNNEST([...])
ListAt(t, i) ==
  CASE Word(t, i) = "(" -> Closing(t, BracketAt(t, i + 1), ")")
    [] Word(t, i) = "unnest" /\ Word(t, i + 1) = "(" -> Closing(t, BracketAt(t, i + 2), ")")
    [] OTHER -> BracketAt(t, i)

NotIn(t, i) == Word(t, i) = "not" /\ Word(t, i + 1) = "in"

Membership(operand, items, negated) ==
  IF operand[1] = "id"
  THEN <<"idin", Kept(items, InternalIds), negated>>
  ELSE <<"in", operand, items, negated>>

\* What may follow an operand; left.next is 0 after an error.
TestAt(t, left) ==
  LET i == left.next
      afterIs == IF Word(t, i + 1) = "not" THEN i + 2 ELSE i + 1
      afterWith == IF Word(t, i) # "contains" /\ Word(t, i + 1) = "with" THEN i + 2 ELSE i + 1
      pattern == OperandAt(t, afterWith)
      list == ListAt(t, IF NotIn(t, i) THEN i + 2 ELSE i + 1)
      right == OperandAt(t, i + 1)
  IN  CASE Word(t, i) = "is" ->
             IF Word(t, afterIs) = "null"
             THEN Got(<<"isnull", left.tree, afterIs = i + 2>>, afterIs + 1) ELSE ParseError
        [] Word(t, i) \in {"contains", "starts", "ends"} ->
             Got(<<"like", Word(t, i), left.tree, pattern.tree>>, pattern.next)
        [] Word(t, i) = "in" \/ NotIn(t, i) ->
             IF list.next = 0 THEN ParseError
             ELSE Got(Membership(left.tree, list.tree, NotIn(t, i)), list.next)
        [] Word(t, i) = "op" ->
             Got(IF t[i][2] = "=~" THEN <<"like", "regex", left.tree, right.tree>>
                 ELSE <<"cmp", t[i][2], left.tree, right.tree>>, right.next)
        [] OTHER -> IF left.tree[1] \in {"prop", "var"} THEN Got(<<"flag", left.tree>>, i)
                    ELSE ParseError

(***************************************************************************)
(* The rules for OR, AND and NOT call each other: at gives, for a place    *)
(* and a rule, what the rule makes of the text from there on.              *)
(***************************************************************************)
PredicateAt(t, at, i) == IF Word(t, i) = "(" THEN Closing(t, at[<<i + 1, "or">>], ")")
                         ELSE TestAt(t, OperandAt(t, i))

\* Faulty: NOT takes all that follows.
NotAtLoose(t, at, i) ==
  LET inner == at[<<i + 1, "or">>]
  IN  IF Word(t, i) = "not" /\ ~NotIn(t, i) THEN Got(<<"not", inner.tree>>, inner.next)
      ELSE PredicateAt(t, at, i)

NotAt(t, at, i) ==
  LET inner == at[<<i + 1, "not">>]
  IN  IF Word(t, i) = "not" /\ ~NotIn(t, i) THEN Got(<<"not", inner.tree>>, inner.next)
      ELSE PredicateAt(t, at, i)

\* _or of and _and of _not; a chain is a tree that leans to the right.
JoinedAt(t, at, i, word) ==
  LET left == at[<<i, IF word = "or" THEN "and" ELSE "not">>]
      right == at[<<left.next + 1, word>>]
  IN  IF Word(t, left.next) = word THEN Got(<<word, left.tree, right.tree>>, right.next)
      ELSE left

\* All of the text, or nothing: trailing tokens are an error too.
Parse(t) ==
  LET at[p \in Nat \X {"or", "and", "not"}] ==
        IF p[2] = "not" THEN NotAt(t, at, p[1]) ELSE JoinedAt(t, at, p[1], p[2])
      got == at[<<1, "or">>]
  IN  IF got.next = Len(t) + 1 THEN got.tree ELSE <<"error">>

-----------------------------------------------------------------------------
(* What is found in a tree.                                                *)

Leaves(e) ==
  LET leaves[x \in Trees] ==
        CASE x[1] \in {"and", "or"} -> leaves[x[2]] \cup leaves[x[3]]
          [] x[1] = "not" -> leaves[x[2]]
          [] OTHER -> {x}
  IN  leaves[e]

\* Faulty: the ids of every branch of the tree.
HintsOfAny(e) ==
  LET hints[x \in Trees] ==
        CASE x[1] \in {"and", "or"} -> hints[x[2]] \o hints[x[3]]
          [] x[1] = "not" -> hints[x[2]]
          [] x[1] = "idin" -> <<x[2]>>
          [] OTHER -> <<>>
  IN  hints[e]

\* id_hints: the ids that n must be one of.
Hints(e) ==
  LET hints[x \in Trees] ==
        CASE x[1] = "and" -> hints[x[2]] \o hints[x[3]]
          [] x[1] = "idin" /\ ~x[3] -> <<x[2]>>
          [] OTHER -> <<>>
  IN  hints[e]

\* The vertex keeps the last ids of those that hold any (id_refs).
IdRefs(e) ==
  LET some == {i \in DOMAIN Hints(e) : Hints(e)[i] # <<>>}
  IN  IF some = {} THEN <<>> ELSE Hints(e)[Max(some)]

(***************************************************************************)
(* Three-valued logic, the same in Cypher and SQL: 0 is false, 1 is null   *)
(* and 2 is true.  d gives the degree of truth of each test.               *)
(***************************************************************************)
Degree(b) == IF b THEN 2 ELSE 0

Connected(e, d) ==
  LET degree[x \in Trees] ==
        CASE x[1] = "and" -> Min({degree[x[2]], degree[x[3]]})
          [] x[1] = "or" -> Max({degree[x[2]], degree[x[3]]})
          [] x[1] = "not" -> 2 - degree[x[2]]
          [] OTHER -> d[x]
  IN  degree[e]

Null == <<"null">>
Value(x, row) == IF x[1] = "prop" THEN row.columns[x[2]] ELSE x

Compared(op, a, b) ==
  IF Null \in {a, b} THEN 1
  ELSE Degree(CASE op = "=" -> a = b
                [] op \in {"<>", "!="} -> a # b
                [] op = "<" -> a[2] < b[2]
                [] op = ">" -> a[2] > b[2]
                [] op = "<=" -> a[2] <= b[2]
                [] op = ">=" -> a[2] >= b[2])

Among(a, values) == IF a = Null THEN 1
                    ELSE IF a \in ToSet(values) THEN 2
                    ELSE IF Null \in ToSet(values) THEN 1 ELSE 0

-----------------------------------------------------------------------------
(* The compiler.                                                           *)

Unescaped(s, chars) ==
  LET rest[i \in 1..(Len(s) + 1)] ==
        IF i > Len(s) THEN <<>>
        ELSE IF s[i] = "\\" /\ i < Len(s) /\ s[i + 1] \in chars
        THEN <<s[i + 1]>> \o rest[i + 2]
        ELSE <<s[i]>> \o rest[i + 1]
  IN  rest[1]

\* _unquote: an escaped quote loses its backslash, an escaped backslash does not.
Literal(x) == IF x[1] = "text" THEN <<"text", Unescaped(x[2], {"'"})>> ELSE x

\* Faulty: wildcards that the user did not intend are left in.
PatternBare(how, value) ==
  (IF how = "starts" THEN <<>> ELSE <<"%">>) \o value
    \o (IF how = "ends" THEN <<>> ELSE <<"%">>)

\* like_pattern
Pattern(how, value) ==
  LET Escaped(c) == IF c \in {"%", "_", "[", "]"} THEN <<"\\", c>> ELSE <<c>>
      middle == FlattenSeq([i \in DOMAIN value |-> Escaped(value[i])])
  IN  (IF how = "starts" THEN <<>> ELSE <<"%">>) \o middle
        \o (IF how = "ends" THEN <<>> ELSE <<"%">>)

\* str of what stands where a text should: None, or the repr of a property.
Spelled(x) == CASE x[1] = "text" -> Literal(x)[2]
                [] x[1] = "null" -> <<"None">>
                [] OTHER -> <<"Prop(...)">>

Keys(refs) == LET known == Kept(refs, {x \in InternalIds : x[2] # NoLabel})
              IN  [i \in DOMAIN known |-> <<"number", known[i][3]>>]

Listed(e) == IF e[1] = "idin" THEN Keys(e[2]) ELSE [i \in DOMAIN e[3] |-> Literal(e[3][i])]

\* Faulty: every value of a list is a parameter.
ListParamsAll(values) == values

\* id_list_sql: a long list is one parameter.
ListParams(values) == IF Len(values) <= InlineMax THEN values ELSE <<<<"list", values>>>>

\* The parameters of to_sql, in the order of their holes.
TestParams(l) ==
  CASE l[1] = "cmp" -> IF l[4][1] \in {"prop", "var"} THEN <<>> ELSE <<Literal(l[4])>>
    [] l[1] = "like" -> <<<<"text", Pattern(l[2], Spelled(l[4]))>>>>
    [] l[1] \in {"in", "idin"} -> ListParams(Listed(l))
    [] l[1] \in {"isnull", "flag"} -> <<>>

Params(e) ==
  LET params[x \in Trees] ==
        CASE x[1] \in {"and", "or"} -> params[x[2]] \o params[x[3]]
          [] x[1] = "not" -> params[x[2]]
          [] OTHER -> TestParams(x)
  IN  params[e]

\* In XML a value is its text, and Python's for null is None.
Sent(values, openjson) ==
  IF Len(values) <= InlineMax \/ openjson THEN values
  ELSE [i \in DOMAIN values |-> IF values[i] = Null THEN <<"text", Spelled(Null)>> ELSE values[i]]

Operand(e) == IF e[1] \in {"cmp", "like"} THEN e[3] ELSE e[2]

\* UnsupportedByTSql, which the user is told.
Refuses(e) == \E l \in Leaves(e) : l[1] = "like" /\ l[2] = "regex"

\* A test that looks at its operand: an empty list is dealt with before.
Looks(l) == l[1] # "idin" /\ (l[1] = "in" => l[3] # <<>>)

\* to_sql raises over the test of what is neither a property nor a variable.
Raises(e) == \E l \in Leaves(e) : Looks(l) /\ Operand(l)[1] \notin {"prop", "var"}

(***************************************************************************)
(* What SQL Server or the driver does not take: a column that is none, a   *)
(* parameter that is no value, null sent as XML to a column of numbers.    *)
(***************************************************************************)
IsColumn(x) == x[1] = "prop" /\ x[2] \in DOMAIN Columns

Breaks(e, openjson) ==
  \E l \in Leaves(e) :
    \/ Looks(l) /\ ~IsColumn(Operand(l))
    \/ l[1] = "cmp" /\ l[4][1] \notin Literals /\ ~IsColumn(l[4])
    \/ l[1] = "in" /\ \E i \in DOMAIN l[3] :
         \/ l[3][i][1] \notin Literals
         \/ Columns[l[2][2]] = "number" /\ Sent(Listed(l), openjson)[i][1] = "text"

\* LIKE ... ESCAPE '\' of T-SQL: ends[j] holds the places of s whose rest matches
\* what is left of p from its place j on.
Like(s, p) ==
  LET ends[j \in 1..(Len(p) + 1)] ==
        CASE j > Len(p) -> {Len(s) + 1}
          [] j <= Len(p) /\ p[j] = "%" ->
               {i \in 1..(Len(s) + 1) : \E k \in ends[j + 1] : i <= k}
          [] j <= Len(p) /\ p[j] = "\\" ->
               {i \in 1..Len(s) : j < Len(p) /\ p[j + 1] = s[i] /\ i + 1 \in ends[j + 2]}
          [] OTHER -> {i \in 1..Len(s) : p[j] \in {"_", s[i]} /\ i + 1 \in ends[j + 1]}
  IN  1 \in ends[1]

\* empty_in, or IN over what was sent.
ListTest(a, values, openjson) == IF values = <<>> THEN 0 ELSE Among(a, Sent(values, openjson))

SqlLeaf(l, row, openjson) ==
  LET a == Value(Operand(l), row)
      Signed(degree, negated) == IF negated THEN 2 - degree ELSE degree
  IN  CASE l[1] = "cmp" -> Compared(l[2], a, Value(Literal(l[4]), row))
        [] l[1] = "like" -> IF a = Null THEN 1
                            ELSE Degree(Like(a[2], Pattern(l[2], Spelled(l[4]))))
        [] l[1] = "in" -> Signed(ListTest(a, Listed(l), openjson), l[4])
        [] l[1] = "idin" -> Signed(ListTest(<<"number", row.key>>, Listed(l), openjson), l[3])
        [] l[1] = "isnull" -> Signed(Degree(a = Null), l[3])
        [] l[1] = "flag" -> Compared("=", a, <<"bool", TRUE>>)

\* WHERE keeps what is true, neither what is false nor what is null.
Keeps(e, row, openjson) ==
  Connected(e, [l \in Tests |-> SqlLeaf(l, row, openjson)]) = 2

-----------------------------------------------------------------------------
(* What a text means, and how a meaning is written.                        *)

Wrapped(tokens) == <<<<"(">>>> \o tokens \o <<<<")">>>>

Commas(items) == [k \in 1..(2 * Len(items) - 1) |->
                    IF k % 2 = 1 THEN items[(k + 1) \div 2] ELSE <<",">>]

InWritten(operand, items, negated) ==
  <<operand>> \o (IF negated THEN <<<<"not">>>> ELSE <<>>)
    \o <<<<"in">>, <<"[">>>> \o Commas(items) \o <<<<"]">>>>

TestWritten(l) ==
  CASE l[1] = "cmp" -> <<l[3], <<"op", l[2]>>, l[4]>>
    [] l[1] = "like" /\ l[2] = "regex" -> <<l[3], <<"op", "=~">>, l[4]>>
    [] l[1] = "like" /\ l[2] = "contains" -> <<l[3], <<"contains">>, l[4]>>
    [] l[1] = "like" /\ l[2] \in {"starts", "ends"} -> <<l[3], <<l[2]>>, <<"with">>, l[4]>>
    [] l[1] = "in" -> InWritten(l[2], l[3], l[4])
    [] l[1] = "idin" -> InWritten(<<"id">>, l[2], l[3])
    [] l[1] = "isnull" -> <<l[2], <<"is">>>>
                            \o (IF l[3] THEN <<<<"not">>>> ELSE <<>>) \o <<<<"null">>>>
    [] l[1] = "flag" -> <<l[2]>>

\* With no more brackets than the tree needs.
Under(text, x, words) == IF x[1] \in words THEN Wrapped(text) ELSE text

Written(e) ==
  LET written[x \in Trees] ==
        CASE x[1] = "and" -> Under(written[x[2]], x[2], {"and", "or"})
                               \o <<<<"and">>>> \o Under(written[x[3]], x[3], {"or"})
          [] x[1] = "or" -> Under(written[x[2]], x[2], {"or"}) \o <<<<"or">>>> \o written[x[3]]
          [] x[1] = "not" -> <<<<"not">>>> \o Under(written[x[2]], x[2], {"and", "or"})
          [] OTHER -> TestWritten(x)
  IN  written[e]

\* In Cypher a backslash is escaped too.
Meaning(x) == IF x[1] = "text" THEN <<"text", Unescaped(x[2], {"'", "\\"})>> ELSE x

Found(how, s, v) == CASE how = "starts" -> IsPrefix(v, s)
                      [] how = "ends" -> IsSuffix(v, s)
                      [] how = "contains" -> \E k \in 0..Len(s) : IsPrefix(v, SubSeq(s, k + 1, Len(s)))

CypherLeaf(l, row) ==
  LET a == Value(Operand(l), row)
      Signed(degree, negated) == IF negated THEN 2 - degree ELSE degree
  IN  CASE l[1] = "cmp" -> Compared(l[2], a, Value(Meaning(l[4]), row))
        [] l[1] = "like" -> IF a = Null THEN 1 ELSE Degree(Found(l[2], a[2], Meaning(l[4])[2]))
        [] l[1] = "in" -> Signed(IF l[3] = <<>> THEN 0
                                 ELSE Among(a, [i \in DOMAIN l[3] |-> Meaning(l[3][i])]), l[4])
        [] l[1] = "idin" -> Signed(Degree(\E i \in DOMAIN l[2] : /\ l[2][i][2] = row.label
                                                                /\ l[2][i][3] = row.key), l[3])
        [] l[1] = "isnull" -> Signed(Degree(a = Null), l[3])
        [] l[1] = "flag" -> Compared("=", a, <<"bool", TRUE>>)

Matches(e, row) == Connected(e, [l \in Tests |-> CypherLeaf(l, row)]) = 2

Backslashed(x) == x[1] = "text" /\ "\\" \in ToSet(Meaning(x)[2])

Doubled(v) == FlattenSeq([i \in DOMAIN v |-> IF v[i] = "\\" THEN <<"\\", "\\">> ELSE <<v[i]>>])

(***************************************************************************)
(* Filters that mean to SQL Server what they mean in Cypher: ids are of    *)
(* the label at hand, texts that are compared hold no backslash, patterns  *)
(* are texts in which each is written twice and are sought in columns of   *)
(* text, and null is not sent as XML.                                      *)
(***************************************************************************)
Straight(e, openjson) ==
  \A l \in Leaves(e) :
    /\ l[1] = "idin" => \A i \in DOMAIN l[2] : l[2][i][2] = Label
    /\ l[1] = "cmp" => ~Backslashed(l[4])
    /\ l[1] = "like" => /\ l[4][1] = "text" /\ Columns[l[3][2]] = "text"
                        /\ Literal(l[4])[2] = Doubled(Meaning(l[4])[2])
    /\ l[1] = "in" => \A i \in DOMAIN l[3] :
         ~Backslashed(l[3][i]) /\ Sent(Listed(l), openjson)[i] = Literal(l[3][i])
=============================================================================
