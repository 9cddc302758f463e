--------------------------- MODULE MCStatements ---------------------------
(***************************************************************************)
(* Tests of a number, a text and a bit, any of them null; every tree of    *)
(* two of them, and trees of three; and every short text over some words,  *)
(* with what the grammar of predicate.py makes of it.                      *)
(***************************************************************************)
EXTENDS Statements

MCColumns == [x |-> "number", s |-> "text", f |-> "bool"]

X == <<"prop", "x">>
S == <<"prop", "s">>
N(n) == <<"number", n>>
T(s) == <<"text", s>>
Ref(l, k) == <<"internal_id", l, k>>

MCRows ==
  [label : {"P"}, key : {1, 2},
   columns : [x : {N(1), N(2), Null},
              s : {T(<<"a", "b">>), T(<<"a", "%", "b">>), T(<<"b", "\\">>), Null},
              f : {<<"bool", TRUE>>, <<"bool", FALSE>>, Null}]]

Numbers ==
  {<<"cmp", op, X, N(1)>> : op \in {"=", "<>", "<=", ">"}}
  \cup {<<"cmp", "=", X, Null>>, <<"cmp", "!=", X, X>>}
  \cup {<<"in", X, l, neg>> : l \in {<<>>, <<N(1), Null>>, <<N(1), N(3), N(2)>>,
                                     <<N(1), N(3), Null>>}, neg \in BOOLEAN}
  \cup {<<"isnull", X, neg>> : neg \in BOOLEAN}

Texts ==
  {<<"like", how, S, T(v)>> : how \in {"contains", "starts", "ends"},
                              v \in {<<>>, <<"b">>, <<"a", "%">>, <<"\\", "\\">>, <<"\\", "'">>}}
  \cup {<<"in", S, <<T(<<"a", "b">>), Null, T(<<"c">>)>>, neg>> : neg \in BOOLEAN}
  \cup {<<"cmp", "=", S, T(<<"b", "\\", "\\">>)>>}

Flags == {<<"flag", <<"prop", "f">>>>}

Ids == {<<"idin", refs, neg>> :
          refs \in {<<>>, <<Ref("P", 1)>>, <<Ref("O", 2), Ref(NoLabel, 1)>>,
                    <<Ref("P", 1), Ref("P", 3), Ref("P", 4)>>},
          neg \in BOOLEAN}

\* Tests that fail in one way or the other, or mean what they should not.
Odd == {<<"like", "regex", S, T(<<"a">>)>>, <<"like", "contains", S, S>>,
        <<"like", "contains", S, Null>>, <<"cmp", "=", N(1), X>>,
        <<"isnull", <<"prop", "nosuch">>, FALSE>>, <<"in", X, <<N(1), X>>, FALSE>>,
        <<"in", <<"prop", "nosuch">>, <<>>, TRUE>>, <<"in", N(1), <<>>, FALSE>>}

Few == {<<"cmp", "=", X, N(1)>>, <<"like", "contains", S, T(<<"%">>)>>,
        <<"in", X, <<N(1), Null>>, TRUE>>, <<"idin", <<Ref("P", 1)>>, FALSE>>}

Long == {<<"in", X, <<N(1), N(3), N(2)>>, FALSE>>,
         <<"idin", <<Ref("P", 1), Ref("P", 3), Ref("P", 4)>>, TRUE>>}

Not(A) == {<<"not", e>> : e \in A}
Join(A, B) == {<<w, a, b>> : w \in {"and", "or"}, a \in A, b \in B}

Single == Numbers \cup Texts \cup Flags \cup Ids \cup Odd
Chosen == Few \cup Flags \cup {<<"isnull", X, TRUE>>, <<"idin", <<Ref("P", 2)>>, TRUE>>}

MCTrees ==
  Single \cup Not(Single) \cup Not(Not(Few))
  \cup Join(Chosen \cup Not(Chosen), Chosen) \cup Not(Join(Chosen, Few))
  \cup Join(Join(Few, Few), Few) \cup Join(Few, Join(Few, Few))
  \cup Join(Not(Join(Few, Few)), Not(Few)) \cup Join(Long, Join(Long, Long))

W(word) == <<word>>
Listing == <<W("["), N(1), W("]")>>

(***************************************************************************)
(* The grammar at the head of predicate.py, read as a grammar: the trees   *)
(* that a text may stand for, by every way to split it.  Lists are empty,  *)
(* a bare test is that of a property, and a chain leans to the right.      *)
(***************************************************************************)
Before(t, k) == SubSeq(t, 1, k - 1)
After(t, k) == SubSeq(t, k + 1, Len(t))
Places(t, word) == {k \in DOMAIN t : t[k][1] = word}
Bracketed(t) == Len(t) > 2 /\ t[1] = W("(") /\ t[Len(t)] = W(")")
Inside(t) == SubSeq(t, 2, Len(t) - 1)

RECURSIVE Primaries(_)
Primaries(t) == IF Bracketed(t) THEN Primaries(Inside(t))
                ELSE {o \in Range(t) : Len(t) = 1 /\ o[1] \in Literals \cup {"prop"}}

\* What stands before the words s at the end of t.
EndingIn(t, s) == IF IsSuffix(s, t) THEN Primaries(SubSeq(t, 1, Len(t) - Len(s))) ELSE {}
Negated(neg) == IF neg THEN <<W("not")>> ELSE <<>>

TestsOf(t) ==
  {<<"flag", a>> : a \in {o \in Primaries(t) : o[1] = "prop"}}
  \cup UNION {{<<"cmp", t[k][2], a, b>> : a \in Primaries(Before(t, k)), b \in Primaries(After(t, k))} :
                k \in Places(t, "op")}
  \cup UNION {{<<"isnull", a, neg>> : a \in EndingIn(t, <<W("is")>> \o Negated(neg) \o <<Null>>)}
              \cup {<<"in", a, <<>>, neg>> : a \in EndingIn(t, Negated(neg) \o <<W("in"), W("["), W("]")>>)} :
                neg \in BOOLEAN}

RECURSIVE Readings(_, _)
Readings(t, rule) ==
  LET Chains(part) == UNION {{<<rule, a, b>> : a \in Readings(Before(t, k), part),
                                               b \in Readings(After(t, k), rule)} :
                               k \in Places(t, rule)}
  IN  CASE rule = "or" -> Readings(t, "and") \cup Chains("and")
        [] rule = "and" -> Readings(t, "not") \cup Chains("not")
        [] rule = "not" -> TestsOf(t)
             \cup (IF Bracketed(t) THEN Readings(Inside(t), "or") ELSE {})
             \cup (IF Places(t, "not") # {} /\ t[1] = W("not")
                   THEN Not(Readings(After(t, 1), "not")) ELSE {})

Meant(t) == LET trees == Readings(t, "or")
            IN  IF trees = {} THEN <<"error">> ELSE CHOOSE e \in trees : trees = {e}

TextsOver(words, n) == UNION {[1..k -> words] : k \in 1..n}
Grouped == TextsOver({X, <<"op", "=">>, W("and"), W("or"), W("not"), W("("), W(")")}, 5)
Tested == TextsOver({X, N(1), Null, <<"op", "=">>, W("is"), W("not"), W("in"), W("["), W("]")}, 4)

\* Further texts that are no filter.
Broken ==
  {<<W("("), X, W(")"), W(")"), <<"op", "=">>, N(1)>>, <<X, W("in"), W("["), N(1)>>,
   <<W("id"), W("in"), W("["), W("]"), W("]")>>, <<W("id"), W("in"), W("(")>>,
   <<X, W("in"), W("["), N(1), W(","), W("]")>>, <<X, W("not"), W("in"), N(1)>>}

\* Other ways to write what Written writes.
Variants ==
  {[text |-> <<X, W("in"), W("unnest"), W("(")>> \o Listing \o <<W(")")>>,
    meant |-> <<"in", X, <<N(1)>>, FALSE>>],
   [text |-> <<X, W("not"), W("in"), W("(")>> \o Listing \o <<W(")")>>,
    meant |-> <<"in", X, <<N(1)>>, TRUE>>],
   [text |-> <<S, W("starts"), W("with"), W("("), T(<<"a">>), W(")")>>,
    meant |-> <<"like", "starts", S, T(<<"a">>)>>],
   [text |-> <<W("("), W("("), X, <<"op", "=">>, N(1), W(")"), W(")")>>,
    meant |-> <<"cmp", "=", X, N(1)>>],
   [text |-> <<>>, meant |-> <<"all">>]}

MCFilters ==
  {[text |-> Written(e), meant |-> e] : e \in MCTrees}
  \cup {[text |-> t, meant |-> Meant(t)] : t \in Grouped \cup Tested}
  \cup {[text |-> t, meant |-> <<"error">>] : t \in Broken} \cup Variants

Hop(how, near, far) == [resolution |-> how, table |-> "Link", near_end |-> 1, far_end |-> 2,
                        prefixes |-> IF how = "prefixed_fk" THEN <<near, far>> ELSE <<>>]
Fk == Hop("fk", "", "")
Prefixed == Hop("prefixed_fk", "PER%", "ORG%")
LinkEnd == Hop("link_end", "", "")

\* One statement, then two plans of one that groups.
MCQueries ==
  {<<<<>>>>, <<<<Fk, Prefixed>>>>, <<<<LinkEnd, Prefixed>>>>, <<<<Prefixed, LinkEnd>>>>,
   <<<<Prefixed>>, <<LinkEnd, Fk>>>>}

\* A filter that names no ids, on routes of every kind of hop.
BoundFilters == {[text |-> Written(e), meant |-> e] : e \in Chosen}
BoundQueries == UNION {[1..1 -> [1..n -> {Fk, Prefixed, LinkEnd}]] : n \in 1..3}
=============================================================================
