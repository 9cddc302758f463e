----------------------------- MODULE MCQueries -----------------------------
(***************************************************************************)
(* Two kinds of records, a type that joins P to P and P to O, and one from *)
(* O to P whose columns are the other way round, as after flipping it.     *)
(***************************************************************************)
EXTENDS Queries

Pair(s, d, sc, dc) == [src |-> s, dst |-> d, src_col |-> sc, dst_col |-> dc]
MCEndpoints == [A |-> {Pair("P", "P", 1, 2), Pair("P", "O", 1, 2)},
                B |-> {Pair("O", "P", 2, 1)}]

Rec(l, k) == [label |-> l, key |-> k]
DistinctKeys == {Rec("P", 1), Rec("P", 2), Rec("O", 3)}
SharedKeys == {Rec("P", 1), Rec("P", 2), Rec("O", 1)}

Link(t, n, k, l) == [type |-> t, id |-> n, col |-> <<k, l>>]

\* A parallel link, one to its own start, one of each pair and type.
MCLinks == {Link("A", 1, 1, 2), Link("A", 2, 1, 2), Link("A", 3, 2, 2),
            Link("A", 4, 2, 3), Link("B", 1, 1, 3)}
MCDatabases == {d \in SUBSET MCLinks : Cardinality(d) = 3} \cup {{}}

\* The one type there is joins P to O, with integer keys that both have.
IntegerEndpoints == [A |-> {Pair("P", "O", 1, 2)}, B |-> {Pair("P", "P", 1, 2)}]
IntegerDatabases == SUBSET {Link("A", 1, 1, 1), Link("A", 2, 2, 1), Link("B", 1, 1, 2)}

\* 99 stands for the LIMIT that is added to queries without one.
Asked(labels, types, dirs, ids, limits, returns) ==
  [labels : labels, types : types, dirs : dirs, ids : ids, limit : limits, skip : {0},
   returns : returns]

Selections == {<<>>, <<Rec("P", 2)>>, <<Rec("O", 3)>>, <<Rec("P", 1), Rec("P", 2)>>}
L == {"P", "O", NoLabel}

Alone == Asked({<<l>> : l \in L}, {<<>>}, {<<>>}, Selections, {1, 99}, {"graph", "scalar"})

OneHop ==
  Asked({<<l, NoLabel>> : l \in L} \cup {<<NoLabel, "O">>},
       {<<{}>>, <<{"A"}>>, <<{"B"}>>, <<{"A", "B"}>>},
       {<<"out">>, <<"in">>, <<"both">>}, Selections, {1, 99}, {"graph", "scalar"})

TwoHops ==
  Asked({<<"P", NoLabel, NoLabel>>, <<NoLabel, "P", "P">>, <<NoLabel, NoLabel, NoLabel>>},
       {<<{"A"}, {"A"}>>, <<{}, {"B"}>>},
       {<<"out", "out">>, <<"out", "in">>, <<"both", "both">>},
       {<<>>, <<Rec("P", 2)>>}, {3, 99}, {"graph"})

Counts ==
  Asked({<<l>> : l \in L}, {<<>>}, {<<>>}, {<<>>, <<Rec("P", 2)>>}, {99}, {"count"})
    \cup Asked({<<NoLabel, NoLabel>>, <<"P", NoLabel>>}, {<<{}>>, <<{"A"}>>, <<{"A", "B"}>>},
              {<<"out">>, <<"in">>, <<"both">>}, {<<>>, <<Rec("P", 2)>>}, {99}, {"count"})

MCPlans == Alone \cup OneHop \cup TwoHops \cup Counts

\* Nothing is open and nothing selected: one type, both labels.
LabelledPlans ==
  Asked({<<"P", l>> : l \in {"P", "O"}}, {<<{"A"}>>}, {<<"out">>}, {<<>>}, {99},
       {"graph", "scalar"})

\* Expand on two records of any labels.
ExpandPlans ==
  Asked({<<NoLabel, NoLabel>>}, {<<{}>>}, {<<"both">>},
       [1..2 -> SharedKeys], {99}, {"graph"})
=============================================================================
