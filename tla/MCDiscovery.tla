---------------------------- MODULE MCDiscovery ----------------------------
(***************************************************************************)
(* Two tables of records, a link by foreign keys, a link by _LinkEnd and a *)
(* table that is skipped; every way the foreign keys may point that        *)
(* classify tells apart, with keys missing or composite.                   *)
(***************************************************************************)
EXTENDS Discovery

MCTables == {"A", "B", "L", "M", "_S"}
MCRank == [A |-> 1, B |-> 2, L |-> 3, M |-> 4, _S |-> 5]

\* x is the id of a record that is no more.
MCIds == {"a", "b", "l", "m", "x"}
MCPrefix == [a |-> "PER", b |-> "ORG", l |-> "LNK", m |-> "MMM", x |-> "ORG"]

Held == [A |-> {"a"}, B |-> {"b"}, L |-> {"l"}, M |-> {"m"}, _S |-> {}]

\* The ends of M are what its columns refer to.
IdOf == [A |-> "a", B |-> "b", L |-> "l", M |-> "m", _S |-> "x"]
RowsOf(refs) == IF Len(refs) = 2 THEN {[i \in Ends |-> IdOf[refs[i]]]} ELSE {}

MCDatabases ==
  {[keys |-> [A |-> 1, B |-> k, L |-> kl, M |-> km, _S |-> 1],
    refs |-> [A |-> ra, B |-> <<>>, L |-> <<>>, M |-> rm, _S |-> <<>>],
    link_end |-> le,
    named |-> named,
    ids |-> IF "L" \in named \/ le = "absent" THEN [Held EXCEPT !.B = ib]
            ELSE [Held EXCEPT !.B = ib, !.L = {}],
    links |-> [A |-> {}, B |-> {}, L |-> IF "L" \in named THEN ends ELSE {},
               M |-> RowsOf(rm), _S |-> {}]] :
     k \in 0..2, kl \in {1, 2}, km \in {0, 1},
     ra \in {<<>>, <<"M">>},
     rm \in {<<>>, <<"A">>, <<"A", "A">>, <<"A", "B">>, <<"A", "L">>, <<"A", "B", "L">>},
     le \in LinkEndKinds,
     named \in {{}, {"L"}, {"L", "M"}},
     ib \in {{"b"}, {"b", "a"}},
     ends \in {{<<"a", "b">>}, {<<"a", "b">>, <<"b", "a">>}, {<<"a", "x">>}, {<<"x", "a">>, <<"a", "b">>}}}
=============================================================================
