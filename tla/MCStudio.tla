------------------------------ MODULE MCStudio ------------------------------
(* Constants for model-checking Studio: two record types and one link.     *)
EXTENDS Studio, TLC

MCTables == <<"A", "B">>
MCLinks == <<"L">>
MCJoins == "L" :> <<"A", "B">>

\* "X" may be typed for a record and for the link, which is a clash; "N N" is
\* no identifier.
MCNames == {"A", "B", "L", "X", "N N"}
MCIdentifiers == {"A", "B", "L", "X"}
MCNodeNames == "A" :> {"X", "N N"} @@ "B" :> {}
MCLinkNames == "L" :> {"X"}

\* What discovery wrote.
MCFirstMapping == ToMapping(Discovered)

\* Records that take each other's names.
TakenNames == "A" :> {"B"} @@ "B" :> {"X"}
=============================================================================
