------------------------------ MODULE MCNodeIds ------------------------------
(* Constants for model-checking NodeIds.                                   *)
EXTENDS NodeIds, TLC

\* Two node labels and a link type.
MCNames == {"Person", "Vehicle", "Owns"}

Other(i) == [kind |-> "other", prefix |-> "", width |-> 0, num |-> i]

\* JS_SAFE_INT is 19 here, so the registry starts at 9.
MCSafeInt == 19

\* A small integer, the largest one below the registry, and one that must be
\* remembered; suffixed keys of the sampled form and of another width; keys
\* that are neither.
MCRowKeys ==
  "Person" :> {IntKey(0), IntKey(8), IntKey(-1)}
  @@ "Vehicle" :> {TextKey("VEH", 2, 7), TextKey("VEH", 1, 7)}
  @@ "Owns" :> {Other(1), Other(2)}
MCKeys == UNION {MCRowKeys[n] : n \in MCNames}
MCIntegerKeyed == {"Person"}
MCSamples == "Person" :> {} @@ "Vehicle" :> {TextKey("VEH", 2, 7)}
             @@ "Owns" :> {Other(2)}

\* BridgeState.reload passes no samples.
NoSamples == [n \in MCNames |-> {}]

Map(l, r) == [labels |-> l, rels |-> r]
MCMappings == {Map(<<"Person", "Vehicle">>, <<"Owns">>),
               Map(<<"Person">>, <<"Owns">>),
               Map(<<"Vehicle", "Person">>, <<>>)}
=============================================================================
