----------------------------- MODULE BoundedPool -----------------------------
(***************************************************************************)
(* What a connection pool promises its callers: of those that ask, at most *)
(* PoolSize have a connection at a time; one that asks is granted one or   *)
(* turned away; whoever has one gives it up again.                         *)
(***************************************************************************)
EXTENDS Naturals, FiniteSets

CONSTANTS Threads, PoolSize

VARIABLE state

Using == {t \in Threads : state[t] = "using"}

Init == state = [t \in Threads |-> "out"]

Ask(t) == /\ state[t] = "out"
          /\ state' = [state EXCEPT ![t] = "asking"]

Grant(t) == /\ state[t] \in {"out", "asking"}
            /\ Cardinality(Using) < PoolSize
            /\ state' = [state EXCEPT ![t] = "using"]

Deny(t) == /\ state[t] = "asking"
           /\ state' = [state EXCEPT ![t] = "out"]

Return(t) == /\ state[t] = "using"
             /\ state' = [state EXCEPT ![t] = "out"]

Next == \E t \in Threads : Ask(t) \/ Grant(t) \/ Deny(t) \/ Return(t)

Spec == Init /\ [][Next]_state
=============================================================================
