---------------------------- MODULE MCStatusList ----------------------------
(* Instances of StatusList for TLC: assertions are 1 .. n.                  *)
EXTENDS StatusList, FiniteSets, TLC

(* The last assertion belongs to a second issuer.                           *)
Split == [a \in Assertion |-> IF a = Cardinality(Assertion) THEN 2 ELSE 1]

(* Distinct positions; or one position for assertions 1 and 2 of the first  *)
(* issuer, and for the one of the second.                                   *)
Distinct == [a \in Assertion |-> a]
Colliding == [a \in Assertion |-> IF a = 3 THEN 2 ELSE 1]

Handlers == Permutations(Call)
=============================================================================
