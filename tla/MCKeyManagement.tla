--------------------------- MODULE MCKeyManagement ---------------------------
(* Instances of KeyManagement for TLC. *)
EXTENDS KeyManagement, TLC

Symmetry == Permutations(Key) \cup Permutations(Call)
=============================================================================
