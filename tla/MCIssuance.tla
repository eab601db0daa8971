------------------------------ MODULE MCIssuance ------------------------------
(* Instances of Issuance for TLC: two assertions of one issuer, one of      *)
(* another.                                                                 *)
EXTENDS Issuance, TLC

CONSTANTS a1, a2, a3, i1, i2

Issuers == a1 :> i1 @@ a2 :> i1 @@ a3 :> i2
Symmetry == Permutations(Call) \cup Permutations(Key)
=============================================================================
