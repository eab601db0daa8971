------------------------------ MODULE MCSignIn ------------------------------
(* Instances of SignIn for TLC. *)
EXTENDS SignIn, TLC

Symmetry == Permutations(Password) \cup Permutations(Token) \cup Permutations(CodeRow)
              \cup Permutations(Client) \cup Permutations(Call)
=============================================================================
