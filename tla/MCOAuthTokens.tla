---------------------------- MODULE MCOAuthTokens ----------------------------
(* Instances of OAuthTokens for TLC. *)
EXTENDS OAuthTokens, TLC

Symmetry == Permutations(Token) \cup Permutations(Call) \cup Permutations(Code)
=============================================================================
