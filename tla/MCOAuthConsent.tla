---------------------------- MODULE MCOAuthConsent ----------------------------
(* Instances of OAuthConsent for TLC. *)
EXTENDS OAuthConsent, TLC

Symmetry == Permutations(User) \cup Permutations(Call)
=============================================================================
