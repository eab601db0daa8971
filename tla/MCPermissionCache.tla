-------------------------- MODULE MCPermissionCache --------------------------
(* Instances of PermissionCache for TLC. *)
EXTENDS PermissionCache, TLC

Symmetry == Permutations(User) \cup Permutations(Role) \cup Permutations(Perm)
              \cup Permutations(Call)
=============================================================================
