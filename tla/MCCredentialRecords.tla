-------------------------- MODULE MCCredentialRecords --------------------------
(* Instances of CredentialRecords for TLC. *)
EXTENDS CredentialRecords
=============================================================================
