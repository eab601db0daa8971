-------------------------- MODULE CredentialRecords --------------------------
(***************************************************************************)
(* The table of credentials, its three writers and its three readers.      *)
(* CredentialsService, DatabaseService and CredentialVerificationService   *)
(* each decide what "revoked" and "valid" mean, from different columns:    *)
(* status, is_active and revoked_at.                                       *)
(*                                                                         *)
(* Every operation is one SQL statement, so it is one step; the hazard is  *)
(* in their sequence.  An answer that is lost, or a statement that fails,  *)
(* leaves a state the other operations cannot tell from those modelled.    *)
(***************************************************************************)
EXTENDS Naturals

CONSTANTS
  Credential,
  Uuid,        \* those whose id is a UUID: the default is a cuid
  Structured,  \* those whose data has the structure of an Open Badge credential
  Proven,      \* those with a proof
  KnownProof,  \* those whose proof is of a type the verification service knows
  Addressed,   \* those whose data names the recipient of the row
  Expiring,    \* those with an expiry date
  NoId         \* what a JWT or a document without an identifier names

ASSUME KindsAssumption ==
  /\ Uuid \subseteq Credential /\ Structured \subseteq Credential
  /\ KnownProof \subseteq Proven /\ Proven \subseteq Credential
  /\ Addressed \subseteq Credential /\ Expiring \subseteq Credential
  /\ NoId \notin Credential

CredentialStatus == {"active", "expired", "revoked", "suspended"}

VARIABLES
  recorded,    \* credentials with a row
  status, isActive,
  revokedAt,   \* credentials whose revoked_at is set
  expiry,      \* where the clock is, seen from the expiry date of each
  latest,      \* history: the status last asked of a writer
  everRevoked, \* history: credentials revoked by a writer, or stored with a date
  askew        \* history: stored with columns that disagree, not written since

recordVars == <<recorded, status, isActive, revokedAt, expiry, latest, everRevoked, askew>>

-----------------------------------------------------------------------------
RecordsTypeOK ==
  /\ recorded \subseteq Credential
  /\ status \in [Credential -> CredentialStatus]
  /\ isActive \in [Credential -> BOOLEAN]
  /\ revokedAt \subseteq recorded
  /\ expiry \in [Credential -> {"ahead", "now", "past"}]
  /\ latest \in [Credential -> CredentialStatus]
  /\ everRevoked \subseteq recorded
  /\ askew \subseteq recorded

RecordsInit ==
  /\ recorded = {} /\ revokedAt = {} /\ everRevoked = {} /\ askew = {}
  /\ expiry = [k \in Credential |-> "ahead"]
  /\ status = [k \in Credential |-> "active"]
  /\ isActive = [k \in Credential |-> TRUE]
  /\ latest = [k \in Credential |-> "active"]

(* Both inserts take the columns from their caller, who may name a status   *)
(* and a date of revocation; createCredential of DatabaseService also the   *)
(* flag and an id, so only it makes UUIDs.  What is not named has the       *)
(* default of the table.                                                    *)
Agree(s, active, dated) == (s = "active" => active) /\ (s = "revoked" => dated)
Inserts(k, s, active, dated) ==
  /\ k \notin recorded
  /\ recorded' = recorded \cup {k}
  /\ status' = [status EXCEPT ![k] = s]
  /\ isActive' = [isActive EXCEPT ![k] = active]
  /\ revokedAt' = IF dated THEN revokedAt \cup {k} ELSE revokedAt
  /\ latest' = [latest EXCEPT ![k] = s]
  /\ everRevoked' = IF dated THEN everRevoked \cup {k} ELSE everRevoked
  /\ askew' = IF Agree(s, active, dated) THEN askew ELSE askew \cup {k}
  /\ UNCHANGED expiry
storeCredential(k, s, dated) == k \notin Uuid /\ Inserts(k, s, TRUE, dated)
createCredentialRow(k, s, active, dated) == Inserts(k, s, active, dated)

(* What every writer does to the row of k: the columns it sets.             *)
Writes(k, s, active, dated) ==
  /\ k \in recorded
  /\ status' = [status EXCEPT ![k] = s]
  /\ isActive' = [isActive EXCEPT ![k] = active]
  /\ revokedAt' = IF dated THEN revokedAt \cup {k} ELSE revokedAt
  /\ latest' = [latest EXCEPT ![k] = s]
  /\ everRevoked' = IF s = "revoked" THEN everRevoked \cup {k} ELSE everRevoked
  /\ askew' = askew \ {k}
  /\ UNCHANGED <<recorded, expiry>>

(* CredentialsService: an expired credential keeps its flag.                *)
updateCredentialStatus(k, s) ==
  Writes(k, s, CASE s \in {"revoked", "suspended"} -> FALSE
                 [] s = "active" -> TRUE
                 [] s = "expired" -> isActive[k], s = "revoked")

(* Variant that would be a bug: a credential that is made active again      *)
(* loses the date of its revocation.                                        *)
setCredentialStatus_ClearsDate(k, s) ==
  /\ k \in recorded
  /\ status' = [status EXCEPT ![k] = s]
  /\ isActive' = [isActive EXCEPT ![k] = s = "active"]
  /\ revokedAt' = IF s = "revoked" THEN revokedAt \cup {k} ELSE revokedAt \ {k}
  /\ latest' = [latest EXCEPT ![k] = s]
  /\ everRevoked' = IF s = "revoked" THEN everRevoked \cup {k} ELSE everRevoked
  /\ askew' = askew \ {k}
  /\ UNCHANGED <<recorded, expiry>>

(* DatabaseService.updateCredentialStatus, which its revokeCredential calls *)
setCredentialStatus(k, s) == Writes(k, s, s = "active", s = "revoked")

(* Variant that would be a bug: the date is forgotten.                      *)
SetRevoked_NoDate(k) == k \in Uuid /\ Writes(k, "revoked", FALSE, FALSE)

(* CredentialVerificationService.revokeCredential                           *)
SetRevoked(k) == k \in Uuid /\ Writes(k, "revoked", FALSE, TRUE)

(* POST /verify/credentials/revoke: for an issuer owner, and without effect *)
(* (an error is answered) where the service finds no row.                   *)
revokeCredential(k) == SetRevoked(k)

Expires(k) ==
  /\ k \in Expiring /\ expiry[k] # "past"
  /\ expiry' = [expiry EXCEPT ![k] = IF @ = "ahead" THEN "now" ELSE "past"]
  /\ UNCHANGED <<recorded, status, isActive, revokedAt, latest, everRevoked, askew>>

RecordsNext ==
  \E k \in Credential :
    \/ \E s \in CredentialStatus, active \in BOOLEAN, dated \in BOOLEAN :
         storeCredential(k, s, dated) \/ createCredentialRow(k, s, active, dated)
    \/ \E s \in CredentialStatus : updateCredentialStatus(k, s) \/ setCredentialStatus(k, s)
    \/ revokeCredential(k)
    \/ Expires(k)

RecordsSpec == RecordsInit /\ [][RecordsNext]_recordVars

-----------------------------------------------------------------------------
(* The readers: isCredentialRevoked and verifyCredential of each service.   *)
(* For a credential without a row the first throws, the others answer       *)
(* "revoked", and none calls it valid.                                      *)

RevokedForCredentials(k) == k \in revokedAt \/ status[k] = "revoked"

(* At the very moment of the expiry this service still calls it valid; it   *)
(* asks for a proof and looks neither at the data nor at status.            *)
ValidForCredentials(k) ==
  k \in recorded \ revokedAt /\ expiry[k] # "past" /\ k \in Proven

RevokedForDatabase(k) == k \notin recorded \/ status[k] # "active" \/ ~isActive[k]
ValidForDatabase(k) ==
  /\ k \in recorded /\ status[k] = "active" /\ isActive[k]
  /\ expiry[k] = "ahead" /\ k \in Structured

(* Variant that would be a bug: the check of the flag alone.                *)
RevokedForVerification_FlagOnly(k) == k \notin Uuid \/ k \notin recorded \/ ~isActive[k]
RevokedForVerification(k) ==
  k \notin Uuid \/ k \notin recorded \/ status[k] # "active" \/ ~isActive[k]

(* The checks of a proof are placeholders that pass for every known type.   *)
SignatureCheck(k) == k \in KnownProof
verifyRecipientIdentifier(k) == k \in Addressed
ValidForVerification(k) ==
  /\ k \in Uuid \cap recorded
  /\ status[k] = "active" /\ isActive[k]
  /\ expiry[k] = "ahead" /\ k \in Structured
  /\ SignatureCheck(k) /\ verifyRecipientIdentifier(k)

(* A JWT is verified by its jti, a document by the last part of its id.     *)
ValidByJwt(jti) == jti # NoId /\ ValidForVerification(jti)
ValidByDocument(id) == id # NoId /\ ValidForVerification(id)

(* What the API answers to each kind of request.                            *)
verifyCredential(k) == [valid |-> ValidForVerification(k)]
verifyCredentialJwt(jti) == [valid |-> ValidByJwt(jti)]
verifyCredentialLd(id) == [valid |-> ValidByDocument(id)]
checkCredentialStatus(k) == [isRevoked |-> RevokedForVerification(k)]

-----------------------------------------------------------------------------
(* What "revoked" means to the readers, after any sequence of changes: to   *)
(* one that it has ever been revoked, to the others that it is not active   *)
(* now.  They disagree on two kinds of credential and no other: suspended   *)
(* or expired ones that were never revoked, and those revoked and made      *)
(* active again.  The verification service calls revoked what has no UUID.  *)
(* The exceptions are rows stored with columns that disagree, which none of *)
(* the inserts refuses, until a writer sets them.                           *)
ReadersOfRevocation ==
  \A k \in recorded \ askew :
    /\ RevokedForCredentials(k) <=> k \in everRevoked
    /\ RevokedForDatabase(k) <=> latest[k] # "active"
    /\ checkCredentialStatus(k).isRevoked <=> k \notin Uuid \/ latest[k] # "active"

(* No service calls valid what it calls revoked.  What the verification     *)
(* service verifies, however the request names it, the database service     *)
(* verifies too, and the credentials service unless it was revoked once.    *)
(* The converse fails: what is suspended stays valid for the latter.  Rows  *)
(* stored with columns that disagree are excepted here too.                 *)
ValidIsNotRevoked ==
  \A k \in (Credential \cup {NoId}) \ askew :
    /\ ValidForCredentials(k) => ~RevokedForCredentials(k)
    /\ ValidForDatabase(k) => ~RevokedForDatabase(k)
    /\ (\E answer \in {verifyCredential(k), verifyCredentialJwt(k), verifyCredentialLd(k)} :
          answer.valid) =>
         /\ ~checkCredentialStatus(k).isRevoked
         /\ ValidForDatabase(k)
         /\ ValidForCredentials(k) \/ k \in everRevoked

(* What the credentials service once called revoked it calls so for ever:   *)
(* no writer, whatever it is asked, takes the date back.  A row stored as   *)
(* revoked without a date is excepted: the first writer makes it forgotten. *)
RevocationIsRemembered ==
  [][\A k \in recorded \ askew : RevokedForCredentials(k) => RevokedForCredentials(k)']_recordVars
=============================================================================
