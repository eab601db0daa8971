------------------------------- MODULE Issuance -------------------------------
(***************************************************************************)
(* Open Badges 3.0 credentials made from assertions: the signing keys of   *)
(* the issuers, made on first use; the handlers of assertions that answer  *)
(* with a credential, which CredentialService makes from the row as it     *)
(* reads it again; and the verification of assertions.                     *)
(*                                                                         *)
(* Credentials are not stored: each request makes and signs its own, and   *)
(* the reader who holds it verifies it later.  Handlers that await are     *)
(* slots of Call; one SQL statement is one step, with the synchronous code *)
(* that follows it.  The rows of badge classes and profiles that the       *)
(* credential is filled from are the subject of Catalogue: here they only  *)
(* make a handler fail.  A request for the 2.0 format that changes nothing *)
(* is left out.                                                            *)
(***************************************************************************)
EXTENDS Naturals

CONSTANTS
  Assertion, Issuer,
  IssuerOf,   \* issuer_id of an assertion
  WellFormed, \* those whose document has the structure of 2.0: the badge class
              \* that createAssertion puts into it came back as an object
  Key,        \* key pairs; each is generated once
  Call

ASSUME IssuersAssumption == IssuerOf \in [Assertion -> Issuer]
ASSUME WellFormedAssumption == WellFormed \subseteq Assertion

VARIABLES
  stored,      \* assertions with a row in badge_assertions
  revoked,     \* rows whose revoked column is set
  keys,        \* the key pairs of each issuer in signing_keys
  call,
  signedWith,  \* history: keys that have signed credentials of an issuer
  raced,       \* history: issuers for whom two handlers found no key
  disowned,    \* history: assertions that were ever revoked
  reinstated   \* history: assertions whose revoked column was cleared again

rows == <<stored, revoked, keys>>
notes == <<signedWith, raced, disowned, reinstated>>
vars == <<rows, call, notes>>

-----------------------------------------------------------------------------
Idle == [at |-> "idle"]

(* What a verdict on an assertion may hold against it; it is valid if       *)
(* nothing does.                                                            *)
Errors == SUBSET {"revoked", "structure", "failed"}

(* row: the revoked column in the row that the reply carries beside the     *)
(* credential; entry: the credential has a credentialStatus; before: the    *)
(* assertion was revoked when the verification began.                       *)
CallState ==
  [at : {"idle"}]
    \cup [at : {"ensure", "generate", "convert"}, assertion : Assertion, row : BOOLEAN]
    \cup [at : {"achieve", "sign", "reply"}, assertion : Assertion, row : BOOLEAN, entry : BOOLEAN]
    \cup [at : {"verify"}, assertion : Assertion, before : BOOLEAN]
    \cup [at : {"verdict"}, assertion : Assertion, before : BOOLEAN, errors : Errors]

TypeOK ==
  /\ stored \subseteq Assertion
  /\ revoked \subseteq stored
  /\ keys \in [Issuer -> SUBSET Key]
  /\ call \in [Call -> CallState]
  /\ signedWith \in [Issuer -> SUBSET Key]
  /\ raced \subseteq Issuer
  /\ disowned \subseteq stored
  /\ reinstated \subseteq stored

Init ==
  /\ stored = {} /\ revoked = {}
  /\ keys = [i \in Issuer |-> {}]
  /\ call = [c \in Call |-> Idle]
  /\ signedWith = [i \in Issuer |-> {}]
  /\ raced = {} /\ disowned = {} /\ reinstated = {}

At(c, where) == call[c].at = where
Goes(c, s) == call' = [call EXCEPT ![c] = s]
issuer(c) == IssuerOf[call[c].assertion]

-----------------------------------------------------------------------------
(* POST /assertions: the row, and for the 3.0 format the key and the        *)
(* credential after it.                                                     *)
createAssertion(c, a, ob3) ==
  /\ At(c, "idle") /\ a \notin stored
  /\ stored' = stored \cup {a}
  /\ IF ob3 THEN Goes(c, [at |-> "ensure", assertion |-> a, row |-> FALSE])
            ELSE UNCHANGED call
  /\ UNCHANGED <<revoked, keys, notes>>

(* Variant that would be a bug: a key pair is made whether or not there is  *)
(* one.                                                                     *)
ensureIssuerKeyExists_Always(c) ==
  /\ At(c, "ensure")
  /\ Goes(c, [call[c] EXCEPT !.at = "generate"])
  /\ UNCHANGED <<rows, notes>>

(* What the lookup of a key may return: any row of the issuer.              *)
getSigningKey(i) == keys[i]

(* Look for a key pair; if there is none, make one.                         *)
Generating(c, i) == At(c, "generate") /\ issuer(c) = i
ensureIssuerKeyExists(c) ==
  /\ At(c, "ensure")
  /\ Goes(c, [call[c] EXCEPT !.at =
       IF getSigningKey(issuer(c)) = {} THEN "generate" ELSE "convert"])
  /\ raced' = IF getSigningKey(issuer(c)) = {} /\ \E d \in Call : Generating(d, issuer(c))
              THEN raced \cup {issuer(c)} ELSE raced
  /\ UNCHANGED <<rows, signedWith, disowned, reinstated>>

generateSigningKey(c, k) ==
  /\ At(c, "generate")
  /\ \A i \in Issuer : k \notin keys[i]
  /\ keys' = [keys EXCEPT ![issuer(c)] = @ \cup {k}]
  /\ Goes(c, [call[c] EXCEPT !.at = "convert"])
  /\ UNCHANGED <<stored, revoked, notes>>

(* A row is read, and converted after that; no key is made here.            *)
Converts(c, a) ==
  /\ At(c, "idle") /\ a \in stored
  /\ Goes(c, [at |-> "convert", assertion |-> a, row |-> a \in revoked])
  /\ UNCHANGED <<rows, notes>>

(* GET /assertions/:id, and GET /assertions, which converts the rows it     *)
(* finds side by side: a slot of Call stands for one of them.               *)
getAssertion(c, a) == Converts(c, a)
listAssertions(c, a) == Converts(c, a)

(* POST /assertions/:id/revoke: the column, and for the 3.0 format the      *)
(* credential.  The query before finds the row, and rows are not deleted.   *)
revokeAssertion(c, a, ob3) ==
  /\ At(c, "idle") /\ a \in stored
  /\ revoked' = revoked \cup {a}
  /\ disowned' = disowned \cup {a}
  /\ IF ob3 THEN Goes(c, [at |-> "convert", assertion |-> a, row |-> TRUE])
            ELSE UNCHANGED call
  /\ UNCHANGED <<stored, keys, signedWith, raced, reinstated>>

(* The last statement of updateCredentialRevocationStatus.  What it does    *)
(* before, to the status list, is the subject of StatusList.                *)
updateCredentialRevocationStatus(a, rev) ==
  /\ a \in stored
  /\ revoked' = IF rev THEN revoked \cup {a} ELSE revoked \ {a}
  /\ disowned' = IF rev THEN disowned \cup {a} ELSE disowned
  /\ reinstated' = IF rev THEN reinstated ELSE reinstated \cup {a}
  /\ UNCHANGED <<stored, keys, call, signedWith, raced>>

(* Variant that would be a bug: the credential never gets a status.         *)
createCredential_NoStatus(c) ==
  /\ At(c, "convert")
  /\ Goes(c, [at |-> "achieve", assertion |-> call[c].assertion, row |-> call[c].row,
              entry |-> FALSE])
  /\ UNCHANGED <<rows, notes>>

(* createCredential reads the assertion again and puts a status entry into  *)
(* the credential if it is revoked now.                                     *)
createCredential(c) ==
  /\ At(c, "convert")
  /\ Goes(c, [at |-> "achieve", assertion |-> call[c].assertion, row |-> call[c].row,
              entry |-> call[c].assertion \in revoked])
  /\ UNCHANGED <<rows, notes>>

(* The badge class and its issuer are read; without them the handler ends.  *)
createAchievement(c) ==
  /\ At(c, "achieve")
  /\ Goes(c, [call[c] EXCEPT !.at = "sign"])
  /\ UNCHANGED <<rows, notes>>

signCredential(c, k) ==
  /\ At(c, "sign") /\ k \in getSigningKey(issuer(c))
  /\ signedWith' = [signedWith EXCEPT ![issuer(c)] = @ \cup {k}]
  /\ Goes(c, [call[c] EXCEPT !.at = "reply"])
  /\ UNCHANGED <<rows, raced, disowned, reinstated>>

(* verifyAssertion reads the row to tell the format of the document, ...    *)
verifyAssertion(c, a) ==
  /\ At(c, "idle") /\ a \in stored
  /\ Goes(c, [at |-> "verify", assertion |-> a, before |-> a \in revoked])
  /\ UNCHANGED <<rows, notes>>

(* Of a document presented as JSON, only the id is looked at.               *)
verifyBadgeJson(c, a) == verifyAssertion(c, a)

Answers(c, errors) ==
  /\ Goes(c, [at |-> "verdict", assertion |-> call[c].assertion, before |-> call[c].before,
              errors |-> errors])
  /\ UNCHANGED <<rows, notes>>

(* Variant that would be a bug: the structure of the document is checked,   *)
(* the column is not.                                                       *)
verifyOB2Assertion_StructureOnly(c) ==
  /\ At(c, "verify")
  /\ Answers(c, IF call[c].assertion \in WellFormed THEN {} ELSE {"structure"})

(* ... and verifyOB2Assertion, which it calls for all documents that        *)
(* createAssertion stores, reads it again to tell whether it is revoked.    *)
verifyOB2Assertion(c) ==
  LET a == call[c].assertion IN
  /\ At(c, "verify")
  /\ Answers(c, (IF a \in revoked THEN {"revoked"} ELSE {})
                  \cup (IF a \in WellFormed THEN {} ELSE {"structure"}))

(* If that query fails, the assertion is not valid, and nothing is said of  *)
(* a revocation.                                                            *)
verifyOB2AssertionFails(c) == At(c, "verify") /\ Answers(c, {"failed"})

-----------------------------------------------------------------------------
(* The answer is sent, or a statement fails, or the issuer has no key, or   *)
(* a row the credential is filled from is gone.                             *)
Ends(c) ==
  /\ call[c].at \notin {"idle", "verify"}
  /\ Goes(c, Idle)
  /\ UNCHANGED <<rows, notes>>

Restart ==
  /\ call' = [c \in Call |-> Idle]
  /\ UNCHANGED <<rows, notes>>

Step(c) ==
  \/ \E a \in Assertion, ob3 \in BOOLEAN : createAssertion(c, a, ob3) \/ revokeAssertion(c, a, ob3)
  \/ ensureIssuerKeyExists(c)
  \/ \E k \in Key : generateSigningKey(c, k) \/ signCredential(c, k)
  \/ \E a \in Assertion : getAssertion(c, a) \/ listAssertions(c, a)
  \/ \E a \in Assertion : verifyAssertion(c, a) \/ verifyBadgeJson(c, a)
  \/ createCredential(c) \/ createAchievement(c)
  \/ verifyOB2Assertion(c) \/ verifyOB2AssertionFails(c)
  \/ Ends(c)

Next ==
  \/ \E c \in Call : Step(c)
  \/ \E a \in Assertion, rev \in BOOLEAN : updateCredentialRevocationStatus(a, rev)
  \/ Restart

Spec == Init /\ [][Next]_vars

-----------------------------------------------------------------------------
(* verifySignature looks up a key of the issuer, and does not look at the   *)
(* verification method of the proof: what it may answer for a credential    *)
(* signed with key k.  If the query fails, or finds no key, that is FALSE.  *)
verifySignature(i, k, fails) ==
  IF fails \/ getSigningKey(i) = {} THEN {FALSE} ELSE {k = other : other \in getSigningKey(i)}

(* A credential of an issuer verifies for ever, whenever it was made, and   *)
(* whoever made the first of them, if the key can be queried, unless two    *)
(* handlers both found that the issuer had no key: then each inserts one,   *)
(* and the answer may change from one request to the next.                  *)
CredentialsVerify ==
  \A i \in Issuer : \A k \in signedWith[i] :
    /\ TRUE \in verifySignature(i, k, FALSE)
    /\ i \notin raced => FALSE \notin verifySignature(i, k, FALSE)

(* The credential in a reply is never behind the row in the same reply:     *)
(* once a request has read or set the column, the credential it returns     *)
(* carries the status entry, however long signing takes.  It may be ahead   *)
(* of it.  The exception is an assertion that was reinstated.               *)
ReplyNotBehindRow ==
  \A c \in Call :
    At(c, "reply") /\ call[c].assertion \notin reinstated /\ call[c].row => call[c].entry

(* In spite of the two reads, a verification that begins when the assertion *)
(* is revoked says so, whatever else it says, unless its query failed, and  *)
(* then it does not find the assertion valid; and only of an assertion that *)
(* has been revoked does it say so.  The exception is an assertion that was *)
(* reinstated meanwhile.                                                    *)
VerdictsAreTimely ==
  \A c \in Call : At(c, "verdict") =>
    /\ call[c].assertion \notin reinstated /\ call[c].before =>
         call[c].errors \cap {"revoked", "failed"} # {}
    /\ "revoked" \in call[c].errors => call[c].assertion \in disowned
=============================================================================
