------------------------------ MODULE StatusList ------------------------------
(***************************************************************************)
(* Revocation: the rows of badge_assertions with their revoked flag, and   *)
(* the StatusList2021 credentials of status_lists, which the credential    *)
(* service reads, changes in memory, signs again and writes back.          *)
(*                                                                         *)
(* Handlers that await are slots of Call.  One SQL statement is one step;  *)
(* the synchronous code after it is part of the step, signing included (it *)
(* depends on nothing that changes).                                       *)
(***************************************************************************)
EXTENDS Naturals

CONSTANTS
  Assertion, Issuer, Index,   \* Index: positions of the encoded list
  IssuerOf,                   \* the issuer of the badge of an assertion
  IndexOf,                    \* getIndexFromUuid: not injective in general
  Call,                       \* slots for handlers in progress
  MaxUpdates                  \* bound: calls of updateCredentialRevocationStatus

ASSUME ConstantsAssumption ==
  /\ IssuerOf \in [Assertion -> Issuer]
  /\ IndexOf \in [Assertion -> Index]
  /\ MaxUpdates \in Nat

VARIABLES
  issued,     \* assertions with a row in badge_assertions
  revoked,    \* the revoked column of the row
  lists,      \* contents of the rows of status_lists, by issuer
  call,
  updates,    \* number of updates begun (bounds the model)
  history,    \* ghost: what has happened to each assertion
  overlapped  \* ghost: issuers whose list two handlers have had in hand at once

vars == <<issued, revoked, lists, call, updates, history, overlapped>>

-----------------------------------------------------------------------------
(* A stored list: the positions that are 1, and whether the signed bytes    *)
(* included an earlier proof.  Rows of one issuer with the same content     *)
(* cannot be told apart by any statement of the code, so a set will do.     *)
List == [bits : SUBSET Index, overProof : BOOLEAN]

(* createStatusListCredential has no proof; what is read back or returned   *)
(* by createOrUpdateStatusList has one, and signCredential copies it into   *)
(* the document it signs.                                                   *)
NewList == [bits |-> {}, overProof |-> FALSE]
Resigned(bits) == [bits |-> bits, overProof |-> TRUE]

(* verifySignature removes the proof before it checks the signature.  The   *)
(* column is jsonb, which need not give keys back in the order in which     *)
(* they were signed; the model keeps their order, so a list that it calls   *)
(* unverifiable is so in any order, and the others only if order is kept.   *)
verifySignature(list) == ~list.overProof

(* Variants of updateCredentialStatus that would be bugs: the next          *)
(* position; the two branches swapped; the other positions lost.            *)
updateCredentialStatus_OffByOne(bits, index, rev) ==
  IF rev THEN bits \cup {index + 1} ELSE bits \ {index + 1}
updateCredentialStatus_Swapped(bits, index, rev) ==
  IF rev THEN bits \ {index} ELSE bits \cup {index}
updateCredentialStatus_Forgets(bits, index, rev) ==
  IF rev THEN {index} ELSE bits \ {index}

(* updateCredentialStatus: set or clear one bit.                            *)
updateCredentialStatus(bits, index, rev) ==
  IF rev THEN bits \cup {index} ELSE bits \ {index}

Idle == [at |-> "idle"]
CallState ==
  [at : {"idle"}]
    \cup [at : {"getCreate", "getInsert"}, issuer : Issuer]
    \cup [at : {"updCreate", "updInsert", "updMark"}, assertion : Assertion, rev : BOOLEAN]
    \cup [at : {"updWrite"}, assertion : Assertion, rev : BOOLEAN, bits : SUBSET Index]

Event == {"asked", "published", "reinstated", "revokedByApi"}

TypeOK ==
  /\ issued \subseteq Assertion
  /\ revoked \in [Assertion -> BOOLEAN]
  /\ lists \in [Issuer -> SUBSET List]
  /\ call \in [Call -> CallState]
  /\ updates \in 0 .. MaxUpdates
  /\ history \in [Assertion -> SUBSET Event]
  /\ overlapped \subseteq Issuer

-----------------------------------------------------------------------------
Init ==
  /\ issued = {}
  /\ revoked = [a \in Assertion |-> FALSE]
  /\ lists = [i \in Issuer |-> {}]
  /\ call = [c \in Call |-> Idle]
  /\ updates = 0
  /\ history = [a \in Assertion |-> {}]
  /\ overlapped = {}

createAssertion(a) ==
  /\ a \notin issued
  /\ issued' = issued \cup {a}
  /\ UNCHANGED <<revoked, lists, call, updates, history, overlapped>>

(* POST /assertions/:id/revoke sets the column and nothing else.            *)
revokeAssertion(a) ==
  /\ a \in issued
  /\ revoked' = [revoked EXCEPT ![a] = TRUE]
  /\ history' = [history EXCEPT ![a] = @ \cup {"revokedByApi"}]
  /\ UNCHANGED <<issued, lists, call, updates, overlapped>>

(* The handler will write the list of the issuer, from what it has read.    *)
Holds(c, i) ==
  \/ call[c].at = "getInsert" /\ call[c].issuer = i
  \/ call[c].at \in {"updInsert", "updWrite"} /\ IssuerOf[call[c].assertion] = i
Takes(c, i) ==
  overlapped' = IF \E d \in Call \ {c} : Holds(d, i)
                THEN overlapped \cup {i} ELSE overlapped

(* GET /status/list/:issuerId when it finds no list.  Finding one changes   *)
(* nothing.                                                                 *)
getStatusList(c, i) ==
  /\ call[c].at = "idle"
  /\ lists[i] = {}
  /\ call' = [call EXCEPT ![c] = [at |-> "getCreate", issuer |-> i]]
  /\ UNCHANGED <<issued, revoked, lists, updates, history, overlapped>>

(* createOrUpdateStatusList for that route: select, then sign and insert.   *)
GetSelects(c) ==
  LET i == call[c].issuer IN
  /\ call[c].at = "getCreate"
  /\ \/ /\ lists[i] = {}
        /\ call' = [call EXCEPT ![c] = [at |-> "getInsert", issuer |-> i]]
        /\ Takes(c, i)
     \/ /\ lists[i] # {}
        /\ call' = [call EXCEPT ![c] = Idle]
        /\ UNCHANGED overlapped
  /\ UNCHANGED <<issued, revoked, lists, updates, history>>

GetInserts(c) ==
  /\ call[c].at = "getInsert"
  /\ lists' = [lists EXCEPT ![call[c].issuer] = @ \cup {NewList}]
  /\ call' = [call EXCEPT ![c] = Idle]
  /\ UNCHANGED <<issued, revoked, updates, history, overlapped>>

(* The list in hand has these bits: change the one of the assertion.        *)
Changing(s, bits) ==
  [at |-> "updWrite", assertion |-> s.assertion, rev |-> s.rev,
   bits |-> updateCredentialStatus(bits, IndexOf[s.assertion], s.rev)]

(* updateCredentialRevocationStatus: the assertion and the list are read.   *)
(* With several lists, the query's limit(1) takes any of them.              *)
updateCredentialRevocationStatus(c, a, rev) ==
  LET s == [at |-> "updCreate", assertion |-> a, rev |-> rev] IN
  /\ call[c].at = "idle"
  /\ a \in issued
  /\ updates < MaxUpdates
  /\ updates' = updates + 1
  /\ \/ /\ lists[IssuerOf[a]] = {}
        /\ call' = [call EXCEPT ![c] = s]
        /\ UNCHANGED overlapped
     \/ /\ \E list \in lists[IssuerOf[a]] :
             call' = [call EXCEPT ![c] = Changing(s, list.bits)]
        /\ Takes(c, IssuerOf[a])
  /\ history' = [history EXCEPT ![a] = @ \cup {IF rev THEN "asked" ELSE "reinstated"}]
  /\ UNCHANGED <<issued, revoked, lists>>

(* createOrUpdateStatusList on behalf of the update.                        *)
UpdateSelects(c) ==
  LET s == call[c] IN
  /\ s.at = "updCreate"
  /\ \/ /\ lists[IssuerOf[s.assertion]] = {}
        /\ call' = [call EXCEPT ![c] = [s EXCEPT !.at = "updInsert"]]
     \/ \E list \in lists[IssuerOf[s.assertion]] :
          call' = [call EXCEPT ![c] = Changing(s, list.bits)]
  /\ Takes(c, IssuerOf[s.assertion])
  /\ UNCHANGED <<issued, revoked, lists, updates, history>>

UpdateInserts(c) ==
  /\ call[c].at = "updInsert"
  /\ lists' = [lists EXCEPT ![IssuerOf[call[c].assertion]] = @ \cup {NewList}]
  /\ call' = [call EXCEPT ![c] = Changing(@, {})]
  /\ UNCHANGED <<issued, revoked, updates, history, overlapped>>

(* Variants of WriteList that would be bugs: a row inserted beside the one  *)
(* there is; no WHERE clause; the column written though the update failed.  *)
WriteList_Inserts(c) ==
  LET s == call[c] IN
  /\ s.at = "updWrite"
  /\ lists' = [lists EXCEPT ![IssuerOf[s.assertion]] = @ \cup {Resigned(s.bits)}]
  /\ call' = [call EXCEPT ![c] = [at |-> "updMark", assertion |-> s.assertion, rev |-> s.rev]]
  /\ UNCHANGED <<issued, revoked, updates, history, overlapped>>
WriteList_Everywhere(c) ==
  LET s == call[c] IN
  /\ s.at = "updWrite"
  /\ lists' = [i \in Issuer |-> IF lists[i] = {} THEN {} ELSE {Resigned(s.bits)}]
  /\ call' = [call EXCEPT ![c] = [at |-> "updMark", assertion |-> s.assertion, rev |-> s.rev]]
  /\ UNCHANGED <<issued, revoked, updates, history, overlapped>>
WriteList_Lost(c) ==
  LET s == call[c] IN
  /\ s.at = "updWrite"
  /\ call' = [call EXCEPT ![c] = [at |-> "updMark", assertion |-> s.assertion, rev |-> s.rev]]
  /\ UNCHANGED <<issued, revoked, lists, updates, history, overlapped>>

(* UPDATE status_lists ... WHERE issuer_id: every row of the issuer.        *)
WriteList(c) ==
  LET s == call[c] IN
  /\ s.at = "updWrite"
  /\ lists' = [lists EXCEPT ![IssuerOf[s.assertion]] =
                 IF @ = {} THEN {} ELSE {Resigned(s.bits)}]
  /\ call' = [call EXCEPT ![c] = [at |-> "updMark", assertion |-> s.assertion, rev |-> s.rev]]
  /\ history' = [history EXCEPT ![s.assertion] =
                   IF s.rev THEN @ \cup {"published"} ELSE @]
  /\ UNCHANGED <<issued, revoked, updates, overlapped>>

MarkAssertion(c) ==
  /\ call[c].at = "updMark"
  /\ revoked' = [revoked EXCEPT ![call[c].assertion] = call[c].rev]
  /\ call' = [call EXCEPT ![c] = Idle]
  /\ UNCHANGED <<issued, lists, updates, history, overlapped>>

(* A statement fails or the issuer has no signing key: the handler ends     *)
(* with an error where it is.  Nothing is rolled back.                      *)
Fails(c) ==
  /\ call[c].at # "idle"
  /\ call' = [call EXCEPT ![c] = Idle]
  /\ UNCHANGED <<issued, revoked, lists, updates, history, overlapped>>

Restart ==
  /\ call' = [c \in Call |-> Idle]
  /\ UNCHANGED <<issued, revoked, lists, updates, history, overlapped>>

Step(c) ==
  \/ \E i \in Issuer : getStatusList(c, i)
  \/ GetSelects(c)
  \/ GetInserts(c)
  \/ \E a \in Assertion, rev \in BOOLEAN : updateCredentialRevocationStatus(c, a, rev)
  \/ UpdateSelects(c)
  \/ UpdateInserts(c)
  \/ WriteList(c)
  \/ MarkAssertion(c)
  \/ Fails(c)

Next ==
  \/ \E a \in Assertion : createAssertion(a)
  \/ \E a \in Assertion : revokeAssertion(a)
  \/ \E c \in Call : Step(c)
  \/ Restart

Spec == Init /\ [][Next]_vars

-----------------------------------------------------------------------------
(* What GET /status/:assertionId may answer: the list takes precedence.     *)
Answers(a) ==
  IF lists[IssuerOf[a]] = {} THEN {revoked[a]}
  ELSE {(IndexOf[a] \in list.bits) : list \in lists[IssuerOf[a]]}

(* What checkCredentialRevocationStatus answers: the column.  Its second    *)
(* check needs a credentialStatus that is itself a status list credential.  *)
checkCredentialRevocationStatus(a) == revoked[a]

(* A position is 1 only if the revocation of a credential with that         *)
(* position was asked of updateCredentialRevocationStatus.                  *)
ListedWasAsked ==
  \A i \in Issuer : \A list \in lists[i] : \A n \in list.bits :
    \E a \in Assertion : IssuerOf[a] = i /\ IndexOf[a] = n /\ "asked" \in history[a]

(* So nobody who asks GET /status is told "revoked" of a credential for no  *)
(* reason: its revocation was asked for, or that of one in its position.    *)
OnlyAskedIsListed ==
  /\ ListedWasAsked
  /\ \A a \in Assertion : TRUE \in Answers(a) =>
       \E b \in Assertion :
         /\ IssuerOf[b] = IssuerOf[a] /\ IndexOf[b] = IndexOf[a]
         /\ history[b] \cap {"asked", "published", "revokedByApi"} # {}

(* updateCredentialRevocationStatus writes the list before the column:      *)
(* whatever fails in between, and however updates interleave, a verifier    *)
(* that reads the column never sees a revocation (other than one made       *)
(* through the API route) that no list was published for.                   *)
ColumnFollowsList ==
  \A a \in Assertion :
    checkCredentialRevocationStatus(a) =>
      "published" \in history[a] \/ "revokedByApi" \in history[a]

SamePosition(a, b) == IssuerOf[a] = IssuerOf[b] /\ IndexOf[a] = IndexOf[b]

(* "A bitstring encodes the revocation status of many credentials": a       *)
(* published revocation is in every list of the issuer until somebody asks  *)
(* to reinstate the credential, or one in its position.  Only handlers of   *)
(* the same issuer can undo it, when they overlap: each writes the whole    *)
(* list as it has read it.                                                  *)
PublishedStaysListed ==
  \A a \in Assertion :
    /\ IssuerOf[a] \notin overlapped
    /\ "published" \in history[a]
    /\ \A b \in Assertion : SamePosition(a, b) => "reinstated" \notin history[b]
    => \A list \in lists[IssuerOf[a]] : IndexOf[a] \in list.bits

(* "Get the existing status list or create a new one": the lists of an      *)
(* issuer never differ, unless two handlers have had them in hand at once,  *)
(* from the query, which may have found none, to the write.                 *)
OneListPerIssuer ==
  \A i \in Issuer \ overlapped : \A l, m \in lists[i] : l = m

(* The list as a registry: each change is the one asked for and leaves      *)
(* every other credential of the issuer alone.                              *)
Listed(a) == \E list \in lists[IssuerOf[a]] : IndexOf[a] \in list.bits

Status == [a \in Assertion |-> Listed(a)]

Pending ==
  {<<c, call[c].assertion, call[c].rev>> :
     c \in {d \in Call : call[d].at \in {"updCreate", "updInsert", "updWrite"}}}

Registry == INSTANCE RevocationRegistry WITH
              Requester <- Call, status <- Status, asked <- Pending

RegistrySpec == Registry!Spec

-----------------------------------------------------------------------------
(* What the documentation says and the code does not do.                    *)

(* "The status list is itself a verifiable credential with cryptographic    *)
(* proof", signed on "a copy without the proof".                            *)
StoredListsVerify ==
  \A i \in Issuer : \A list \in lists[i] : verifySignature(list)
=============================================================================
