---------------------------- MODULE IssuanceProofs ----------------------------
(* Proofs about Issuance and about CredentialRecords, for every value of    *)
(* their constants.                                                         *)
EXTENDS Issuance, CredentialRecords, TLAPS

USE DEF getSigningKey

-----------------------------------------------------------------------------
(* The fields of a call, by where it is.                                    *)

Converting == {"ensure", "generate", "convert"}
Signing == {"achieve", "sign", "reply"}

LEMMA CallFields ==
  ASSUME NEW s \in CallState
  PROVE  /\ s.at \in {"idle", "verify", "verdict"} \cup Converting \cup Signing
         /\ s.at # "idle" => s.assertion \in Assertion
         /\ s.at \in Converting \cup Signing => s.row \in BOOLEAN
         /\ s.at \in Signing => s.entry \in BOOLEAN
         /\ s.at \in {"verify", "verdict"} => s.before \in BOOLEAN
         /\ s.at = "verdict" => s.errors \in Errors
<1>. USE DEF Converting, Signing
<1>1. CASE s \in [at : {"idle"}]  BY <1>1
<1>2. CASE s \in [at : {"ensure", "generate", "convert"}, assertion : Assertion, row : BOOLEAN]
  BY <1>2
<1>3. CASE s \in [at : {"achieve", "sign", "reply"}, assertion : Assertion, row : BOOLEAN, entry : BOOLEAN]
  BY <1>3
<1>4. CASE s \in [at : {"verify"}, assertion : Assertion, before : BOOLEAN]  BY <1>4
<1>5. CASE s \in [at : {"verdict"}, assertion : Assertion, before : BOOLEAN, errors : Errors]
  BY <1>5
<1>. QED  BY <1>1, <1>2, <1>3, <1>4, <1>5 DEF CallState

LEMMA CallStates ==
  /\ Idle \in CallState
  /\ \A a \in Assertion, row \in BOOLEAN, at \in Converting :
       [at |-> at, assertion |-> a, row |-> row] \in CallState
  /\ \A a \in Assertion, row \in BOOLEAN, entry \in BOOLEAN, at \in Signing :
       [at |-> at, assertion |-> a, row |-> row, entry |-> entry] \in CallState
  /\ \A a \in Assertion, before \in BOOLEAN :
       [at |-> "verify", assertion |-> a, before |-> before] \in CallState
  /\ \A a \in Assertion, before \in BOOLEAN, errors \in Errors :
       [at |-> "verdict", assertion |-> a, before |-> before, errors |-> errors] \in CallState
BY DEF CallState, Idle, Converting, Signing

(* A call that goes on with the same local variables.                       *)
LEMMA Onward ==
  ASSUME NEW s \in CallState, NEW at
  PROVE  LET n == [s EXCEPT !.at = at] IN
         /\ s.at \in Converting /\ at \in Converting =>
              n \in CallState /\ n.at = at /\ n.assertion = s.assertion /\ n.row = s.row
         /\ s.at \in Signing /\ at \in Signing =>
              /\ n \in CallState /\ n.at = at /\ n.assertion = s.assertion
              /\ n.row = s.row /\ n.entry = s.entry
<1>1. CASE s \in [at : {"ensure", "generate", "convert"}, assertion : Assertion, row : BOOLEAN]
  BY <1>1 DEF CallState, Converting, Signing
<1>2. CASE s \in [at : {"achieve", "sign", "reply"}, assertion : Assertion, row : BOOLEAN, entry : BOOLEAN]
  BY <1>2 DEF CallState, Converting, Signing
<1>3. CASE s.at \notin Converting \cup Signing
  BY <1>3
<1>. QED  BY <1>1, <1>2, <1>3 DEF CallState, Converting, Signing

LEMMA Moves ==
  ASSUME call \in [Call -> CallState], NEW c \in Call, NEW s, Goes(c, s)
  PROVE  /\ call'[c] = s
         /\ \A d \in Call : d # c => call'[d] = call[d]
         /\ s \in CallState => call' \in [Call -> CallState]
BY DEF Goes

LEMMA IssuerType ==
  ASSUME TypeOK, NEW c \in Call, call[c].at # "idle"
  PROVE  call[c].assertion \in Assertion /\ issuer(c) \in Issuer
BY CallFields, IssuersAssumption DEF TypeOK, issuer

-----------------------------------------------------------------------------
(* Type correctness *)

LEMMA InitType == Init => TypeOK
BY CallStates DEF Init, TypeOK

LEMMA HandlersType ==
  ASSUME TypeOK, NEW c \in Call, NEW a \in Assertion, NEW ob3 \in BOOLEAN,
         createAssertion(c, a, ob3) \/ revokeAssertion(c, a, ob3)
  PROVE  TypeOK'
<1>1. \A row \in BOOLEAN, at \in Converting :
        [at |-> at, assertion |-> a, row |-> row] \in CallState
  BY CallStates
<1>2. call' \in [Call -> CallState]
  BY <1>1, Moves DEF createAssertion, revokeAssertion, Converting, TypeOK
<1>3. CASE createAssertion(c, a, ob3)
  BY <1>2, <1>3 DEF createAssertion, notes, TypeOK
<1>4. CASE revokeAssertion(c, a, ob3)
  BY <1>2, <1>4 DEF revokeAssertion, TypeOK
<1>. QED  BY <1>3, <1>4

LEMMA KeysType ==
  ASSUME TypeOK, NEW c \in Call,
         \/ ensureIssuerKeyExists(c)
         \/ \E k \in Key : generateSigningKey(c, k) \/ signCredential(c, k)
  PROVE  TypeOK'
<1>1. CASE ensureIssuerKeyExists(c)
  <2>1. issuer(c) \in Issuer  BY <1>1, IssuerType DEF ensureIssuerKeyExists, At
  <2>2. call' \in [Call -> CallState]
    BY <1>1, Onward, Moves DEF ensureIssuerKeyExists, At, Converting, TypeOK
  <2>. QED  BY <1>1, <2>1, <2>2 DEF ensureIssuerKeyExists, rows, TypeOK
<1>2. ASSUME NEW k \in Key, generateSigningKey(c, k)  PROVE  TypeOK'
  <2>1. issuer(c) \in Issuer  BY <1>2, IssuerType DEF generateSigningKey, At
  <2>2. call' \in [Call -> CallState]
    BY <1>2, Onward, Moves DEF generateSigningKey, At, Converting, TypeOK
  <2>3. keys' \in [Issuer -> SUBSET Key]
    BY <1>2, <2>1 DEF generateSigningKey, TypeOK
  <2>. QED  BY <1>2, <2>2, <2>3 DEF generateSigningKey, notes, TypeOK
<1>3. ASSUME NEW k \in Key, signCredential(c, k)  PROVE  TypeOK'
  <2>1. issuer(c) \in Issuer  BY <1>3, IssuerType DEF signCredential, At
  <2>2. call' \in [Call -> CallState]
    BY <1>3, Onward, Moves DEF signCredential, At, Signing, TypeOK
  <2>3. signedWith' \in [Issuer -> SUBSET Key]
    BY <1>3, <2>1 DEF signCredential, TypeOK
  <2>. QED  BY <1>3, <2>2, <2>3 DEF signCredential, rows, TypeOK
<1>. QED  BY <1>1, <1>2, <1>3

(* The steps that only move their handler.                                  *)
Reads(c) ==
  \/ \E a \in Assertion : Converts(c, a) \/ verifyAssertion(c, a)
  \/ createCredential(c) \/ createAchievement(c) \/ Ends(c)
  \/ verifyOB2Assertion(c) \/ verifyOB2AssertionFails(c)

LEMMA ReadsGo ==
  ASSUME TypeOK, NEW c \in Call, Reads(c)
  PROVE  /\ UNCHANGED <<rows, notes>>
         /\ \E s \in CallState : Goes(c, s)
<1>1. ASSUME NEW a \in Assertion, Converts(c, a)
      PROVE  UNCHANGED <<rows, notes>> /\ \E s \in CallState : Goes(c, s)
  <2>1. [at |-> "convert", assertion |-> a, row |-> a \in revoked] \in CallState
    BY DEF CallState
  <2>. QED  BY <1>1, <2>1 DEF Converts
<1>2. ASSUME NEW a \in Assertion, verifyAssertion(c, a)
      PROVE  UNCHANGED <<rows, notes>> /\ \E s \in CallState : Goes(c, s)
  <2>1. [at |-> "verify", assertion |-> a, before |-> a \in revoked] \in CallState
    BY DEF CallState
  <2>. QED  BY <1>2, <2>1 DEF verifyAssertion
<1>3. CASE createCredential(c)
  <2>1. call[c].assertion \in Assertion /\ call[c].row \in BOOLEAN
    BY <1>3, CallFields DEF createCredential, At, TypeOK, Converting
  <2>2. [at |-> "achieve", assertion |-> call[c].assertion, row |-> call[c].row,
         entry |-> call[c].assertion \in revoked] \in CallState
    BY <2>1 DEF CallState
  <2>. QED  BY <1>3, <2>2 DEF createCredential
<1>4. ASSUME NEW errors \in Errors, At(c, "verify"), Answers(c, errors)
      PROVE  UNCHANGED <<rows, notes>> /\ \E s \in CallState : Goes(c, s)
  <2>1. call[c].assertion \in Assertion /\ call[c].before \in BOOLEAN
    BY <1>4, CallFields DEF At, TypeOK
  <2>2. [at |-> "verdict", assertion |-> call[c].assertion, before |-> call[c].before,
         errors |-> errors] \in CallState
    BY <2>1 DEF CallState
  <2>. QED  BY <1>4, <2>2 DEF Answers
<1>5. CASE Ends(c)  BY <1>5, CallStates DEF Ends
<1>6. CASE createAchievement(c)
  <2>1. [call[c] EXCEPT !.at = "sign"] \in CallState
    BY <1>6, Onward DEF createAchievement, At, Signing, TypeOK
  <2>. QED  BY <1>6, <2>1 DEF createAchievement
<1>7. CASE verifyOB2Assertion(c) \/ verifyOB2AssertionFails(c)
  BY <1>4, <1>7 DEF verifyOB2Assertion, verifyOB2AssertionFails, Errors
<1>. QED  BY <1>1, <1>2, <1>3, <1>5, <1>6, <1>7 DEF Reads

LEMMA NextType == TypeOK /\ [Next]_vars => TypeOK'
<1>. SUFFICES ASSUME TypeOK, [Next]_vars  PROVE  TypeOK'
  OBVIOUS
<1>1. CASE UNCHANGED vars  BY <1>1 DEF vars, rows, notes, TypeOK
<1>2. ASSUME NEW c \in Call, Step(c)  PROVE  TypeOK'
  <2>1. CASE Reads(c)
    <3>1. UNCHANGED <<rows, notes>> /\ call' \in [Call -> CallState]
      BY <2>1, ReadsGo, Moves DEF TypeOK
    <3>. QED  BY <3>1 DEF rows, notes, TypeOK
  <2>. QED  BY <1>2, <2>1, HandlersType, KeysType DEF Step, Reads, getAssertion, listAssertions, verifyBadgeJson
<1>3. ASSUME NEW a \in Assertion, NEW rev \in BOOLEAN, updateCredentialRevocationStatus(a, rev)
      PROVE  TypeOK'
  BY <1>3 DEF updateCredentialRevocationStatus, TypeOK
<1>4. CASE Restart
  <2>1. call' \in [Call -> CallState]  BY <1>4, CallStates DEF Restart
  <2>. QED  BY <1>4, <2>1 DEF Restart, rows, notes, TypeOK
<1>. QED  BY <1>1, <1>2, <1>3, <1>4 DEF Next

(* Every variable keeps its type, whatever the handlers in progress, the    *)
(* failures and the restarts.                                               *)
THEOREM TypeCorrect == Spec => []TypeOK
BY InitType, NextType, PTL DEF Spec

-----------------------------------------------------------------------------
(* The inductive invariant.  What a handler has seen of an assertion is     *)
(* still so, unless the assertion was reinstated since.                     *)

Promise(s, rev, dis, rei) ==
  /\ s.at # "idle" /\ s.assertion \notin rei =>
       /\ s.at \in Converting /\ s.row => s.assertion \in rev
       /\ s.at \in Signing /\ s.row => s.entry
       /\ s.at = "verify" /\ s.before => s.assertion \in rev
       /\ s.at = "verdict" /\ s.before => s.errors \cap {"revoked", "failed"} # {}
  /\ s.at = "verdict" /\ "revoked" \in s.errors => s.assertion \in dis

PromisesKept == \A c \in Call : Promise(call[c], revoked, disowned, reinstated)

(* An issuer for whom no two handlers found no key has one key at most, and *)
(* whoever is making it is alone and finds none.                            *)
OneKey ==
  \A i \in Issuer \ raced :
    /\ \A k, l \in keys[i] : k = l
    /\ \A c \in Call : Generating(c, i) =>
         /\ keys[i] = {}
         /\ \A d \in Call : Generating(d, i) => d = c

SignedIsKept == \A i \in Issuer : signedWith[i] \subseteq keys[i]

IssuanceInv ==
  /\ TypeOK
  /\ PromisesKept /\ OneKey /\ SignedIsKept
  /\ revoked \subseteq disowned

LEMMA InitInv == Init => IssuanceInv
BY InitType
   DEF Init, IssuanceInv, PromisesKept, Promise, OneKey, SignedIsKept, Generating, At, Idle,
       Converting, Signing

(* An assertion is revoked until it is reinstated, and that is remembered.  *)
Lasting ==
  /\ \A a \in revoked : a \in revoked' \cup reinstated'
  /\ disowned \subseteq disowned' /\ reinstated \subseteq reinstated'

LEMMA PromisesMove ==
  ASSUME IssuanceInv, Lasting, NEW c \in Call, NEW s, Goes(c, s),
         Promise(s, revoked', disowned', reinstated')
  PROVE  PromisesKept'
<1>1. call'[c] = s /\ \A d \in Call : d # c => call'[d] = call[d]
  BY Moves DEF IssuanceInv, TypeOK
<1>. SUFFICES ASSUME NEW d \in Call
              PROVE  Promise(call'[d], revoked', disowned', reinstated')
  BY DEF PromisesKept
<1>2. CASE d = c  BY <1>1, <1>2
<1>3. CASE d # c
  <2>1. Promise(call[d], revoked, disowned, reinstated)  BY DEF IssuanceInv, PromisesKept
  <2>. QED  BY <1>1, <1>3, <2>1 DEF Promise, Lasting
<1>. QED  BY <1>2, <1>3

LEMMA OneKeyMoves ==
  ASSUME IssuanceInv, NEW c \in Call, NEW s, Goes(c, s), s.at # "generate",
         UNCHANGED <<keys, raced>>
  PROVE  OneKey'
<1>1. call'[c] = s /\ \A d \in Call : d # c => call'[d] = call[d]
  BY Moves DEF IssuanceInv, TypeOK
<1>2. \A i \in Issuer, d \in Call : Generating(d, i)' => Generating(d, i)
  BY <1>1 DEF Generating, At, issuer
<1>. QED  BY <1>2 DEF IssuanceInv, OneKey

LEMMA HandlersInv ==
  ASSUME IssuanceInv, TypeOK', NEW c \in Call, NEW a \in Assertion, NEW ob3 \in BOOLEAN,
         createAssertion(c, a, ob3) \/ revokeAssertion(c, a, ob3)
  PROVE  IssuanceInv'
<1>. USE DEF IssuanceInv
<1>1. CASE createAssertion(c, a, ob3)
  <2>. USE <1>1 DEF createAssertion, notes
  <2>1. Lasting  BY DEF Lasting
  <2>2. PromisesKept' /\ OneKey'
    <3>1. CASE ob3
      <4>. DEFINE n == [at |-> "ensure", assertion |-> a, row |-> FALSE]
      <4>1. Goes(c, n)  BY <3>1
      <4>2. Promise(n, revoked', disowned', reinstated') /\ n.at # "generate"
        BY DEF Promise, Converting, Signing
      <4>. QED  BY <2>1, <4>1, <4>2, PromisesMove, OneKeyMoves
    <3>2. CASE ~ob3
      <4>1. UNCHANGED <<call, revoked, disowned, reinstated, keys, raced>>  BY <3>2
      <4>. QED  BY <4>1 DEF PromisesKept, OneKey, Generating, At, issuer
    <3>. QED  BY <3>1, <3>2
  <2>. QED  BY <2>2 DEF SignedIsKept
<1>2. CASE revokeAssertion(c, a, ob3)
  <2>. USE <1>2 DEF revokeAssertion
  <2>1. Lasting  BY DEF Lasting
  <2>2. PromisesKept' /\ OneKey'
    <3>1. CASE ob3
      <4>. DEFINE n == [at |-> "convert", assertion |-> a, row |-> TRUE]
      <4>1. Goes(c, n)  BY <3>1
      <4>2. Promise(n, revoked', disowned', reinstated') /\ n.at # "generate"
        BY DEF Promise, Converting, Signing
      <4>. QED  BY <2>1, <4>1, <4>2, PromisesMove, OneKeyMoves
    <3>2. CASE ~ob3
      <4>1. UNCHANGED <<call, reinstated, keys, raced>>  BY <3>2
      <4>2. PromisesKept'
        BY <2>1, <4>1 DEF PromisesKept, Promise, Lasting
      <4>. QED  BY <4>1, <4>2 DEF OneKey, Generating, At, issuer
    <3>. QED  BY <3>1, <3>2
  <2>. QED  BY <2>2 DEF SignedIsKept
<1>. QED  BY <1>1, <1>2

(* The key of an issuer is looked for, made, and used.                      *)
LEMMA ensureIssuerKeyExistsInv ==
  ASSUME IssuanceInv, TypeOK', NEW c \in Call, ensureIssuerKeyExists(c)
  PROVE  IssuanceInv'
<1>. USE DEF IssuanceInv, ensureIssuerKeyExists, rows
<1>1. PICK i \in Issuer : i = issuer(c)  BY IssuerType DEF At
<1>. DEFINE n == [call[c] EXCEPT !.at = IF keys[i] = {} THEN "generate" ELSE "convert"]
<1>2. /\ n.at = IF keys[i] = {} THEN "generate" ELSE "convert"
      /\ n.assertion = call[c].assertion /\ n.row = call[c].row
  BY Onward DEF TypeOK, At, Converting
<1>3. Goes(c, n)  BY <1>1
<1>. HIDE DEF n
<1>4. call'[c] = n /\ \A d \in Call : d # c => call'[d] = call[d]
  BY <1>3, Moves DEF TypeOK
<1>5. Lasting  BY DEF Lasting
<1>6. Promise(n, revoked', disowned', reinstated')
  <2>1. Promise(call[c], revoked, disowned, reinstated)  BY DEF PromisesKept
  <2>. QED  BY <1>2, <2>1 DEF Promise, At, Converting, Signing
<1>7. PromisesKept'  BY <1>3, <1>5, <1>6, PromisesMove
<1>8. raced \subseteq raced'
      /\ (i \notin raced' /\ keys[i] = {} => \A d \in Call : ~Generating(d, i))
  BY <1>1
<1>9. \A j \in Issuer, d \in Call :
        Generating(d, j)' => Generating(d, j) \/ (d = c /\ j = i /\ keys[i] = {})
  BY <1>1, <1>2, <1>4 DEF Generating, At, issuer
<1>10. OneKey'
  <2>. SUFFICES ASSUME NEW j \in Issuer \ raced'
                PROVE  /\ \A k, l \in keys[j] : k = l
                       /\ \A d \in Call : Generating(d, j)' =>
                            /\ keys[j] = {}
                            /\ \A e \in Call : Generating(e, j)' => e = d
    BY DEF OneKey
  <2>1. j \notin raced  BY <1>8
  <2>2. CASE j # i  BY <1>9, <2>1, <2>2 DEF OneKey
  <2>3. CASE j = i /\ keys[i] # {}  BY <1>9, <2>1, <2>3 DEF OneKey
  <2>4. CASE j = i /\ keys[i] = {}  BY <1>8, <1>9, <2>4
  <2>. QED  BY <2>2, <2>3, <2>4
<1>11. UNCHANGED <<keys, signedWith, revoked, disowned>>
  OBVIOUS
<1>. HIDE DEF ensureIssuerKeyExists
<1>. QED  BY <1>7, <1>10, <1>11 DEF SignedIsKept

LEMMA generateSigningKeyInv ==
  ASSUME IssuanceInv, TypeOK', NEW c \in Call, NEW k \in Key, generateSigningKey(c, k)
  PROVE  IssuanceInv'
<1>. USE DEF IssuanceInv, generateSigningKey, notes
<1>1. PICK i \in Issuer : i = issuer(c)  BY IssuerType DEF At
<1>. DEFINE n == [call[c] EXCEPT !.at = "convert"]
<1>2. n.at = "convert" /\ n.assertion = call[c].assertion /\ n.row = call[c].row
  BY Onward DEF TypeOK, At, Converting
<1>3. Goes(c, n)
  OBVIOUS
<1>. HIDE DEF n
<1>4. call'[c] = n /\ \A d \in Call : d # c => call'[d] = call[d]
  BY <1>3, Moves DEF TypeOK
<1>5. Lasting  BY DEF Lasting
<1>6. Promise(n, revoked', disowned', reinstated')
  <2>1. Promise(call[c], revoked, disowned, reinstated)  BY DEF PromisesKept
  <2>. QED  BY <1>2, <2>1 DEF Promise, At, Converting, Signing
<1>7. PromisesKept'  BY <1>3, <1>5, <1>6, PromisesMove
<1>8. keys'[i] = keys[i] \cup {k} /\ \A j \in Issuer : j # i => keys'[j] = keys[j]
  BY <1>1 DEF TypeOK
<1>9. \A j \in Issuer, d \in Call : Generating(d, j)' => Generating(d, j) /\ d # c
  BY <1>2, <1>4 DEF Generating, At, issuer
<1>10. Generating(c, i)  BY <1>1 DEF Generating
<1>11. OneKey'
  <2>. SUFFICES ASSUME NEW j \in Issuer \ raced
                PROVE  /\ \A l, m \in keys'[j] : l = m
                       /\ \A d \in Call : Generating(d, j)' =>
                            /\ keys'[j] = {}
                            /\ \A e \in Call : Generating(e, j)' => e = d
    BY DEF OneKey
  <2>1. CASE j # i  BY <1>8, <1>9, <2>1 DEF OneKey
  <2>2. CASE j = i
    <3>1. keys[i] = {} /\ \A d \in Call : Generating(d, i) => d = c
      BY <1>10, <2>2 DEF OneKey
    <3>. QED  BY <1>8, <1>9, <2>2, <3>1
  <2>. QED  BY <2>1, <2>2
<1>12. SignedIsKept'  BY <1>8 DEF SignedIsKept
<1>. QED  BY <1>7, <1>11, <1>12

LEMMA signCredentialInv ==
  ASSUME IssuanceInv, TypeOK', NEW c \in Call, NEW k \in Key, signCredential(c, k)
  PROVE  IssuanceInv'
<1>. USE DEF IssuanceInv, signCredential, rows
<1>1. PICK i \in Issuer : i = issuer(c)  BY IssuerType DEF At
<1>. DEFINE n == [call[c] EXCEPT !.at = "reply"]
<1>2. /\ n.at = "reply" /\ n.assertion = call[c].assertion
      /\ n.row = call[c].row /\ n.entry = call[c].entry
  BY Onward DEF TypeOK, At, Signing
<1>3. Goes(c, n)
  OBVIOUS
<1>. HIDE DEF n
<1>4. Lasting  BY DEF Lasting
<1>5. Promise(n, revoked', disowned', reinstated')
  <2>1. Promise(call[c], revoked, disowned, reinstated)  BY DEF PromisesKept
  <2>. QED  BY <1>2, <2>1 DEF Promise, At, Converting, Signing
<1>6. PromisesKept' /\ OneKey'
  BY <1>2, <1>3, <1>4, <1>5, PromisesMove, OneKeyMoves
<1>7. signedWith'[i] = signedWith[i] \cup {k} /\ k \in keys[i]
      /\ \A j \in Issuer : j # i => signedWith'[j] = signedWith[j]
  BY <1>1 DEF TypeOK
<1>8. SignedIsKept'  BY <1>7 DEF SignedIsKept
<1>. QED  BY <1>6, <1>8

LEMMA ReadsInv ==
  ASSUME IssuanceInv, TypeOK', NEW c \in Call, Reads(c)
  PROVE  IssuanceInv'
<1>. USE DEF IssuanceInv
<1>1. UNCHANGED <<rows, notes>>  BY ReadsGo
<1>2. Lasting  BY <1>1 DEF Lasting, rows, notes
<1>3. ASSUME NEW s, Goes(c, s), Promise(s, revoked, disowned, reinstated), s.at # "generate"
      PROVE  IssuanceInv'
  BY <1>1, <1>2, <1>3, PromisesMove, OneKeyMoves DEF rows, notes, SignedIsKept
<1>4. ASSUME NEW a \in Assertion, Converts(c, a)  PROVE  IssuanceInv'
  <2>. DEFINE s == [at |-> "convert", assertion |-> a, row |-> a \in revoked]
  <2>1. Promise(s, revoked, disowned, reinstated)  BY DEF Promise, Converting, Signing
  <2>. QED  BY <1>3, <1>4, <2>1 DEF Converts
<1>5. ASSUME NEW a \in Assertion, verifyAssertion(c, a)  PROVE  IssuanceInv'
  <2>. DEFINE s == [at |-> "verify", assertion |-> a, before |-> a \in revoked]
  <2>1. Promise(s, revoked, disowned, reinstated)  BY DEF Promise, Converting, Signing
  <2>. QED  BY <1>3, <1>5, <2>1 DEF verifyAssertion
<1>6. CASE createCredential(c)
  <2>. DEFINE a == call[c].assertion
              s == [at |-> "achieve", assertion |-> a, row |-> call[c].row,
                    entry |-> a \in revoked]
  <2>1. a \notin reinstated /\ call[c].row => a \in revoked
    BY <1>6 DEF createCredential, At, PromisesKept, Promise, Converting
  <2>2. Promise(s, revoked, disowned, reinstated)
    BY <2>1 DEF Promise, Converting, Signing
  <2>. QED  BY <1>3, <1>6, <2>2 DEF createCredential
<1>7. ASSUME NEW errors, Answers(c, errors), At(c, "verify"),
             "revoked" \in errors => call[c].assertion \in disowned,
             call[c].assertion \in revoked => errors \cap {"revoked", "failed"} # {}
      PROVE  IssuanceInv'
  <2>. DEFINE a == call[c].assertion
              s == [at |-> "verdict", assertion |-> a, before |-> call[c].before,
                    errors |-> errors]
  <2>1. a \notin reinstated /\ call[c].before => a \in revoked
    BY <1>7 DEF At, PromisesKept, Promise
  <2>2. Promise(s, revoked, disowned, reinstated)
    BY <1>7, <2>1 DEF Promise, Converting, Signing
  <2>. QED  BY <1>3, <1>7, <2>2 DEF Answers
<1>8. CASE Ends(c)  BY <1>3, <1>8 DEF Ends, Idle, Promise
<1>9. CASE createAchievement(c)
  <2>. DEFINE s == [call[c] EXCEPT !.at = "sign"]
  <2>1. /\ s.at = "sign" /\ s.assertion = call[c].assertion
        /\ s.row = call[c].row /\ s.entry = call[c].entry
    BY <1>9, Onward DEF createAchievement, At, Signing, TypeOK
  <2>2. Promise(call[c], revoked, disowned, reinstated)  BY DEF PromisesKept
  <2>3. Promise(s, revoked, disowned, reinstated)
    BY <1>9, <2>1, <2>2 DEF createAchievement, At, Promise, Converting, Signing
  <2>. QED  BY <1>3, <1>9, <2>1, <2>3 DEF createAchievement
<1>10. CASE verifyOB2Assertion(c)
  <2>1. revoked \subseteq disowned
    OBVIOUS
  <2>. QED  BY <1>7, <1>10, <2>1 DEF verifyOB2Assertion
<1>11. CASE verifyOB2AssertionFails(c)  BY <1>7, <1>11 DEF verifyOB2AssertionFails
<1>. QED  BY <1>4, <1>5, <1>6, <1>8, <1>9, <1>10, <1>11 DEF Reads

LEMMA updateCredentialRevocationStatusInv ==
  ASSUME IssuanceInv, TypeOK', NEW a \in Assertion, NEW rev \in BOOLEAN,
         updateCredentialRevocationStatus(a, rev)
  PROVE  IssuanceInv'
<1>. USE DEF IssuanceInv, updateCredentialRevocationStatus
<1>1. Lasting  BY DEF Lasting
<1>2. PromisesKept'  BY <1>1 DEF PromisesKept, Promise, Lasting
<1>3. OneKey' /\ SignedIsKept'  BY DEF OneKey, SignedIsKept, Generating, At, issuer
<1>. QED  BY <1>2, <1>3

LEMMA NextInv == IssuanceInv /\ [Next]_vars => IssuanceInv'
<1>. SUFFICES ASSUME IssuanceInv, [Next]_vars  PROVE  IssuanceInv'
  OBVIOUS
<1>1. TypeOK'  BY NextType DEF IssuanceInv
<1>2. CASE UNCHANGED vars
  BY <1>1, <1>2
     DEF vars, rows, notes, IssuanceInv, PromisesKept, OneKey, SignedIsKept, Generating, At,
         issuer
<1>3. ASSUME NEW c \in Call, Step(c)  PROVE  IssuanceInv'
  BY <1>1, <1>3, HandlersInv, ensureIssuerKeyExistsInv, generateSigningKeyInv,
     signCredentialInv, ReadsInv DEF Step, Reads, getAssertion, listAssertions,
     verifyBadgeJson
<1>4. CASE Restart
  <2>1. \A c \in Call : call'[c].at = "idle"  BY <1>4 DEF Restart, Idle
  <2>. QED
    BY <1>1, <1>4, <2>1
       DEF Restart, rows, notes, IssuanceInv, PromisesKept, Promise, OneKey, SignedIsKept,
           Generating, At
<1>. QED  BY <1>1, <1>2, <1>3, <1>4, updateCredentialRevocationStatusInv DEF Next

-----------------------------------------------------------------------------
(* A credential verifies for ever, and with one answer, unless two handlers *)
(* found that its issuer had no key.                                        *)
THEOREM CredentialsAlwaysVerify == Spec => []CredentialsVerify
<1>1. IssuanceInv => CredentialsVerify
  <2>. SUFFICES ASSUME IssuanceInv, NEW i \in Issuer, NEW k \in signedWith[i]
                PROVE  /\ TRUE \in verifySignature(i, k, FALSE)
                       /\ i \notin raced => FALSE \notin verifySignature(i, k, FALSE)
    BY DEF CredentialsVerify
  <2>1. k \in keys[i]  BY DEF IssuanceInv, SignedIsKept
  <2>2. i \notin raced => \A other \in keys[i] : k = other  BY <2>1 DEF IssuanceInv, OneKey
  <2>. QED  BY <2>1, <2>2 DEF verifySignature
<1>. QED  BY <1>1, InitInv, NextInv, PTL DEF Spec

(* The credential of a reply is not behind the row of the same reply.       *)
THEOREM RepliesAreNotBehind == Spec => []ReplyNotBehindRow
<1>1. IssuanceInv => ReplyNotBehindRow
  BY DEF IssuanceInv, PromisesKept, Promise, ReplyNotBehindRow, At, Signing
<1>. QED  BY <1>1, InitInv, NextInv, PTL DEF Spec

(* A verification that begins after a revocation sees it.                   *)
THEOREM VerdictsComeInTime == Spec => []VerdictsAreTimely
<1>1. IssuanceInv => VerdictsAreTimely
  BY DEF IssuanceInv, PromisesKept, Promise, VerdictsAreTimely, At
<1>. QED  BY <1>1, InitInv, NextInv, PTL DEF Spec

-----------------------------------------------------------------------------
(* The records of credentials, which is another table: nothing is shared    *)
(* with the operations above.                                               *)

(* The inductive invariant.  The status column is what was last asked, and  *)
(* it says "active" only beside the flag, outside rows stored askew; the    *)
(* date is set exactly for what was ever revoked, which is what the status  *)
(* cannot tell.                                                             *)
ColumnsAgree ==
  /\ \A k \in Credential \ askew :
       /\ status[k] = latest[k]
       /\ status[k] = "active" => isActive[k]
       /\ status[k] = "revoked" => k \in everRevoked
  /\ revokedAt = everRevoked

RecordsInv == RecordsTypeOK /\ ColumnsAgree

LEMMA RecordsInitInv == RecordsInit => RecordsInv
BY DEF RecordsInit, RecordsTypeOK, CredentialStatus, RecordsInv, ColumnsAgree

(* What any of the writers does keeps the columns in agreement, if it clears *)
(* no flag of an active credential and dates what it revokes.               *)
LEMMA WritesKeep ==
  ASSUME RecordsInv, NEW k \in Credential, NEW s \in CredentialStatus,
         NEW active \in BOOLEAN, NEW dated \in BOOLEAN,
         Writes(k, s, active, dated), s = "active" => active, dated <=> s = "revoked"
  PROVE  RecordsInv'
<1>. USE DEF Writes
<1>1. RecordsTypeOK'
  BY DEF RecordsInv, RecordsTypeOK
<1>2. ColumnsAgree'
  BY DEF RecordsInv, ColumnsAgree, RecordsTypeOK
<1>. QED  BY <1>1, <1>2 DEF RecordsInv

LEMMA RecordsNextInv == RecordsInv /\ [RecordsNext]_recordVars => RecordsInv'
<1>. SUFFICES ASSUME RecordsInv, [RecordsNext]_recordVars  PROVE  RecordsInv'
  OBVIOUS
<1>. USE DEF CredentialStatus
<1>1. CASE UNCHANGED recordVars
  BY <1>1 DEF recordVars, RecordsInv, RecordsTypeOK, ColumnsAgree
<1>2. ASSUME NEW k \in Credential, NEW s \in CredentialStatus, NEW active \in BOOLEAN,
             NEW dated \in BOOLEAN, Inserts(k, s, active, dated)
      PROVE  RecordsInv'
  <2>. USE <1>2 DEF Inserts, RecordsInv
  <2>1. RecordsTypeOK'
    BY DEF RecordsTypeOK
  <2>2. ColumnsAgree'
    BY DEF ColumnsAgree, RecordsTypeOK, Agree
  <2>. QED  BY <2>1, <2>2
<1>3. ASSUME NEW k \in Credential, NEW s \in CredentialStatus,
             updateCredentialStatus(k, s)
      PROVE  RecordsInv'
  <2>1. isActive[k] \in BOOLEAN  BY DEF RecordsInv, RecordsTypeOK
  <2>. QED  BY <1>3, <2>1, WritesKeep DEF updateCredentialStatus
<1>4. ASSUME NEW k \in Credential, NEW s \in CredentialStatus,
             setCredentialStatus(k, s)
      PROVE  RecordsInv'
  BY <1>4, WritesKeep DEF setCredentialStatus
<1>5. ASSUME NEW k \in Credential, revokeCredential(k)  PROVE  RecordsInv'
  BY <1>5, WritesKeep DEF revokeCredential, SetRevoked
<1>6. ASSUME NEW k \in Credential, Expires(k)  PROVE  RecordsInv'
  BY <1>6 DEF Expires, RecordsInv, RecordsTypeOK, ColumnsAgree
<1>. QED  BY <1>1, <1>2, <1>3, <1>4, <1>5, <1>6 
  DEF RecordsNext, storeCredential, createCredentialRow

LEMMA RecordsInductive == RecordsSpec => []RecordsInv
BY RecordsInitInv, RecordsNextInv, PTL DEF RecordsSpec

(* Every column keeps its type, and only stored credentials have a date.    *)
THEOREM RecordsTypeCorrect == RecordsSpec => []RecordsTypeOK
<1>1. RecordsInv => RecordsTypeOK  BY DEF RecordsInv
<1>. QED  BY <1>1, RecordsInductive, PTL

(* What "revoked" means to each reader, and so where they disagree.         *)
THEOREM ReadersMean == RecordsSpec => []ReadersOfRevocation
<1>1. RecordsInv => ReadersOfRevocation
  BY DEF RecordsInv, ColumnsAgree, RecordsTypeOK, ReadersOfRevocation, RevokedForCredentials,
         RevokedForDatabase, checkCredentialStatus, RevokedForVerification
<1>. QED  BY <1>1, RecordsInductive, PTL

(* No reader calls valid what it calls revoked, and what the verification   *)
(* service verifies the others verify, except the once revoked.             *)
THEOREM ValidAreNotRevoked == RecordsSpec => []ValidIsNotRevoked
<1>. SUFFICES RecordsInv => ValidIsNotRevoked
  BY RecordsInductive, PTL
<1>. SUFFICES ASSUME RecordsInv, NEW k \in (Credential \cup {NoId}) \ askew
              PROVE  /\ ValidForCredentials(k) => ~RevokedForCredentials(k)
                     /\ ValidForDatabase(k) => ~RevokedForDatabase(k)
                     /\ ValidForVerification(k) =>
                          /\ ~RevokedForVerification(k)
                          /\ ValidForDatabase(k)
                          /\ ValidForCredentials(k) \/ k \in everRevoked
  <2>1. ASSUME NEW j,
               \E answer \in {verifyCredential(j), verifyCredentialJwt(j),
                              verifyCredentialLd(j)} : answer.valid
        PROVE  ValidForVerification(j)
    <3>1. \/ verifyCredential(j).valid
          \/ verifyCredentialJwt(j).valid
          \/ verifyCredentialLd(j).valid
      BY <2>1
    <3>. QED
      BY <3>1 DEF verifyCredential, verifyCredentialJwt, verifyCredentialLd,
                  ValidByJwt, ValidByDocument
  <2>2. \A j : checkCredentialStatus(j).isRevoked <=> RevokedForVerification(j)
    BY DEF checkCredentialStatus
  <2>. QED  BY <2>1, <2>2 DEF ValidIsNotRevoked
<1>1. ValidForCredentials(k) => ~RevokedForCredentials(k)
  BY DEF RecordsInv, ColumnsAgree, RecordsTypeOK, ValidForCredentials,
         RevokedForCredentials
<1>2. ValidForDatabase(k) => ~RevokedForDatabase(k)
  BY DEF ValidForDatabase, RevokedForDatabase
<1>3. ASSUME ValidForVerification(k)
      PROVE  /\ ~RevokedForVerification(k)
             /\ ValidForDatabase(k)
             /\ ValidForCredentials(k) \/ k \in everRevoked
  BY <1>3, KindsAssumption
  DEF RecordsInv, ColumnsAgree, ValidForVerification, RevokedForVerification,
      ValidForDatabase, ValidForCredentials, SignatureCheck
<1>. QED  BY <1>1, <1>2, <1>3

(* No step makes a credential that CredentialsService calls revoked one     *)
(* that it does not: no writer takes the date back.                         *)
THEOREM RevocationsAreRemembered == RecordsSpec => RevocationIsRemembered
<1>1. ASSUME [RecordsNext]_recordVars  PROVE  revokedAt \subseteq revokedAt'
  <2>1. ASSUME NEW k, NEW s, NEW active, NEW dated,
               Inserts(k, s, active, dated) \/ Writes(k, s, active, dated)
        PROVE  revokedAt \subseteq revokedAt'
    BY <2>1 DEF Inserts, Writes
  <2>2. ASSUME NEW k, Expires(k) \/ UNCHANGED recordVars
        PROVE  revokedAt \subseteq revokedAt'
    BY <2>2 DEF Expires, recordVars
  <2>. QED
    BY <1>1, <2>1, <2>2
       DEF RecordsNext, storeCredential, createCredentialRow, updateCredentialStatus,
           setCredentialStatus, revokeCredential, SetRevoked
<1>2. RecordsInv /\ [RecordsNext]_recordVars =>
        [\A k \in recorded \ askew : RevokedForCredentials(k) => RevokedForCredentials(k)']_recordVars
  BY <1>1 DEF RecordsInv, ColumnsAgree, RecordsTypeOK, RevokedForCredentials
<1>. QED  BY <1>2, RecordsInductive, PTL DEF RecordsSpec, RevocationIsRemembered
=============================================================================
