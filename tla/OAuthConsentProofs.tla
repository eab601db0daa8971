-------------------------- MODULE OAuthConsentProofs --------------------------
(* Proofs about OAuthConsent for any number of users, clients, scopes and   *)
(* handlers.                                                                *)
EXTENDS OAuthConsent, TLAPS

-----------------------------------------------------------------------------
(* Type correctness.                                                        *)

LEMMA CallFields ==
  ASSUME NEW s \in CallState
  PROVE  /\ s.at # "idle" => s.party \in Party /\ s.scope \in SUBSET Scope
         /\ s.at = "update" => s.all \in SUBSET Scope
         /\ s.at = "issue" => s.by \in {"record", "decision"}
         /\ s.at = "recall" =>
              /\ [s EXCEPT !.at = "create"] \in CallState
              /\ [s EXCEPT !.at = "create"].at = "create"
              /\ [s EXCEPT !.at = "create"].party = s.party
              /\ [s EXCEPT !.at = "create"].scope = s.scope
BY DEF CallState

LEMMA CallStates ==
  /\ Idle \in CallState
  /\ \A p \in Party, X \in SUBSET Scope, a \in {"lookup", "recall", "create"} :
       [at |-> a, party |-> p, scope |-> X] \in CallState
  /\ \A p \in Party, X, Y \in SUBSET Scope :
       [at |-> "update", party |-> p, scope |-> X, all |-> Y] \in CallState
  /\ \A p \in Party, X \in SUBSET Scope, b \in {"record", "decision"} :
       [at |-> "issue", party |-> p, scope |-> X, by |-> b] \in CallState
BY DEF CallState, Idle

LEMMA Moves ==
  ASSUME call \in [Call -> CallState], NEW c \in Call, NEW s \in CallState, Goes(c, s)
  PROVE  /\ call' \in [Call -> CallState]
         /\ call'[c] = s
         /\ \A d \in Call \ {c} : call'[d] = call[d]
BY DEF Goes

(* Valid scopes are known ones, and valid again.                            *)
LEMMA ValidScopes ==
  ASSUME NEW X \in SUBSET Scope, NEW A \in SUBSET Scope
  PROVE  /\ validateScopes(X, A) \in SUBSET Scope
         /\ validateScopes(validateScopes(X, A), A) = validateScopes(X, A)
BY DEF validateScopes

-----------------------------------------------------------------------------
(* The inductive invariant.  A handler asks for, and a record grants, what  *)
(* was remembered; a request for a code keeps to the scopes of its client,  *)
(* and every request is for a registered client.                            *)
Promise(s, reg, allowed, rem) ==
  /\ s.at # "idle" => s.party[2] \in reg
  /\ s.at \in {"recall", "create", "update"} => s.scope \subseteq rem[s.party]
  /\ s.at = "update" => s.all \subseteq rem[s.party]
  /\ s.at = "lookup" \/ (s.at = "issue" /\ s.by = "record") =>
       s.scope = validateScopes(s.scope, allowed[s.party[2]])
  /\ s.at = "issue" /\ s.by = "record" => s.scope \subseteq rem[s.party]

(* What a handler has read is still so, until another one writes.           *)
StillAsRead(s, con) ==
  /\ s.at = "create" => con[s.party] = {}
  /\ s.at = "update" => \E record \in con[s.party] : s.all = record \cup s.scope

Granted == \A p \in Party : \A record \in consents[p] : record \subseteq remembered[p]

ConsentInv ==
  /\ TypeOK
  /\ \A c \in Call : Promise(call[c], registered, clientScope, remembered)
  /\ \A c \in Call \ overtaken : StillAsRead(call[c], consents)
  /\ Granted
  /\ RememberedIsKept

THEOREM InitConsentInv == Init => ConsentInv
<1> SUFFICES ASSUME Init  PROVE ConsentInv
  OBVIOUS
<1>1. TypeOK
  BY CallStates DEF Init, TypeOK, OfRegistered, Idle
<1>2. \A c \in Call : Promise(call[c], registered, clientScope, remembered)
                      /\ StillAsRead(call[c], consents)
  BY DEF Init, Idle, Promise, StillAsRead
<1>3. Granted /\ RememberedIsKept
  BY DEF Init, Granted, RememberedIsKept
<1>4. QED  BY <1>1, <1>2, <1>3 DEF ConsentInv

-----------------------------------------------------------------------------
(* A step of one handler that writes no table and adds at most to what is   *)
(* remembered.                                                              *)
LEMMA HandlerMoves ==
  ASSUME ConsentInv, NEW c \in Call, NEW s \in CallState, Goes(c, s),
         UNCHANGED <<rows, kept, disputed>>,
         overtaken' \in {overtaken, overtaken \ {c}},
         remembered' \in [Party -> SUBSET Scope],
         \A p \in Party : remembered[p] \subseteq remembered'[p],
         Promise(s, registered, clientScope, remembered'),
         StillAsRead(s, consents)
  PROVE  ConsentInv'
<1> USE DEF ConsentInv
<1>1. call' \in [Call -> CallState] /\ call'[c] = s /\ \A d \in Call \ {c} : call'[d] = call[d]
  BY Moves DEF TypeOK
<1>2. TypeOK'
  <2>1. OfRegistered'
    BY <1>1 DEF TypeOK, OfRegistered, Promise, rows
  <2>2. QED  BY <1>1, <2>1 DEF TypeOK, rows
<1>3. ASSUME NEW d \in Call  PROVE Promise(call[d], registered, clientScope, remembered)'
  <2>1. CASE d = c  BY <1>1, <2>1 DEF rows
  <2>2. CASE d # c
    <3>1. call'[d] = call[d] /\ call[d] \in CallState
      BY <1>1, <2>2 DEF TypeOK
    <3>2. call[d].at # "idle" => remembered[call[d].party] \subseteq remembered'[call[d].party]
      BY <3>1, CallFields
    <3>3. QED  BY <3>1, <3>2 DEF Promise, rows
  <2>3. QED  BY <2>1, <2>2
<1>4. ASSUME NEW d \in Call \ overtaken'  PROVE StillAsRead(call[d], consents)'
  BY <1>1 DEF StillAsRead, rows
<1>5. Granted' /\ RememberedIsKept'
  BY DEF Granted, RememberedIsKept, rows
<1>6. QED  BY <1>2, <1>3, <1>4, <1>5

(* A handler writes a record that grants what was remembered.  Every other  *)
(* handler that has read the records of the same user and client is marked. *)
LEMMA RecordWritten ==
  ASSUME ConsentInv, NEW c \in Call, call[c].at \in {"create", "update"},
         NEW new \in SUBSET SUBSET Scope, NEW p, p = call[c].party,
         consents' = [consents EXCEPT ![p] = new], Written(c),
         \A record \in new : record \subseteq remembered[p],
         c \notin overtaken /\ p \notin disputed => new = {kept[p] \cup call[c].scope}
  PROVE  ConsentInv'
<1> USE DEF ConsentInv
<1> DEFINE s == call[c]
           t == [at |-> "issue", party |-> p, scope |-> s.scope, by |-> "decision"]
<1>1. s \in CallState /\ p \in Party /\ s.scope \in SUBSET Scope
  BY CallFields DEF TypeOK
<1>2. t \in CallState
  BY <1>1, CallStates
<1>3. call' \in [Call -> CallState] /\ call'[c] = t /\ \A d \in Call \ {c} : call'[d] = call[d]
  BY <1>2, Moves DEF TypeOK, Written
<1>4. TypeOK'
  <2>1. OfRegistered'
    <3>1. p[2] \in registered
      BY DEF TypeOK, OfRegistered
    <3>2. \A d \in Call : call'[d].at # "idle" => call'[d].party[2] \in registered
      BY <1>3, <3>1 DEF TypeOK, OfRegistered
    <3>3. \A q \in Party : consents'[q] # {} => q[2] \in registered
      BY <1>1, <3>1 DEF TypeOK, OfRegistered
    <3>4. QED  BY <3>2, <3>3 DEF OfRegistered, Written
  <2>2. QED  BY <1>1, <1>3, <2>1 DEF TypeOK, Written
<1>5. ASSUME NEW d \in Call  PROVE Promise(call[d], registered, clientScope, remembered)'
  <2>1. CASE d = c
    <3>1. p[2] \in registered'
      BY DEF Promise, Written
    <3>2. QED  BY <1>3, <2>1, <3>1 DEF Promise
  <2>2. CASE d # c  BY <1>3, <2>2 DEF Promise, Written
  <2>3. QED  BY <2>1, <2>2
<1>6. ASSUME NEW d \in Call \ overtaken'  PROVE StillAsRead(call[d], consents)'
  <2>1. CASE d = c  BY <1>3, <2>1 DEF StillAsRead
  <2>2. CASE d # c
    <3>1. d \notin overtaken /\ ~Writing(d, p) /\ call'[d] = call[d] /\ call[d] \in CallState
      BY <1>3, <2>2 DEF Written, TypeOK
    <3>2. call[d].at \in {"create", "update"} =>
            call[d].party # p /\ consents'[call[d].party] = consents[call[d].party]
      BY <3>1, CallFields DEF Writing, TypeOK
    <3>3. StillAsRead(call[d], consents)
      BY <3>1
    <3>4. QED  BY <3>1, <3>2, <3>3 DEF StillAsRead
  <2>3. QED  BY <2>1, <2>2
<1>7. Granted'
  BY <1>1 DEF Granted, TypeOK, Written
<1>8. ASSUME NEW q \in Party \ disputed'
      PROVE  /\ consents'[q] \subseteq {kept'[q]}
             /\ kept'[q] # {} => consents'[q] # {}
  <2>1. q \notin disputed
    BY DEF Written
  <2>2. CASE q = p
    <3>1. c \notin overtaken
      BY <2>2 DEF Written
    <3>2. consents'[q] = {kept[p] \cup s.scope} /\ kept'[q] = kept[p] \cup s.scope
      BY <1>1, <2>1, <2>2, <3>1 DEF Written, TypeOK
    <3>3. QED  BY <3>2
  <2>3. CASE q # p
    <3>1. consents'[q] = consents[q] /\ kept'[q] = kept[q]
      BY <1>1, <2>3 DEF Written, TypeOK
    <3>2. QED  BY <2>1, <3>1 DEF RememberedIsKept
  <2>4. QED  BY <2>2, <2>3
<1>9. RememberedIsKept'
  BY <1>8 DEF RememberedIsKept
<1>10. QED  BY <1>4, <1>5, <1>6, <1>7, <1>9

-----------------------------------------------------------------------------
(* One lemma per action.                                                    *)

LEMMA registerClientKeeps ==
  ASSUME ConsentInv, NEW i \in Client, NEW scope \in SUBSET Scope, registerClient(i, scope)
  PROVE  ConsentInv'
<1> USE DEF ConsentInv, registerClient
<1>1. TypeOK'
  BY DEF TypeOK, OfRegistered, notes
<1>2. ASSUME NEW c \in Call  PROVE Promise(call[c], registered, clientScope, remembered)'
  <2>1. \A j \in registered : j \in Client /\ j # i /\ clientScope'[j] = clientScope[j]
    BY DEF TypeOK
  <2>2. QED  BY <2>1 DEF Promise, notes
<1>3. \A c \in Call \ overtaken' : StillAsRead(call[c], consents)'
  BY DEF notes, StillAsRead
<1>4. Granted' /\ RememberedIsKept'
  BY DEF Granted, RememberedIsKept, notes
<1>5. QED  BY <1>1, <1>2, <1>3, <1>4

LEMMA authorizeKeeps ==
  ASSUME ConsentInv, NEW c \in Call, NEW p \in Party, NEW requested \in SUBSET Scope,
         authorize(c, p, requested)
  PROVE  ConsentInv'
<1> DEFINE valid == validateScopes(requested, clientScope[p[2]])
           s == [at |-> "lookup", party |-> p, scope |-> valid]
<1>1. clientScope[p[2]] \in SUBSET Scope
  <2>1. p[2] \in Client
    BY DEF Party
  <2>2. QED  BY <2>1 DEF ConsentInv, TypeOK
<1>2. valid \in SUBSET Scope /\ validateScopes(valid, clientScope[p[2]]) = valid
  BY <1>1, ValidScopes
<1>3. s \in CallState
  BY <1>2, CallStates
<1>4. Promise(s, registered, clientScope, remembered') /\ StillAsRead(s, consents)
  BY <1>2 DEF authorize, Promise, StillAsRead
<1>5. QED
  BY <1>3, <1>4, HandlerMoves DEF authorize, notes, ConsentInv, TypeOK

LEMMA CheckConsentKeeps ==
  ASSUME ConsentInv, NEW c \in Call, CheckConsent(c)
  PROVE  ConsentInv'
<1> DEFINE s == call[c]
           t == [at |-> "issue", party |-> s.party, scope |-> s.scope, by |-> "record"]
<1>1. s \in CallState /\ s.party \in Party /\ s.scope \in SUBSET Scope /\ s.at = "lookup"
  BY CallFields DEF ConsentInv, TypeOK, CheckConsent, At
<1>2. CASE /\ \E record \in consents[s.party] : s.scope \subseteq record
           /\ Goes(c, t) /\ UNCHANGED overtaken
  <2>1. s.scope \subseteq remembered[s.party]
    BY <1>1, <1>2 DEF ConsentInv, Granted
  <2>2. t \in CallState
    BY <1>1, CallStates
  <2>3. Promise(t, registered, clientScope, remembered') /\ StillAsRead(t, consents)
    BY <1>1, <2>1 DEF ConsentInv, Promise, StillAsRead, CheckConsent
  <2>4. QED
    BY <1>2, <2>2, <2>3, HandlerMoves DEF CheckConsent, ConsentInv, TypeOK
<1>3. CASE Ends(c)
  <2>1. Promise(Idle, registered, clientScope, remembered') /\ StillAsRead(Idle, consents)
    BY DEF Idle, Promise, StillAsRead
  <2>2. QED
    BY <1>3, <2>1, CallStates, HandlerMoves DEF CheckConsent, Ends, ConsentInv, TypeOK
<1>4. QED  BY <1>2, <1>3 DEF CheckConsent

LEMMA handleAuthorizationDecisionKeeps ==
  ASSUME ConsentInv, NEW c \in Call, NEW p \in Party, NEW scope \in SUBSET Scope,
         NEW remember \in BOOLEAN, handleAuthorizationDecision(c, p, scope, remember)
  PROVE  ConsentInv'
<1> DEFINE s == [at |-> "recall", party |-> p, scope |-> scope]
           t == [at |-> "issue", party |-> p, scope |-> scope, by |-> "decision"]
<1>1. s \in CallState /\ t \in CallState
  BY CallStates
<1>2. StillAsRead(s, consents) /\ StillAsRead(t, consents)
      /\ Promise(t, registered, clientScope, remembered')
  BY DEF StillAsRead, Promise, handleAuthorizationDecision
<1>3. CASE remember
  <2>1. /\ remembered' \in [Party -> SUBSET Scope]
        /\ \A q \in Party : remembered[q] \subseteq remembered'[q]
        /\ scope \subseteq remembered'[p]
    BY <1>3 DEF handleAuthorizationDecision, ConsentInv, TypeOK
  <2>2. Promise(s, registered, clientScope, remembered')
    BY <2>1 DEF Promise, handleAuthorizationDecision
  <2>3. Goes(c, s) /\ UNCHANGED <<rows, kept, overtaken, disputed>>
    BY <1>3 DEF handleAuthorizationDecision
  <2>4. QED  BY <1>1, <1>2, <2>1, <2>2, <2>3, HandlerMoves
<1>4. CASE ~remember
  <2>1. Goes(c, t) /\ UNCHANGED <<rows, kept, overtaken, disputed, remembered>>
    BY <1>4 DEF handleAuthorizationDecision
  <2>2. QED  BY <1>1, <1>2, <2>1, HandlerMoves DEF ConsentInv, TypeOK
<1>5. QED  BY <1>3, <1>4

LEMMA getConsentRecordKeeps ==
  ASSUME ConsentInv, NEW c \in Call, getConsentRecord(c)
  PROVE  ConsentInv'
<1> DEFINE s == call[c]
<1>1. s \in CallState /\ s.party \in Party /\ s.scope \in SUBSET Scope /\ s.at = "recall"
      /\ s.scope \subseteq remembered[s.party] /\ s.party[2] \in registered
  BY CallFields DEF ConsentInv, TypeOK, getConsentRecord, At, Promise
<1>2. CASE consents[s.party] = {} /\ Goes(c, [s EXCEPT !.at = "create"])
  <2> DEFINE t == [s EXCEPT !.at = "create"]
  <2>1. t \in CallState /\ t.at = "create" /\ t.party = s.party /\ t.scope = s.scope
    BY <1>1, CallFields
  <2>2. Promise(t, registered, clientScope, remembered) /\ StillAsRead(t, consents)
    BY <1>1, <1>2, <2>1 DEF Promise, StillAsRead
  <2> HIDE DEF t
  <2>3. QED
    BY <1>2, <2>1, <2>2, HandlerMoves DEF getConsentRecord, notes, ConsentInv, TypeOK, t
<1>3. ASSUME NEW record \in consents[s.party],
             Goes(c, [at |-> "update", party |-> s.party, scope |-> s.scope,
                      all |-> record \cup s.scope])
      PROVE  ConsentInv'
  <2> DEFINE t == [at |-> "update", party |-> s.party, scope |-> s.scope,
                   all |-> record \cup s.scope]
  <2>1. record \in SUBSET Scope /\ record \subseteq remembered[s.party]
    BY <1>1 DEF ConsentInv, TypeOK, Granted
  <2>2. t \in CallState
    BY <1>1, <2>1, CallStates
  <2>3. Promise(t, registered, clientScope, remembered) /\ StillAsRead(t, consents)
    BY <1>1, <2>1 DEF Promise, StillAsRead
  <2>4. QED
    BY <1>3, <2>2, <2>3, HandlerMoves DEF getConsentRecord, notes, ConsentInv, TypeOK
<1>4. QED  BY <1>2, <1>3 DEF getConsentRecord

LEMMA createConsentRecordKeeps ==
  ASSUME ConsentInv, NEW c \in Call, createConsentRecord(c)
  PROVE  ConsentInv'
<1> DEFINE s == call[c]
           new == consents[s.party] \cup {s.scope}
<1>1. s.at = "create" /\ s.party \in Party /\ s.scope \in SUBSET Scope
      /\ s.scope \subseteq remembered[s.party]
  BY CallFields DEF ConsentInv, TypeOK, createConsentRecord, At, Promise
<1>2. new \in SUBSET SUBSET Scope /\ \A record \in new : record \subseteq remembered[s.party]
  BY <1>1 DEF ConsentInv, TypeOK, Granted
<1>3. ASSUME c \notin overtaken, s.party \notin disputed
      PROVE  new = {kept[s.party] \cup s.scope}
  <2>1. consents[s.party] = {}
    BY <1>1, <1>3 DEF ConsentInv, StillAsRead
  <2>2. kept[s.party] = {}
    BY <1>1, <1>3, <2>1 DEF ConsentInv, RememberedIsKept
  <2>3. QED  BY <2>1, <2>2
<1>4. consents' = [consents EXCEPT ![s.party] = new] /\ Written(c)
  BY DEF createConsentRecord
<1> HIDE DEF new
<1>5. QED  BY <1>1, <1>2, <1>3, <1>4, RecordWritten

LEMMA updateConsentRecordKeeps ==
  ASSUME ConsentInv, NEW c \in Call, updateConsentRecord(c)
  PROVE  ConsentInv'
<1> DEFINE s == call[c]
           new == IF consents[s.party] = {} THEN {} ELSE {s.all}
<1>1. s.at = "update" /\ s.party \in Party /\ s.all \in SUBSET Scope
      /\ s.all \subseteq remembered[s.party]
  BY CallFields DEF ConsentInv, TypeOK, updateConsentRecord, At, Promise
<1>2. new \in SUBSET SUBSET Scope /\ \A record \in new : record \subseteq remembered[s.party]
  BY <1>1
<1>3. ASSUME c \notin overtaken, s.party \notin disputed
      PROVE  new = {kept[s.party] \cup s.scope}
  <2>1. PICK record \in consents[s.party] : s.all = record \cup s.scope
    BY <1>1, <1>3 DEF ConsentInv, StillAsRead
  <2>2. record = kept[s.party]
    BY <1>1, <1>3 DEF ConsentInv, RememberedIsKept
  <2>3. QED  BY <2>1, <2>2
<1>4. consents' = [consents EXCEPT ![s.party] = new] /\ Written(c)
  BY DEF updateConsentRecord
<1>5. QED  BY <1>1, <1>2, <1>3, <1>4, RecordWritten

LEMMA HandlerEnds ==
  ASSUME ConsentInv, NEW c \in Call, Ends(c), UNCHANGED <<rows, remembered, kept, disputed>>
  PROVE  ConsentInv'
<1>1. Promise(Idle, registered, clientScope, remembered') /\ StillAsRead(Idle, consents)
  BY DEF Idle, Promise, StillAsRead
<1>2. QED  BY <1>1, CallStates, HandlerMoves DEF Ends, ConsentInv, TypeOK

LEMMA RestartKeeps ==
  ASSUME ConsentInv, Restart
  PROVE  ConsentInv'
<1> USE DEF ConsentInv, Restart
<1>1. TypeOK'
  BY CallStates DEF TypeOK, OfRegistered, Idle, rows
<1>2. \A c \in Call : Promise(call[c], registered, clientScope, remembered)'
                      /\ StillAsRead(call[c], consents)'
  BY DEF Promise, StillAsRead, Idle
<1>3. Granted' /\ RememberedIsKept'
  BY DEF Granted, RememberedIsKept, rows
<1>4. QED  BY <1>1, <1>2, <1>3

THEOREM NextConsentInv == ConsentInv /\ [Next]_vars => ConsentInv'
<1> SUFFICES ASSUME ConsentInv, [Next]_vars  PROVE ConsentInv'
  OBVIOUS
<1>1. ASSUME NEW c \in Call, Step(c)  PROVE ConsentInv'
  <2>1. ASSUME NEW p \in Party, NEW scope \in SUBSET Scope, authorize(c, p, scope)
        PROVE  ConsentInv'
    BY <2>1, authorizeKeeps
  <2>2. CASE CheckConsent(c)  BY <2>2, CheckConsentKeeps
  <2>3. ASSUME NEW p \in Party, NEW scope \in SUBSET Scope, NEW remember \in BOOLEAN,
               handleAuthorizationDecision(c, p, scope, remember)
        PROVE  ConsentInv'
    BY <2>3, handleAuthorizationDecisionKeeps
  <2>4. CASE getConsentRecord(c)  BY <2>4, getConsentRecordKeeps
  <2>5. CASE createConsentRecord(c)  BY <2>5, createConsentRecordKeeps
  <2>6. CASE updateConsentRecord(c)  BY <2>6, updateConsentRecordKeeps
  <2>7. CASE issueAuthorizationCode(c)  BY <2>7, HandlerEnds DEF issueAuthorizationCode
  <2>8. CASE Fails(c)  BY <2>8, HandlerEnds DEF Fails
  <2>9. QED  BY <1>1, <2>1, <2>2, <2>3, <2>4, <2>5, <2>6, <2>7, <2>8 DEF Step
<1>2. CASE Restart  BY <1>2, RestartKeeps
<1>3. CASE UNCHANGED vars
  BY <1>3 DEF ConsentInv, TypeOK, OfRegistered, Promise, StillAsRead, Granted, RememberedIsKept,
              vars, rows, notes
<1>4. QED  BY <1>1, <1>2, <1>3, registerClientKeeps DEF Next

THEOREM ConsentInvariant == Spec => []ConsentInv
<1>1. Init => ConsentInv  BY InitConsentInv
<1>2. ConsentInv /\ [Next]_vars => ConsentInv'  BY NextConsentInv
<1>3. QED  BY <1>1, <1>2, PTL DEF Spec

-----------------------------------------------------------------------------
(* The variables have their types: requests, records and their history.     *)
THEOREM TypeCorrect == Spec => []TypeOK
<1>1. ConsentInv => TypeOK  BY DEF ConsentInv
<1>2. QED  BY <1>1, ConsentInvariant, PTL

(* A code that is issued without a question carries scopes that its user    *)
(* had the server remember for its client, and that the client may have.    *)
THEOREM UnaskedCodesWereRemembered == Spec => []UnaskedWasRemembered
<1>1. ConsentInv => UnaskedWasRemembered
  BY DEF ConsentInv, Promise, UnaskedWasRemembered, At
<1>2. QED  BY <1>1, ConsentInvariant, PTL

(* A user and a client have one record at most, and it holds what was       *)
(* remembered, unless two decisions overlapped.                             *)
THEOREM RememberedScopesAreKept == Spec => []RememberedIsKept
<1>1. ConsentInv => RememberedIsKept  BY DEF ConsentInv
<1>2. QED  BY <1>1, ConsentInvariant, PTL
=============================================================================
