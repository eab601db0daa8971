----------------------------- MODULE OAuthConsent -----------------------------
(***************************************************************************)
(* The authorization endpoint: clients register with the scopes they may   *)
(* ask for; a request is answered with a code at once if the user has      *)
(* consented to its scopes before, and with a consent page otherwise; the  *)
(* decision of the user may be remembered in a consent record.             *)
(*                                                                         *)
(* Handlers that await are slots of Call; one SQL statement is one step.   *)
(* The row of a client never changes, so looking it up is part of the step *)
(* that follows.  Redirect URIs, PKCE parameters and request objects can   *)
(* only refuse a request, and so can a missing login: such a request       *)
(* changes nothing and is left out, as is a decision that denies.          *)
(***************************************************************************)
EXTENDS Naturals

CONSTANTS
  User, Client,
  Scope,     \* words that can stand in a scope parameter
  Known,     \* OAUTH_SCOPES
  Call

Party == User \X Client

VARIABLES
  registered,   \* clients with a row in oauth_clients
  clientScope,  \* the scope column of each client
  consents,     \* consent_records of each user and client, by their scope
  call,
  remembered,   \* history: scopes of decisions with "remember"
  kept,         \* history: those of them whose record has been written
  overtaken,    \* history: decisions whose record was written to since they read it
  disputed      \* history: users and clients for whom such a decision has written

rows == <<registered, clientScope, consents>>
notes == <<remembered, kept, overtaken, disputed>>
vars == <<rows, call, notes>>

-----------------------------------------------------------------------------
Idle == [at |-> "idle"]
CallState ==
  [at : {"idle"}]
    \cup [at : {"lookup", "recall", "create"}, party : Party, scope : SUBSET Scope]
    \cup [at : {"update"}, party : Party, scope : SUBSET Scope, all : SUBSET Scope]
    \cup [at : {"issue"}, party : Party, scope : SUBSET Scope, by : {"record", "decision"}]

(* Whatever stands for a client, a request or a record, names one that has  *)
(* a row.                                                                   *)
OfRegistered ==
  /\ \A c \in Call : call[c].at # "idle" => call[c].party[2] \in registered
  /\ \A p \in Party : consents[p] # {} => p[2] \in registered

(* The types of the variables.  The rows of one user and client are told    *)
(* apart by their scope only: the queries take any of them and the updates  *)
(* change all, so a set will do.  No decision is kept for a client that was *)
(* never registered, although its form is not validated again.              *)
TypeOK ==
  /\ registered \subseteq Client
  /\ clientScope \in [Client -> SUBSET Scope]
  /\ consents \in [Party -> SUBSET SUBSET Scope]
  /\ call \in [Call -> CallState]
  /\ remembered \in [Party -> SUBSET Scope]
  /\ kept \in [Party -> SUBSET Scope]
  /\ overtaken \subseteq Call
  /\ disputed \subseteq Party
  /\ OfRegistered

Init ==
  /\ registered = {}
  /\ clientScope = [i \in Client |-> {}]
  /\ consents = [p \in Party |-> {}]
  /\ call = [c \in Call |-> Idle]
  /\ remembered = [p \in Party |-> {}]
  /\ kept = [p \in Party |-> {}]
  /\ overtaken = {}
  /\ disputed = {}

At(c, where) == call[c].at = where
Goes(c, s) == call' = [call EXCEPT ![c] = s]
Ends(c) == Goes(c, Idle) /\ overtaken' = overtaken \ {c}

(* validateScopes: a client registered without scopes may ask for any.      *)
validateScopes(requested, allowed) ==
  {s \in requested \cap Known : allowed = {} \/ s \in allowed}

-----------------------------------------------------------------------------
registerClient(i, scope) ==
  /\ i \notin registered
  /\ registered' = registered \cup {i}
  /\ clientScope' = [clientScope EXCEPT ![i] = scope]
  /\ UNCHANGED <<consents, call, notes>>

(* authorize, GET: the scopes the client may have, if it asked for any.     *)
authorize(c, p, requested) ==
  LET valid == validateScopes(requested, clientScope[p[2]]) IN
  /\ At(c, "idle") /\ p[2] \in registered
  /\ requested = {} \/ valid # {}
  /\ Goes(c, [at |-> "lookup", party |-> p, scope |-> valid])
  /\ UNCHANGED <<rows, notes>>

(* A record that covers the request stands for a decision; without one, or  *)
(* with one that does not, the consent page is shown.                       *)
CheckConsent(c) ==
  LET s == call[c] IN
  /\ At(c, "lookup")
  /\ \/ /\ \E record \in consents[s.party] : s.scope \subseteq record
        /\ Goes(c, [at |-> "issue", party |-> s.party, scope |-> s.scope, by |-> "record"])
        /\ UNCHANGED overtaken
     \/ /\ consents[s.party] = {} \/ \E record \in consents[s.party] : ~(s.scope \subseteq record)
        /\ Ends(c)
  /\ UNCHANGED <<rows, remembered, kept, disputed>>

(* Variant that would be a bug: the client of the form is not looked up.    *)
handleAuthorizationDecision_AnyClient(c, p, scope, remember) ==
  /\ At(c, "idle")
  /\ IF remember
     THEN /\ Goes(c, [at |-> "recall", party |-> p, scope |-> scope])
          /\ remembered' = [remembered EXCEPT ![p] = @ \cup scope]
     ELSE /\ Goes(c, [at |-> "issue", party |-> p, scope |-> scope, by |-> "decision"])
          /\ UNCHANGED remembered
  /\ UNCHANGED <<rows, kept, overtaken, disputed>>

(* authorize, POST: the form names the scopes, which are not validated      *)
(* again, and the client by the id of its row (the consent page posts the   *)
(* public identifier, for which the handler finds no row and ends).         *)
handleAuthorizationDecision(c, p, scope, remember) ==
  /\ At(c, "idle") /\ p[2] \in registered
  /\ IF remember
     THEN /\ Goes(c, [at |-> "recall", party |-> p, scope |-> scope])
          /\ remembered' = [remembered EXCEPT ![p] = @ \cup scope]
     ELSE /\ Goes(c, [at |-> "issue", party |-> p, scope |-> scope, by |-> "decision"])
          /\ UNCHANGED remembered
  /\ UNCHANGED <<rows, kept, overtaken, disputed>>

(* Variants that would be bugs: the scopes of the record are dropped; the   *)
(* record of any user of the client is taken.                               *)
getConsentRecord_Replaces(c) ==
  LET s == call[c] IN
  /\ At(c, "recall")
  /\ \/ consents[s.party] = {} /\ Goes(c, [s EXCEPT !.at = "create"])
     \/ /\ consents[s.party] # {}
        /\ Goes(c, [at |-> "update", party |-> s.party, scope |-> s.scope, all |-> s.scope])
  /\ UNCHANGED <<rows, notes>>
getConsentRecord_AnyUser(c) ==
  LET s == call[c] IN
  /\ At(c, "recall")
  /\ \/ consents[s.party] = {} /\ Goes(c, [s EXCEPT !.at = "create"])
     \/ \E p \in Party : p[2] = s.party[2] /\ \E record \in consents[p] :
          Goes(c, [at |-> "update", party |-> s.party, scope |-> s.scope,
                   all |-> record \cup s.scope])
  /\ UNCHANGED <<rows, notes>>

(* The record is read and the scopes are combined, or there is none.        *)
getConsentRecord(c) ==
  LET s == call[c] IN
  /\ At(c, "recall")
  /\ \/ consents[s.party] = {} /\ Goes(c, [s EXCEPT !.at = "create"])
     \/ \E record \in consents[s.party] :
          Goes(c, [at |-> "update", party |-> s.party, scope |-> s.scope,
                   all |-> record \cup s.scope])
  /\ UNCHANGED <<rows, notes>>

(* The record is written, and the code is next.                             *)
Writing(c, p) == call[c].at \in {"create", "update"} /\ call[c].party = p

Written(c) ==
  LET s == call[c] IN
  /\ Goes(c, [at |-> "issue", party |-> s.party, scope |-> s.scope, by |-> "decision"])
  /\ kept' = [kept EXCEPT ![s.party] = @ \cup s.scope]
  /\ overtaken' = (overtaken \cup {d \in Call : Writing(d, s.party)}) \ {c}
  /\ disputed' = IF c \in overtaken THEN disputed \cup {s.party} ELSE disputed
  /\ UNCHANGED <<registered, clientScope, remembered>>

createConsentRecord(c) ==
  /\ At(c, "create")
  /\ consents' = [consents EXCEPT ![call[c].party] = @ \cup {call[c].scope}]
  /\ Written(c)

(* UPDATE ... WHERE user_id and client_id: every row of the two.            *)
updateConsentRecord(c) ==
  /\ At(c, "update")
  /\ consents' = [consents EXCEPT ![call[c].party] = IF @ = {} THEN {} ELSE {call[c].all}]
  /\ Written(c)

(* The code is inserted and the client is redirected.  What becomes of the  *)
(* code is the subject of OAuthTokens.                                      *)
issueAuthorizationCode(c) ==
  /\ At(c, "issue")
  /\ Ends(c)
  /\ UNCHANGED <<rows, remembered, kept, disputed>>

-----------------------------------------------------------------------------
(* A statement fails: the handler ends where it is.                         *)
Fails(c) ==
  /\ ~At(c, "idle")
  /\ Ends(c)
  /\ UNCHANGED <<rows, remembered, kept, disputed>>

Restart ==
  /\ call' = [c \in Call |-> Idle]
  /\ overtaken' = {}
  /\ UNCHANGED <<rows, remembered, kept, disputed>>

Step(c) ==
  \/ \E p \in Party, scope \in SUBSET Scope : authorize(c, p, scope)
  \/ CheckConsent(c)
  \/ \E p \in Party, scope \in SUBSET Scope, remember \in BOOLEAN :
       handleAuthorizationDecision(c, p, scope, remember)
  \/ getConsentRecord(c)
  \/ createConsentRecord(c)
  \/ updateConsentRecord(c)
  \/ issueAuthorizationCode(c)
  \/ Fails(c)

Next ==
  \/ \E i \in Client, scope \in SUBSET Scope : registerClient(i, scope)
  \/ \E c \in Call : Step(c)
  \/ Restart

Spec == Init /\ [][Next]_vars

-----------------------------------------------------------------------------
(* A code that is issued without asking the user carries only scopes that   *)
(* this user has told the server to remember for this client, and that the  *)
(* client may have: however decisions interleave, the record they combine   *)
(* never grants more than they did.                                         *)
UnaskedWasRemembered ==
  \A c \in Call : At(c, "issue") /\ call[c].by = "record" =>
    /\ call[c].scope \subseteq remembered[call[c].party]
    /\ call[c].scope = validateScopes(call[c].scope, clientScope[call[c].party[2]])

(* "Remember this decision": a user and a client have at most one record,   *)
(* and it is exactly what was remembered, unless two decisions overlapped   *)
(* between the query for the record and the write.                          *)
RememberedIsKept ==
  \A p \in Party \ disputed :
    /\ consents[p] \subseteq {kept[p]}
    /\ kept[p] # {} => consents[p] # {}
=============================================================================
