----------------------------- MODULE OAuthTokens -----------------------------
(***************************************************************************)
(* The token endpoint and what follows it: authorization codes are         *)
(* exchanged for opaque tokens, refresh tokens and client credentials for  *)
(* JWTs; every token of a grant is a row of oauth_access_tokens, usually   *)
(* with an internal JWT mapped to it; tokens are introspected and revoked. *)
(*                                                                         *)
(* Handlers that await are slots of Call.  One SQL statement is one step,  *)
(* with the synchronous code after it.  Clients, secrets, redirect URIs    *)
(* and PKCE verifiers never change after registration and authorization:   *)
(* a request that fails those checks changes nothing and is left out.      *)
(***************************************************************************)

CONSTANTS
  Code,       \* authorization codes
  Session,    \* refresh JWTs that POST /auth/login handed out
  Machine,    \* the source of a token made for client credentials
  Token,      \* access tokens a grant may generate; each value once
  None,
  Call

Source == Code \cup Session \cup {Machine}

ASSUME SourcesAssumption ==
  /\ Code \cap Session = {}
  /\ Machine \notin Code \cup Session
  /\ None \notin Source

VARIABLES
  issued,      \* codes with a row in authorization_codes
  used,        \* codes whose row has is_used
  expired,     \* codes and login refresh tokens whose lifetime is over
  origin,      \* what a generated token was generated for
  access,      \* rows of oauth_access_tokens
  refreshRows, \* tokens whose grant also stored an opaque refresh token
  mapping,     \* tokens with a row in token_mappings that has not expired
  revoked,     \* values in revoked_tokens: access tokens, login refresh tokens
  revokedJwt,  \* tokens whose mapped JWT is in revoked_tokens
  handed,      \* tokens of grants that were answered
  bridged,     \* history: tokens that got a mapping
  raced,       \* history: codes two handlers have checked before either marked them
  call

rows == <<issued, used, expired, origin, access, refreshRows, mapping, revoked, revokedJwt>>
vars == <<rows, handed, bridged, raced, call>>

-----------------------------------------------------------------------------
Idle == [at |-> "idle"]
CallState ==
  [at : {"idle"}]
    \cup [at : {"mark"}, source : Code]
    \cup [at : {"storeAccess", "storeRefresh", "convert"}, source : Source, token : Token]
    \cup [at : {"rotate"}, source : Session, token : Token]
    \cup [at : {"findMapping", "findToken", "revokeJwt", "unmap"}, token : Token]

TypeOK ==
  /\ issued \subseteq Code
  /\ used \subseteq Code
  /\ expired \subseteq Code \cup Session
  /\ origin \in [Token -> Source \cup {None}]
  /\ access \in [Token -> {"none", "live", "expired"}]
  /\ refreshRows \subseteq Token
  /\ mapping \subseteq Token
  /\ revoked \subseteq Token \cup Session
  /\ revokedJwt \subseteq Token
  /\ handed \subseteq Token
  /\ bridged \subseteq Token
  /\ raced \subseteq Code
  /\ call \in [Call -> CallState]

Init ==
  /\ issued = {} /\ used = {} /\ expired = {}
  /\ origin = [t \in Token |-> None]
  /\ access = [t \in Token |-> "none"]
  /\ refreshRows = {} /\ mapping = {}
  /\ revoked = {} /\ revokedJwt = {}
  /\ handed = {} /\ bridged = {} /\ raced = {}
  /\ call = [c \in Call |-> Idle]

Goes(c, s) == call' = [call EXCEPT ![c] = s]
Ends(c) == Goes(c, Idle)
Answers(c, t) == Ends(c) /\ handed' = handed \cup {t}

(* Generate a token for a grant and go on to store it: a random string or a *)
(* JWT with a random jti.                                                   *)
Generate(c, s) ==
  \E t \in Token :
    /\ origin[t] = None
    /\ origin' = [origin EXCEPT ![t] = s]
    /\ Goes(c, [at |-> "storeAccess", source |-> s, token |-> t])

-----------------------------------------------------------------------------
issueAuthorizationCode(k) ==
  /\ k \notin issued
  /\ issued' = issued \cup {k}
  /\ UNCHANGED <<used, expired, origin, access, refreshRows, mapping, revoked,
                 revokedJwt, handed, bridged, raced, call>>

Marking(c, k) == call[c].at = "mark" /\ call[c].source = k
Checks(c, k) ==
  /\ Goes(c, [at |-> "mark", source |-> k])
  /\ raced' = IF \E d \in Call : Marking(d, k) THEN raced \cup {k} ELSE raced
  /\ UNCHANGED <<rows, handed, bridged>>

(* Variant that would be a bug: is_used is not looked at.                   *)
handleAuthorizationCodeGrant_Unused(c, k) ==
  /\ call[c].at = "idle"
  /\ k \in issued \ expired
  /\ Checks(c, k)

(* handleAuthorizationCodeGrant: the row is read and checked, then marked.  *)
handleAuthorizationCodeGrant(c, k) ==
  /\ call[c].at = "idle"
  /\ k \in issued \ (used \cup expired)
  /\ Checks(c, k)

(* Variant that would be a bug: the code is not marked.                     *)
useAuthorizationCode_Skipped(c) ==
  /\ call[c].at = "mark"
  /\ Generate(c, call[c].source)
  /\ UNCHANGED <<issued, used, expired, access, refreshRows, mapping, revoked,
                 revokedJwt, handed, bridged, raced>>
useAuthorizationCode(c) ==
  /\ call[c].at = "mark"
  /\ used' = used \cup {call[c].source}
  /\ Generate(c, call[c].source)
  /\ UNCHANGED <<issued, expired, access, refreshRows, mapping, revoked,
                 revokedJwt, handed, bridged, raced>>

(* handleRefreshTokenGrant verifies a JWT of type "refresh" and looks it up *)
(* in revoked_tokens.  The refresh tokens that the grants hand out are      *)
(* opaque, so the first check refuses each of them.                         *)
handleRefreshTokenGrant(c, s) ==
  /\ call[c].at = "idle"
  /\ s \notin expired \cup revoked
  /\ Generate(c, s)
  /\ UNCHANGED <<issued, used, expired, access, refreshRows, mapping, revoked,
                 revokedJwt, handed, bridged, raced>>

handleClientCredentialsGrant(c) ==
  /\ call[c].at = "idle"
  /\ Generate(c, Machine)
  /\ UNCHANGED <<issued, used, expired, access, refreshRows, mapping, revoked,
                 revokedJwt, handed, bridged, raced>>

(* Variant that would be a bug: like storeAccessToken, it hides a failure.  *)
createAccessToken_Swallows(c) ==
  LET s == call[c] IN
  /\ s.at = "storeAccess" /\ s.source \in Code
  /\ \E row \in {"none", "live"} : access' = [access EXCEPT ![s.token] = row]
  /\ Goes(c, [at |-> "convert", source |-> s.source, token |-> s.token])
  /\ UNCHANGED <<issued, used, expired, origin, refreshRows, mapping, revoked,
                 revokedJwt, handed, bridged, raced>>

(* createAccessToken throws when the insert fails, which ends the handler;  *)
(* a client without the refresh_token grant gets no refresh token.          *)
createAccessToken(c) ==
  LET s == call[c] IN
  /\ s.at = "storeAccess" /\ s.source \in Code
  /\ access' = [access EXCEPT ![s.token] = "live"]
  /\ \E next \in {"storeRefresh", "convert"} :
       Goes(c, [at |-> next, source |-> s.source, token |-> s.token])
  /\ UNCHANGED <<issued, used, expired, origin, refreshRows, mapping, revoked,
                 revokedJwt, handed, bridged, raced>>

(* storeAccessToken reports a failed insert in a result nobody looks at.    *)
(* Client credentials are answered next; their other JWT is dropped.        *)
storeAccessToken(c) ==
  LET s == call[c] IN
  /\ s.at = "storeAccess" /\ s.source \notin Code
  /\ \E row \in {"none", "live"} : access' = [access EXCEPT ![s.token] = row]
  /\ \/ s.source = Machine /\ Answers(c, s.token)
     \/ /\ s.source \in Session
        /\ Goes(c, [at |-> "storeRefresh", source |-> s.source, token |-> s.token])
        /\ UNCHANGED handed
  /\ UNCHANGED <<issued, used, expired, origin, refreshRows, mapping, revoked,
                 revokedJwt, bridged, raced>>

createRefreshToken(c) ==
  LET s == call[c] IN
  /\ s.at = "storeRefresh"
  /\ refreshRows' = refreshRows \cup {s.token}
  /\ Goes(c, [at |-> "convert", source |-> s.source, token |-> s.token])
  /\ UNCHANGED <<issued, used, expired, origin, access, mapping, revoked,
                 revokedJwt, handed, bridged, raced>>

(* Variant that would be a bug: the grant is answered before the old        *)
(* refresh token is revoked.                                                *)
convertOAuthToJWT_Answers(c) ==
  LET s == call[c] IN
  /\ s.at = "convert"
  /\ mapping' = mapping \cup {s.token}
  /\ bridged' = bridged \cup {s.token}
  /\ Answers(c, s.token)
  /\ UNCHANGED <<issued, used, expired, origin, access, refreshRows, revoked,
                 revokedJwt, raced>>

(* convertOAuthToJWT stores the mapping, the last step of a code grant.     *)
convertOAuthToJWT(c) ==
  LET s == call[c] IN
  /\ s.at = "convert"
  /\ mapping' = mapping \cup {s.token}
  /\ bridged' = bridged \cup {s.token}
  /\ \/ s.source \in Code /\ Answers(c, s.token)
     \/ /\ s.source \in Session
        /\ Goes(c, [at |-> "rotate", source |-> s.source, token |-> s.token])
        /\ UNCHANGED handed
  /\ UNCHANGED <<issued, used, expired, origin, access, refreshRows, revoked,
                 revokedJwt, raced>>

(* The refresh grant revokes the old refresh token last.                    *)
RotateSession(c) ==
  /\ call[c].at = "rotate"
  /\ revoked' = revoked \cup {call[c].source}
  /\ Answers(c, call[c].token)
  /\ UNCHANGED <<issued, used, expired, origin, access, refreshRows, mapping,
                 revokedJwt, bridged, raced>>

-----------------------------------------------------------------------------
(* revokeOAuthAndJWT: revokeAccessToken reports a failed insert in a result *)
(* nobody looks at.  The value may be a login refresh token, which has no   *)
(* mapping: the second statement then changes nothing.                      *)
revoke(c, t) ==
  /\ call[c].at = "idle"
  /\ revoked' \in {revoked, revoked \cup {t}}
  /\ Goes(c, [at |-> "findMapping", token |-> t])
  /\ UNCHANGED <<issued, used, expired, origin, access, refreshRows, mapping,
                 revokedJwt, handed, bridged, raced>>

revokeSession(s) ==
  /\ revoked' = revoked \cup {s}
  /\ UNCHANGED <<issued, used, expired, origin, access, refreshRows, mapping,
                 revokedJwt, handed, bridged, raced, call>>

FindMapping(c) ==
  LET t == call[c].token IN
  /\ call[c].at = "findMapping"
  /\ IF t \in mapping THEN Goes(c, [at |-> "findToken", token |-> t]) ELSE Ends(c)
  /\ UNCHANGED <<rows, handed, bridged, raced>>

(* The row of the access token names the user; an expired one is not found. *)
FindToken(c) ==
  LET t == call[c].token IN
  /\ call[c].at = "findToken"
  /\ IF access[t] = "live" THEN Goes(c, [at |-> "revokeJwt", token |-> t]) ELSE Ends(c)
  /\ UNCHANGED <<rows, handed, bridged, raced>>

(* Variant of RevokeJwt that would be a bug: the mapping goes first.        *)
RevokeJwt_Skipped(c) ==
  /\ call[c].at = "revokeJwt"
  /\ Goes(c, [at |-> "unmap", token |-> call[c].token])
  /\ UNCHANGED <<rows, handed, bridged, raced>>
RevokeJwt(c) ==
  /\ call[c].at = "revokeJwt"
  /\ revokedJwt' = revokedJwt \cup {call[c].token}
  /\ Goes(c, [at |-> "unmap", token |-> call[c].token])
  /\ UNCHANGED <<issued, used, expired, origin, access, refreshRows, mapping,
                 revoked, handed, bridged, raced>>

deleteTokenMappingByOAuth(c) ==
  /\ call[c].at = "unmap"
  /\ mapping' = mapping \ {call[c].token}
  /\ Ends(c)
  /\ UNCHANGED <<issued, used, expired, origin, access, refreshRows, revoked,
                 revokedJwt, handed, bridged, raced>>

-----------------------------------------------------------------------------
Expire(x) ==
  /\ expired' = expired \cup {x}
  /\ UNCHANGED <<issued, used, origin, access, refreshRows, mapping, revoked,
                 revokedJwt, handed, bridged, raced, call>>

(* A mapping is made after the row of its token and expires after it.       *)
ExpireToken(t) ==
  /\ \/ access[t] = "live" /\ access' = [access EXCEPT ![t] = "expired"] /\ UNCHANGED mapping
     \/ access[t] # "live" /\ mapping' = mapping \ {t} /\ UNCHANGED access
  /\ UNCHANGED <<issued, used, expired, origin, refreshRows, revoked,
                 revokedJwt, handed, bridged, raced, call>>

(* A statement fails, or the process stops: nothing is rolled back.         *)
Fails(c) ==
  /\ call[c].at # "idle"
  /\ Ends(c)
  /\ UNCHANGED <<rows, handed, bridged, raced>>

Restart ==
  /\ call' = [c \in Call |-> Idle]
  /\ UNCHANGED <<rows, handed, bridged, raced>>

Step(c) ==
  \/ \E k \in Code : handleAuthorizationCodeGrant(c, k)
  \/ useAuthorizationCode(c)
  \/ \E s \in Session : handleRefreshTokenGrant(c, s)
  \/ handleClientCredentialsGrant(c)
  \/ createAccessToken(c)
  \/ storeAccessToken(c)
  \/ createRefreshToken(c)
  \/ convertOAuthToJWT(c)
  \/ RotateSession(c)
  \/ \E t \in handed : revoke(c, t)
  \/ FindMapping(c)
  \/ FindToken(c)
  \/ RevokeJwt(c)
  \/ deleteTokenMappingByOAuth(c)
  \/ Fails(c)

Next ==
  \/ \E k \in Code : issueAuthorizationCode(k)
  \/ \E s \in Session : revokeSession(s)
  \/ \E x \in issued \cup Session : Expire(x)
  \/ \E t \in Token : ExpireToken(t)
  \/ \E c \in Call : Step(c)
  \/ Restart

Spec == Init /\ [][Next]_vars

-----------------------------------------------------------------------------
(* introspect answers "active" for a row that has not expired: nothing ever *)
(* marks it as revoked, and the list of revoked tokens is not looked at.    *)
introspect(t) == access[t] = "live"

(* A code is spent before anything is stored for it: whatever fails or      *)
(* stops afterwards, no code that brought forth a token can be exchanged.   *)
SpentFirst ==
  \A t \in Token : access[t] # "none" /\ origin[t] \in Code => origin[t] \in used

(* The answer of a code grant names only tokens the server knows: the       *)
(* resource owner can introspect and revoke them.                           *)
CodeTokensAreKnown ==
  \A t \in handed : origin[t] \in Code => access[t] # "none" /\ t \in bridged

(* A refresh grant that was answered has revoked the token it was given.    *)
AnsweredMeansRotated ==
  \A t \in handed : origin[t] \in Session => origin[t] \in revoked

(* While a token lives, its internal JWT is either reachable through the    *)
(* mapping or revoked: no interleaving or failure of revocations loses it.  *)
NoOrphanJwt ==
  \A t \in bridged : introspect(t) => t \in mapping \cup revokedJwt

(* A code brings forth one token, answered or not, whatever fails and       *)
(* whatever else goes on, unless two handlers have read its row before      *)
(* either of them marked it.                                                *)
OneTokenPerCode ==
  \A t, u \in Token :
    /\ access[t] # "none" /\ access[u] # "none"
    /\ origin[t] = origin[u] /\ origin[t] \in Code \ raced
    => t = u
=============================================================================
