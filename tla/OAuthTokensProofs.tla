--------------------------- MODULE OAuthTokensProofs ---------------------------
(* Proofs about OAuthTokens, for every value of its constants. *)
EXTENDS OAuthTokens, TLAPS

-----------------------------------------------------------------------------
(* The fields of a call, by where it is.                                    *)

Granting == {"storeAccess", "storeRefresh", "convert", "rotate"}
Revoking == {"findMapping", "findToken", "revokeJwt", "unmap"}

LEMMA CallFields ==
  ASSUME NEW s \in CallState
  PROVE  /\ s.at \in {"idle", "mark"} \cup Granting \cup Revoking
         /\ s.at = "mark" => s.source \in Code
         /\ s.at \in Granting => s.source \in Source /\ s.token \in Token
         /\ s.at = "rotate" => s.source \in Session
         /\ s.at \in Revoking => s.token \in Token
<1>1. CASE s \in [at : {"idle"}]  BY <1>1 DEF Granting, Revoking
<1>2. CASE s \in [at : {"mark"}, source : Code]  BY <1>2 DEF Granting, Revoking
<1>3. CASE s \in [at : {"storeAccess", "storeRefresh", "convert"},
                  source : Source, token : Token]
  BY <1>3 DEF Granting, Revoking
<1>4. CASE s \in [at : {"rotate"}, source : Session, token : Token]
  BY <1>4 DEF Granting, Revoking, Source
<1>5. CASE s \in [at : {"findMapping", "findToken", "revokeJwt", "unmap"}, token : Token]
  BY <1>5 DEF Granting, Revoking
<1>. QED  BY <1>1, <1>2, <1>3, <1>4, <1>5 DEF CallState

LEMMA CallStates ==
  /\ Idle \in CallState
  /\ \A k \in Code : [at |-> "mark", source |-> k] \in CallState
  /\ \A s \in Source, t \in Token, at \in Granting \ {"rotate"} :
       [at |-> at, source |-> s, token |-> t] \in CallState
  /\ \A s \in Session, t \in Token :
       [at |-> "rotate", source |-> s, token |-> t] \in CallState
  /\ \A t \in Token, at \in Revoking : [at |-> at, token |-> t] \in CallState
BY DEF CallState, Idle, Granting, Revoking

LEMMA Moves ==
  ASSUME call \in [Call -> CallState], NEW c \in Call, NEW s, Goes(c, s)
  PROVE  /\ call'[c] = s
         /\ \A d \in Call : d # c => call'[d] = call[d]
         /\ s \in CallState => call' \in [Call -> CallState]
BY DEF Goes

-----------------------------------------------------------------------------
(* Type correctness *)

LEMMA GenerateType ==
  ASSUME TypeOK, NEW c \in Call, NEW s \in Source, Generate(c, s)
  PROVE  /\ origin' \in [Token -> Source \cup {None}]
         /\ call' \in [Call -> CallState]
<1>1. PICK t \in Token :
        /\ origin' = [origin EXCEPT ![t] = s]
        /\ Goes(c, [at |-> "storeAccess", source |-> s, token |-> t])
  BY DEF Generate
<1>2. [at |-> "storeAccess", source |-> s, token |-> t] \in CallState
  BY CallStates DEF Granting
<1>. QED  BY <1>1, <1>2, Moves DEF TypeOK

LEMMA GrantBeginsType ==
  ASSUME TypeOK, NEW c \in Call,
         \/ \E k \in Code : handleAuthorizationCodeGrant(c, k)
         \/ useAuthorizationCode(c)
         \/ \E s \in Session : handleRefreshTokenGrant(c, s)
         \/ handleClientCredentialsGrant(c)
  PROVE  TypeOK'
<1>1. ASSUME NEW k \in Code, handleAuthorizationCodeGrant(c, k)  PROVE  TypeOK'
  <2>1. [at |-> "mark", source |-> k] \in CallState  BY CallStates
  <2>2. call' \in [Call -> CallState]
    BY <1>1, <2>1, Moves DEF handleAuthorizationCodeGrant, Checks, TypeOK
  <2>. QED  BY <1>1, <2>2 DEF handleAuthorizationCodeGrant, Checks, TypeOK, rows
<1>2. CASE useAuthorizationCode(c)
  <2>1. call[c].source \in Code  BY <1>2, CallFields DEF useAuthorizationCode, TypeOK
  <2>2. /\ origin' \in [Token -> Source \cup {None}]
        /\ call' \in [Call -> CallState]
    BY <1>2, <2>1, GenerateType DEF useAuthorizationCode, Source
  <2>. QED  BY <1>2, <2>1, <2>2 DEF useAuthorizationCode, TypeOK
<1>3. ASSUME NEW s \in Session, handleRefreshTokenGrant(c, s)  PROVE  TypeOK'
  <2>1. /\ origin' \in [Token -> Source \cup {None}]
        /\ call' \in [Call -> CallState]
    BY <1>3, GenerateType DEF handleRefreshTokenGrant, Source
  <2>. QED  BY <1>3, <2>1 DEF handleRefreshTokenGrant, TypeOK
<1>4. CASE handleClientCredentialsGrant(c)
  <2>1. /\ origin' \in [Token -> Source \cup {None}]
        /\ call' \in [Call -> CallState]
    BY <1>4, GenerateType DEF handleClientCredentialsGrant, Source
  <2>. QED  BY <1>4, <2>1 DEF handleClientCredentialsGrant, TypeOK
<1>. QED  BY <1>1, <1>2, <1>3, <1>4

LEMMA GrantGoesOnType ==
  ASSUME TypeOK, NEW c \in Call,
         \/ createAccessToken(c) \/ storeAccessToken(c) \/ createRefreshToken(c)
         \/ convertOAuthToJWT(c) \/ RotateSession(c)
  PROVE  TypeOK'
<1>. DEFINE s == call[c]
<1>0. s \in CallState /\ s.at \in Granting
  BY DEF TypeOK, Granting, createAccessToken, storeAccessToken, createRefreshToken,
         convertOAuthToJWT, RotateSession
<1>1. s.source \in Source /\ s.token \in Token  BY <1>0, CallFields
<1>2. /\ \A at \in Granting \ {"rotate"} :
             [at |-> at, source |-> s.source, token |-> s.token] \in CallState
      /\ s.source \in Session =>
             [at |-> "rotate", source |-> s.source, token |-> s.token] \in CallState
  BY <1>1, CallStates
<1>3. Idle \in CallState  BY CallStates
<1>4. CASE createAccessToken(c)
  <2>1. call' \in [Call -> CallState]
    BY <1>4, <1>2, Moves DEF createAccessToken, Granting, TypeOK
  <2>2. access' \in [Token -> {"none", "live", "expired"}]
    BY <1>4 DEF createAccessToken, TypeOK
  <2>. QED  BY <1>4, <2>1, <2>2 DEF createAccessToken, TypeOK
<1>5. CASE storeAccessToken(c)
  <2>1. call' \in [Call -> CallState]
    BY <1>5, <1>2, <1>3, Moves DEF storeAccessToken, Answers, Ends, Granting, TypeOK
  <2>2. access' \in [Token -> {"none", "live", "expired"}]
    BY <1>5 DEF storeAccessToken, TypeOK
  <2>3. handed' \subseteq Token  BY <1>5, <1>1 DEF storeAccessToken, Answers, TypeOK
  <2>. QED  BY <1>5, <2>1, <2>2, <2>3 DEF storeAccessToken, TypeOK
<1>6. CASE createRefreshToken(c)
  <2>1. call' \in [Call -> CallState]
    BY <1>6, <1>2, Moves DEF createRefreshToken, Granting, TypeOK
  <2>. QED  BY <1>6, <1>1, <2>1 DEF createRefreshToken, TypeOK
<1>7. CASE convertOAuthToJWT(c)
  <2>1. call' \in [Call -> CallState]
    BY <1>7, <1>2, <1>3, Moves DEF convertOAuthToJWT, Answers, Ends, Granting, TypeOK
  <2>2. handed' \subseteq Token  BY <1>7, <1>1 DEF convertOAuthToJWT, Answers, TypeOK
  <2>. QED  BY <1>7, <1>1, <2>1, <2>2 DEF convertOAuthToJWT, TypeOK
<1>8. CASE RotateSession(c)
  <2>1. call' \in [Call -> CallState]
    BY <1>8, <1>3, Moves DEF RotateSession, Answers, Ends, TypeOK
  <2>2. s.source \in Session  BY <1>8, <1>0, CallFields DEF RotateSession
  <2>. QED  BY <1>8, <1>1, <2>1, <2>2 DEF RotateSession, Answers, TypeOK
<1>. QED  BY <1>4, <1>5, <1>6, <1>7, <1>8

LEMMA RevokingType ==
  ASSUME TypeOK, NEW c \in Call,
         \/ \E t \in handed : revoke(c, t)
         \/ FindMapping(c) \/ FindToken(c) \/ RevokeJwt(c) \/ deleteTokenMappingByOAuth(c)
  PROVE  TypeOK'
<1>1. ASSUME NEW t \in handed, revoke(c, t)  PROVE  TypeOK'
  <2>1. t \in Token  BY DEF TypeOK
  <2>2. [at |-> "findMapping", token |-> t] \in CallState
    BY <2>1, CallStates DEF Revoking
  <2>3. call' \in [Call -> CallState]  BY <1>1, <2>2, Moves DEF revoke, TypeOK
  <2>. QED  BY <1>1, <2>1, <2>3 DEF revoke, TypeOK
<1>2. CASE FindMapping(c) \/ FindToken(c) \/ RevokeJwt(c) \/ deleteTokenMappingByOAuth(c)
  <2>. DEFINE t == call[c].token
  <2>1. call[c] \in CallState /\ call[c].at \in Revoking
    BY <1>2 DEF TypeOK, Revoking, FindMapping, FindToken, RevokeJwt,
                deleteTokenMappingByOAuth
  <2>2. t \in Token  BY <2>1, CallFields
  <2>3. \A at \in Revoking : [at |-> at, token |-> t] \in CallState
    BY <2>2, CallStates
  <2>4. call' \in [Call -> CallState]
    BY <1>2, <2>3, CallStates, Moves
       DEF FindMapping, FindToken, RevokeJwt, deleteTokenMappingByOAuth, Ends, Revoking,
           TypeOK
  <2>. QED
    BY <1>2, <2>2, <2>4
       DEF FindMapping, FindToken, RevokeJwt, deleteTokenMappingByOAuth, rows, TypeOK
<1>. QED  BY <1>1, <1>2

LEMMA OtherType ==
  ASSUME TypeOK,
         \/ \E k \in Code : issueAuthorizationCode(k)
         \/ \E t \in Token : ExpireToken(t)
         \/ \E s \in Session : revokeSession(s)
         \/ \E x \in issued \cup Session : Expire(x)
         \/ \E c \in Call : Fails(c)
         \/ Restart
  PROVE  TypeOK'
<1>1. ASSUME NEW k \in Code, issueAuthorizationCode(k)  PROVE  TypeOK'
  BY <1>1 DEF issueAuthorizationCode, TypeOK
<1>2. ASSUME NEW t \in Token, ExpireToken(t)  PROVE  TypeOK'
  BY <1>2 DEF ExpireToken, TypeOK
<1>3. ASSUME NEW s \in Session, revokeSession(s)  PROVE  TypeOK'
  BY <1>3 DEF revokeSession, TypeOK
<1>4. ASSUME NEW x \in issued \cup Session, Expire(x)  PROVE  TypeOK'
  BY <1>4 DEF Expire, TypeOK
<1>5. ASSUME NEW c \in Call, Fails(c)  PROVE  TypeOK'
  <2>1. call' \in [Call -> CallState]
    BY <1>5, CallStates, Moves DEF Fails, Ends, TypeOK
  <2>. QED  BY <1>5, <2>1 DEF Fails, rows, TypeOK
<1>6. CASE Restart
  <2>1. call' \in [Call -> CallState]  BY <1>6, CallStates DEF Restart
  <2>. QED  BY <1>6, <2>1 DEF Restart, rows, TypeOK
<1>. QED  BY <1>1, <1>2, <1>3, <1>4, <1>5, <1>6

LEMMA InitType == Init => TypeOK
BY CallStates DEF Init, TypeOK

LEMMA NextType == TypeOK /\ [Next]_vars => TypeOK'
<1>. SUFFICES ASSUME TypeOK, [Next]_vars  PROVE  TypeOK'
  OBVIOUS
<1>1. CASE UNCHANGED vars  BY <1>1 DEF vars, rows, TypeOK
<1>2. ASSUME NEW c \in Call, Step(c)  PROVE  TypeOK'
  BY <1>2, GrantBeginsType, GrantGoesOnType, RevokingType, OtherType DEF Step
<1>. QED  BY <1>1, <1>2, OtherType DEF Next

(* Every variable keeps its type, whatever the calls in progress, the       *)
(* failures and the restarts.                                               *)
THEOREM TypeCorrect == Spec => []TypeOK
BY InitType, NextType, PTL DEF Spec

-----------------------------------------------------------------------------
(* The inductive invariant.  A grant in progress owns its token: it is the  *)
(* one the token was generated for, no other call is granting the token,    *)
(* and the token has no mapping before its row is written.                  *)

Owns(s, from, rowOf, mapped) ==
  s.at \in Granting =>
    /\ from[s.token] = s.source
    /\ s.at = "storeAccess" => s.token \notin mapped
    /\ s.at \in {"storeRefresh", "convert"} /\ s.source \in Code => rowOf[s.token] # "none"

GrantsOwn == \A c \in Call : Owns(call[c], origin, access, bridged)

GrantsApart ==
  \A c, d \in Call :
    /\ call[c].at \in Granting /\ call[d].at \in Granting
    /\ call[c].token = call[d].token
    => c = d

(* A code of which a token was generated is spent.                          *)
OriginsSpent == \A t \in Token : origin[t] \in Code => origin[t] \in used

(* Only generated tokens are answered or mapped.                            *)
Generated == \A t \in handed \cup bridged : origin[t] # None

(* A mapping is dropped after the JWT was revoked.                          *)
JwtFirst == \A c \in Call : call[c].at = "unmap" => call[c].token \in revokedJwt

TokenInv ==
  /\ TypeOK
  /\ GrantsOwn /\ GrantsApart /\ OriginsSpent /\ Generated /\ JwtFirst
  /\ CodeTokensAreKnown /\ AnsweredMeansRotated /\ NoOrphanJwt

(* A call that moves while no token is generated.                           *)
LEMMA GrantsMove ==
  ASSUME TokenInv, NEW c \in Call, NEW s, Goes(c, s), UNCHANGED origin,
         s.at \in Granting => call[c].at \in Granting /\ call[c].token = s.token,
         Owns(s, origin, access', bridged'),
         \A d \in Call : d # c /\ call[d].at \in Granting =>
           /\ access'[call[d].token] = access[call[d].token]
           /\ call[d].token \in bridged' => call[d].token \in bridged
  PROVE  GrantsOwn' /\ GrantsApart'
<1>. USE DEF TokenInv
<1>1. call'[c] = s /\ \A d \in Call : d # c => call'[d] = call[d]
  BY Moves DEF TypeOK
<1>2. ASSUME NEW d \in Call  PROVE  Owns(call'[d], origin', access', bridged')
  <2>1. CASE d = c  BY <1>1, <2>1
  <2>2. CASE d # c
    <3>1. Owns(call[d], origin, access, bridged)  BY DEF GrantsOwn
    <3>. QED  BY <1>1, <2>2, <3>1 DEF Owns
  <2>. QED  BY <2>1, <2>2
<1>3. GrantsApart'  BY <1>1 DEF GrantsApart
<1>. QED  BY <1>2, <1>3 DEF GrantsOwn

LEMMA JwtFirstMoves ==
  ASSUME TokenInv, NEW c \in Call, NEW s, Goes(c, s), revokedJwt \subseteq revokedJwt',
         s.at = "unmap" => s.token \in revokedJwt'
  PROVE  JwtFirst'
<1>1. call'[c] = s /\ \A d \in Call : d # c => call'[d] = call[d]
  BY Moves DEF TypeOK, TokenInv
<1>. QED  BY <1>1 DEF TokenInv, JwtFirst

(* A call that begins a grant generates a token that nothing knows yet.     *)
LEMMA GenerateInv ==
  ASSUME TokenInv, TypeOK', NEW c \in Call, NEW s \in Source, Generate(c, s),
         used \subseteq used', s \in Code => s \in used',
         UNCHANGED <<access, mapping, revoked, revokedJwt, handed, bridged>>
  PROVE  TokenInv'
<1>. USE DEF TokenInv
<1>1. PICK t \in Token :
        /\ origin[t] = None
        /\ origin' = [origin EXCEPT ![t] = s]
        /\ Goes(c, [at |-> "storeAccess", source |-> s, token |-> t])
  BY DEF Generate
<1>. DEFINE new == [at |-> "storeAccess", source |-> s, token |-> t]
<1>2. call'[c] = new /\ \A d \in Call : d # c => call'[d] = call[d]
  BY <1>1, Moves DEF TypeOK
<1>3. new.at = "storeAccess" /\ new.source = s /\ new.token = t
  OBVIOUS
<1>. HIDE DEF new
<1>4. \A d \in Call : call[d].at \in Granting =>
        /\ call[d].token \in Token /\ origin[call[d].token] # None
        /\ call[d].token # t
  BY <1>1, CallFields, SourcesAssumption DEF TypeOK, GrantsOwn, Owns
<1>5. t \notin handed \cup bridged  BY <1>1 DEF Generated
<1>6. origin'[t] = s /\ \A u \in Token : u # t => origin'[u] = origin[u]
  BY <1>1 DEF TypeOK
<1>7. ASSUME NEW d \in Call  PROVE  Owns(call'[d], origin', access', bridged')
  <2>1. CASE d = c  BY <1>2, <1>3, <1>5, <1>6, <2>1 DEF Owns, Granting
  <2>2. CASE d # c
    <3>1. Owns(call[d], origin, access, bridged)  BY DEF GrantsOwn
    <3>. QED  BY <1>2, <1>4, <1>6, <2>2, <3>1 DEF Owns
  <2>. QED  BY <2>1, <2>2
<1>8. GrantsApart'  BY <1>2, <1>3, <1>4 DEF GrantsApart
<1>9. OriginsSpent'  BY <1>6 DEF OriginsSpent
<1>10. Generated'  BY <1>5, <1>6 DEF Generated, TypeOK
<1>11. JwtFirst'  BY <1>2, <1>3 DEF JwtFirst
<1>12. CodeTokensAreKnown' /\ AnsweredMeansRotated' /\ NoOrphanJwt'
  BY <1>5, <1>6 DEF TypeOK, CodeTokensAreKnown, AnsweredMeansRotated, NoOrphanJwt, introspect
<1>. QED  BY <1>7, <1>8, <1>9, <1>10, <1>11, <1>12 DEF GrantsOwn

LEMMA BeginInv ==
  ASSUME TokenInv, TypeOK', NEW c \in Call,
         \/ useAuthorizationCode(c)
         \/ \E s \in Session : handleRefreshTokenGrant(c, s)
         \/ handleClientCredentialsGrant(c)
  PROVE  TokenInv'
<1>1. CASE useAuthorizationCode(c)
  <2>1. call[c].source \in Code
    BY <1>1, CallFields DEF useAuthorizationCode, TokenInv, TypeOK
  <2>. QED  BY <1>1, <2>1, GenerateInv DEF useAuthorizationCode, Source
<1>2. ASSUME NEW s \in Session, handleRefreshTokenGrant(c, s)  PROVE  TokenInv'
  BY <1>2, GenerateInv, SourcesAssumption DEF handleRefreshTokenGrant, Source
<1>3. CASE handleClientCredentialsGrant(c)
  BY <1>3, GenerateInv, SourcesAssumption DEF handleClientCredentialsGrant, Source
<1>. QED  BY <1>1, <1>2, <1>3

LEMMA GoOnInv ==
  ASSUME TokenInv, TypeOK', NEW c \in Call,
         \/ createAccessToken(c) \/ storeAccessToken(c) \/ createRefreshToken(c)
         \/ convertOAuthToJWT(c) \/ RotateSession(c)
  PROVE  TokenInv'
<1>. USE DEF TokenInv
<1>. DEFINE s == call[c]
            Next3(at) == [at |-> at, source |-> s.source, token |-> s.token]
<1>1. s \in CallState /\ s.at \in Granting
  BY DEF TypeOK, Granting, createAccessToken, storeAccessToken, createRefreshToken,
         convertOAuthToJWT, RotateSession
<1>2. s.source \in Source /\ s.token \in Token  BY <1>1, CallFields
<1>3. Owns(s, origin, access, bridged) /\ origin[s.token] = s.source
  BY <1>1 DEF GrantsOwn, Owns
<1>4. \A d \in Call : d # c /\ call[d].at \in Granting =>
        call[d].token \in Token /\ call[d].token # s.token
  BY <1>1, CallFields DEF TypeOK, GrantsApart
<1>5. \A x : /\ Next3(x).at = x /\ Next3(x).source = s.source /\ Next3(x).token = s.token
  OBVIOUS
<1>6. Idle.at = "idle" /\ "idle" \notin Granting /\ "unmap" \notin Granting
  BY DEF Idle, Granting
<1>7. OriginsSpent'
  BY DEF OriginsSpent, createAccessToken, storeAccessToken, createRefreshToken,
         convertOAuthToJWT, RotateSession
<1>8. s.source # None  BY <1>2, SourcesAssumption
<1>9. Generated'
  BY <1>3, <1>8 DEF Generated, Answers, createAccessToken, storeAccessToken,
                    createRefreshToken, convertOAuthToJWT, RotateSession
<1>. HIDE DEF s, Next3
<1>10. CASE createAccessToken(c)
  <2>. USE <1>10 DEF createAccessToken
  <2>1. PICK at \in {"storeRefresh", "convert"} : Goes(c, Next3(at))
    BY DEF s, Next3
  <2>2. access'[s.token] = "live" /\ \A t \in Token : t # s.token => access'[t] = access[t]
    BY <1>2 DEF TypeOK, s
  <2>3. Owns(Next3(at), origin, access', bridged')
    BY <2>1, <2>2, <1>3, <1>5 DEF Owns
  <2>4. GrantsOwn' /\ GrantsApart'
    BY <2>1, <2>2, <2>3, <1>1, <1>4, <1>5, GrantsMove DEF s
  <2>5. JwtFirst'  BY <2>1, <1>5, JwtFirstMoves
  <2>6. s.token \notin bridged  BY <1>1, <1>3 DEF Owns, s
  <2>7. CodeTokensAreKnown' /\ AnsweredMeansRotated' /\ NoOrphanJwt'
    BY <2>2, <2>6 DEF TypeOK, CodeTokensAreKnown, AnsweredMeansRotated, NoOrphanJwt, introspect
  <2>. QED  BY <2>4, <2>5, <2>7, <1>7, <1>9
<1>11. CASE storeAccessToken(c)
  <2>. USE <1>11 DEF storeAccessToken
  <2>1. PICK n \in {Idle, Next3("storeRefresh")} : Goes(c, n)
    BY DEF s, Next3, Answers, Ends
  <2>2. \A t \in Token : t # s.token => access'[t] = access[t]
    BY <1>2 DEF TypeOK, s
  <2>3. s.source \notin Code  BY DEF s
  <2>4. Owns(n, origin, access', bridged')
    BY <2>1, <2>3, <1>3, <1>5, <1>6 DEF Owns
  <2>5. GrantsOwn' /\ GrantsApart'
    <3>1. n.at \in Granting => s.at \in Granting /\ s.token = n.token
      BY <1>1, <1>5, <1>6, <2>1
    <3>2. \A d \in Call : d # c /\ call[d].at \in Granting =>
            /\ access'[call[d].token] = access[call[d].token]
            /\ call[d].token \in bridged' => call[d].token \in bridged
      BY <1>4, <2>2
    <3>3. UNCHANGED origin  OBVIOUS
    <3>. HIDE DEF TokenInv, storeAccessToken
    <3>. QED  BY <2>1, <2>4, <3>1, <3>2, <3>3, GrantsMove DEF s
  <2>6. JwtFirst'  BY <2>1, <1>5, <1>6, JwtFirstMoves
  <2>7. s.token \notin bridged  BY <1>1, <1>3 DEF Owns, s
  <2>8. handed' \subseteq handed \cup {s.token}
        /\ (s.token \in handed' => s.token \in handed \/ s.source = Machine)
    BY DEF Answers, s
  <2>9. CodeTokensAreKnown' /\ AnsweredMeansRotated' /\ NoOrphanJwt'
    BY <2>2, <2>3, <2>7, <2>8, <1>3, SourcesAssumption
       DEF TypeOK, CodeTokensAreKnown, AnsweredMeansRotated, NoOrphanJwt, introspect
  <2>. QED  BY <2>5, <2>6, <2>9, <1>7, <1>9
<1>12. CASE createRefreshToken(c)
  <2>. USE <1>12 DEF createRefreshToken
  <2>1. Goes(c, Next3("convert"))  BY DEF s, Next3
  <2>2. Owns(Next3("convert"), origin, access', bridged')
    BY <1>3, <1>5, <1>1 DEF Owns, s
  <2>3. GrantsOwn' /\ GrantsApart'
    BY <2>1, <2>2, <1>1, <1>4, <1>5, GrantsMove DEF s
  <2>4. JwtFirst'  BY <2>1, <1>5, JwtFirstMoves
  <2>5. CodeTokensAreKnown' /\ AnsweredMeansRotated' /\ NoOrphanJwt'
    BY DEF CodeTokensAreKnown, AnsweredMeansRotated, NoOrphanJwt, introspect
  <2>. QED  BY <2>3, <2>4, <2>5, <1>7, <1>9
<1>13. CASE convertOAuthToJWT(c)
  <2>. USE <1>13 DEF convertOAuthToJWT
  <2>1. PICK n \in {Idle, Next3("rotate")} : Goes(c, n) /\ (n # Idle => s.source \in Session)
    BY DEF s, Next3, Answers, Ends
  <2>2. Owns(n, origin, access', bridged')
    BY <2>1, <1>3, <1>5, <1>6 DEF Owns
  <2>3. bridged' = bridged \cup {s.token} /\ mapping' = mapping \cup {s.token}  BY DEF s
  <2>4. GrantsOwn' /\ GrantsApart'
    BY <2>1, <2>2, <2>3, <1>1, <1>4, <1>5, <1>6, GrantsMove DEF s
  <2>5. JwtFirst'  BY <2>1, <1>5, <1>6, JwtFirstMoves
  <2>6. s.source \in Code => access[s.token] # "none"
    BY <1>1, <1>3 DEF Owns, s
  <2>7. s.token \in handed' => s.token \in handed \/ s.source \in Code
    BY DEF Answers, s
  <2>8. handed' \subseteq handed \cup {s.token}  BY DEF Answers, s
  <2>9. CodeTokensAreKnown' /\ AnsweredMeansRotated' /\ NoOrphanJwt'
    BY <2>3, <2>6, <2>7, <2>8, <1>3, SourcesAssumption
       DEF CodeTokensAreKnown, AnsweredMeansRotated, NoOrphanJwt, introspect
  <2>. QED  BY <2>4, <2>5, <2>9, <1>7, <1>9
<1>14. CASE RotateSession(c)
  <2>. USE <1>14 DEF RotateSession
  <2>1. Goes(c, Idle) /\ handed' = handed \cup {s.token} /\ revoked' = revoked \cup {s.source}
    BY DEF Answers, Ends, s
  <2>2. Owns(Idle, origin, access', bridged')  BY <1>6 DEF Owns
  <2>3. GrantsOwn' /\ GrantsApart'  BY <2>1, <2>2, <1>6, GrantsMove
  <2>4. JwtFirst'  BY <2>1, <1>6, JwtFirstMoves
  <2>5. s.source \in Session  BY <1>1, CallFields DEF s
  <2>6. CodeTokensAreKnown' /\ AnsweredMeansRotated' /\ NoOrphanJwt'
    BY <2>1, <2>5, <1>3, SourcesAssumption
       DEF CodeTokensAreKnown, AnsweredMeansRotated, NoOrphanJwt, introspect
  <2>. QED  BY <2>3, <2>4, <2>6, <1>7, <1>9
<1>. QED  BY <1>10, <1>11, <1>12, <1>13, <1>14

(* Revocation, expiry, failures and restarts only take: a mapping is        *)
(* dropped when its JWT is revoked or the token does not live.              *)
LEMMA RevokingInv ==
  ASSUME TokenInv, TypeOK', NEW c \in Call,
         \/ \E k \in Code : handleAuthorizationCodeGrant(c, k)
         \/ \E t \in handed : revoke(c, t)
         \/ FindMapping(c) \/ FindToken(c) \/ RevokeJwt(c) \/ deleteTokenMappingByOAuth(c)
         \/ Fails(c)
  PROVE  TokenInv'
<1>. USE DEF TokenInv
<1>1. /\ UNCHANGED <<used, origin, access, handed, bridged>>
      /\ revoked \subseteq revoked' /\ revokedJwt \subseteq revokedJwt'
  BY DEF handleAuthorizationCodeGrant, Checks, revoke, FindMapping, FindToken, RevokeJwt,
         deleteTokenMappingByOAuth, Fails, rows
<1>2. \A t \in mapping : t \in mapping' \cup revokedJwt'
  BY DEF handleAuthorizationCodeGrant, Checks, revoke, FindMapping, FindToken, RevokeJwt,
         deleteTokenMappingByOAuth, Fails, rows, JwtFirst
<1>3. \E s : /\ Goes(c, s)
             /\ s.at \notin Granting
             /\ s.at = "unmap" => s.token \in revokedJwt'
  <2>. DEFINE Taking(s) == /\ Goes(c, s)
                           /\ s.at \notin Granting
                           /\ s.at = "unmap" => s.token \in revokedJwt'
  <2>1. Idle.at \notin Granting /\ Idle.at # "unmap"  BY DEF Idle, Granting
  <2>2. ASSUME NEW k \in Code, handleAuthorizationCodeGrant(c, k)  PROVE  \E s : Taking(s)
    <3>1. Taking([at |-> "mark", source |-> k])
      BY <2>2 DEF handleAuthorizationCodeGrant, Checks, Granting
    <3>. QED  BY <3>1
  <2>3. ASSUME NEW t \in handed, revoke(c, t)  PROVE  \E s : Taking(s)
    <3>1. Taking([at |-> "findMapping", token |-> t])  BY <2>3 DEF revoke, Granting
    <3>. QED  BY <3>1
  <2>4. ASSUME Goes(c, Idle)  PROVE  \E s : Taking(s)
    <3>1. Taking(Idle)  BY <2>1, <2>4
    <3>. QED  BY <3>1
  <2>5. ASSUME Goes(c, [at |-> "findToken", token |-> call[c].token])  PROVE  \E s : Taking(s)
    <3>1. Taking([at |-> "findToken", token |-> call[c].token])  BY <2>5 DEF Granting
    <3>. QED  BY <3>1
  <2>6. ASSUME Goes(c, [at |-> "revokeJwt", token |-> call[c].token])  PROVE  \E s : Taking(s)
    <3>1. Taking([at |-> "revokeJwt", token |-> call[c].token])  BY <2>6 DEF Granting
    <3>. QED  BY <3>1
  <2>7. ASSUME RevokeJwt(c)  PROVE  \E s : Taking(s)
    <3>1. Taking([at |-> "unmap", token |-> call[c].token])
      BY <2>7 DEF RevokeJwt, Granting
    <3>. QED  BY <3>1
  <2>8. FindMapping(c) => \/ Goes(c, Idle)
                          \/ Goes(c, [at |-> "findToken", token |-> call[c].token])
    BY DEF FindMapping, Ends
  <2>9. FindToken(c) => \/ Goes(c, Idle)
                        \/ Goes(c, [at |-> "revokeJwt", token |-> call[c].token])
    BY DEF FindToken, Ends
  <2>10. deleteTokenMappingByOAuth(c) \/ Fails(c) => Goes(c, Idle)
    BY DEF deleteTokenMappingByOAuth, Fails, Ends
  <2>. HIDE DEF Taking
  <2>11. \E s : Taking(s)
    BY <2>2, <2>3, <2>4, <2>5, <2>6, <2>7, <2>8, <2>9, <2>10, Zenon
  <2>. QED  BY <2>11 DEF Taking
<1>4. PICK s : /\ Goes(c, s)
               /\ s.at \notin Granting
               /\ s.at = "unmap" => s.token \in revokedJwt'
  BY <1>3
<1>5. GrantsOwn' /\ GrantsApart'
  BY <1>1, <1>4, GrantsMove DEF Owns
<1>6. JwtFirst'  BY <1>1, <1>4, JwtFirstMoves
<1>7. OriginsSpent' /\ Generated'  BY <1>1 DEF OriginsSpent, Generated
<1>8. CodeTokensAreKnown' /\ AnsweredMeansRotated' /\ NoOrphanJwt'
  BY <1>1, <1>2 DEF CodeTokensAreKnown, AnsweredMeansRotated, NoOrphanJwt, introspect
<1>. QED  BY <1>5, <1>6, <1>7, <1>8

LEMMA OtherInv ==
  ASSUME TokenInv, TypeOK',
         \/ \E k \in Code : issueAuthorizationCode(k)
         \/ \E t \in Token : ExpireToken(t)
         \/ \E s \in Session : revokeSession(s)
         \/ \E x \in issued \cup Session : Expire(x)
         \/ UNCHANGED vars
  PROVE  TokenInv'
<1>. USE DEF TokenInv
<1>1. /\ UNCHANGED <<used, origin, handed, bridged, revokedJwt, call>>
      /\ revoked \subseteq revoked'
      /\ \A t \in Token : /\ access'[t] = "none" <=> access[t] = "none"
                          /\ access'[t] = "live" =>
                               access[t] = "live" /\ (t \in mapping => t \in mapping')
  BY DEF issueAuthorizationCode, ExpireToken, revokeSession,
         Expire, vars, rows, TypeOK
<1>2. \A c \in Call : call[c].at \in Granting => call[c].token \in Token
  BY CallFields DEF TypeOK
<1>3. GrantsOwn'  BY <1>1, <1>2 DEF GrantsOwn, Owns
<1>4. GrantsApart' /\ JwtFirst'  BY <1>1 DEF GrantsApart, JwtFirst
<1>5. OriginsSpent' /\ Generated'  BY <1>1 DEF OriginsSpent, Generated
<1>6. CodeTokensAreKnown' /\ AnsweredMeansRotated' /\ NoOrphanJwt'
  BY <1>1 DEF TypeOK, CodeTokensAreKnown, AnsweredMeansRotated, NoOrphanJwt, introspect
<1>. QED  BY <1>3, <1>4, <1>5, <1>6

LEMMA RestartInv == TokenInv /\ Restart /\ TypeOK' => TokenInv'
<1>. SUFFICES ASSUME TokenInv, Restart, TypeOK'  PROVE  TokenInv'
  OBVIOUS
<1>1. \A c \in Call : call'[c].at = "idle"  BY DEF Restart, Idle
<1>2. GrantsOwn' /\ GrantsApart' /\ JwtFirst'
  BY <1>1 DEF GrantsOwn, Owns, GrantsApart, JwtFirst, Granting
<1>. QED
  BY <1>2 DEF TokenInv, Restart, rows, OriginsSpent, Generated, CodeTokensAreKnown,
              AnsweredMeansRotated, NoOrphanJwt, introspect

LEMMA InitInv == Init => TokenInv
BY InitType, SourcesAssumption
   DEF Init, Idle, TokenInv, GrantsOwn, Owns, GrantsApart, Granting, OriginsSpent, Source,
       Generated, JwtFirst, CodeTokensAreKnown, AnsweredMeansRotated, NoOrphanJwt, introspect

LEMMA NextInv == TokenInv /\ [Next]_vars => TokenInv'
<1>. SUFFICES ASSUME TokenInv, [Next]_vars  PROVE  TokenInv'
  OBVIOUS
<1>1. TypeOK'  BY NextType DEF TokenInv
<1>2. ASSUME NEW c \in Call, Step(c)  PROVE  TokenInv'
  BY <1>1, <1>2, BeginInv, GoOnInv, RevokingInv DEF Step
<1>. QED  BY <1>1, <1>2, OtherInv, RestartInv DEF Next

(* Whatever fails or stops after a code was marked, no code that brought    *)
(* forth a stored token can be exchanged again (useAuthorizationCode comes  *)
(* before createAccessToken).                                               *)
THEOREM CodesAreSpentFirst == Spec => []SpentFirst
<1>1. TokenInv => SpentFirst  BY DEF TokenInv, OriginsSpent, SpentFirst
<1>. QED  BY <1>1, InitInv, NextInv, PTL DEF Spec

(* The answer of a code grant names a token that was stored and bridged.    *)
THEOREM CodeTokensKnown == Spec => []CodeTokensAreKnown
<1>1. TokenInv => CodeTokensAreKnown  BY DEF TokenInv
<1>. QED  BY <1>1, InitInv, NextInv, PTL DEF Spec

(* A refresh grant that was answered revoked the refresh token.             *)
THEOREM AnsweredRotated == Spec => []AnsweredMeansRotated
<1>1. TokenInv => AnsweredMeansRotated  BY DEF TokenInv
<1>. QED  BY <1>1, InitInv, NextInv, PTL DEF Spec

(* The internal JWT of a live token can be reached or is revoked, however   *)
(* many revocations of it interleave or stop half-way.                      *)
THEOREM JwtsAreNotOrphaned == Spec => []NoOrphanJwt
<1>1. TokenInv => NoOrphanJwt  BY DEF TokenInv
<1>. QED  BY <1>1, InitInv, NextInv, PTL DEF Spec

-----------------------------------------------------------------------------
(* Exchanging a code.  Unless two handlers have checked it, the one that    *)
(* has is the only one, and the code is still as it was when it was read.   *)

CheckedAlone ==
  \A c \in Call : call[c].at = "mark" /\ call[c].source \notin raced =>
    /\ call[c].source \notin used
    /\ \A d \in Call : Marking(d, call[c].source) => d = c

OneOrigin ==
  \A t, u \in Token : origin[t] = origin[u] /\ origin[t] \in Code \ raced => t = u

ExchangeInv == TokenInv /\ CheckedAlone /\ OneOrigin

LEMMA InitExchange == Init => ExchangeInv
BY InitInv, SourcesAssumption
   DEF Init, Idle, ExchangeInv, CheckedAlone, OneOrigin, Source

(* A call that does not come to hold a checked code.                        *)
LEMMA CheckedAloneMoves ==
  ASSUME ExchangeInv, NEW c \in Call, NEW s, Goes(c, s), s.at # "mark", UNCHANGED raced,
         \/ UNCHANGED used
         \/ call[c].at = "mark" /\ used' = used \cup {call[c].source}
  PROVE  CheckedAlone'
<1>1. call'[c] = s /\ \A d \in Call : d # c => call'[d] = call[d]
  BY Moves DEF ExchangeInv, TokenInv, TypeOK
<1>2. SUFFICES ASSUME NEW d \in Call, call'[d].at = "mark", call'[d].source \notin raced
               PROVE  /\ call'[d].source \notin used'
                      /\ \A e \in Call : call'[e].at = "mark" /\ call'[e].source = call'[d].source
                                            => e = d
  BY DEF CheckedAlone, Marking
<1>3. d # c /\ call'[d] = call[d]  BY <1>1, <1>2
<1>4. /\ call[d].source \notin used
      /\ \A e \in Call : Marking(e, call[d].source) => e = d
  BY <1>2, <1>3 DEF ExchangeInv, CheckedAlone
<1>5. call[d].source \notin used'  BY <1>3, <1>4 DEF Marking
<1>. QED  BY <1>1, <1>3, <1>4, <1>5 DEF Marking

LEMMA OneOriginGrows ==
  ASSUME ExchangeInv, NEW c \in Call, NEW s \in Source, Generate(c, s), UNCHANGED raced,
         s \in Code \ raced => \A t \in Token : origin[t] # s
  PROVE  OneOrigin'
<1>1. PICK t \in Token : origin[t] = None /\ origin' = [origin EXCEPT ![t] = s]
  BY DEF Generate
<1>2. origin'[t] = s /\ \A u \in Token : u # t => origin'[u] = origin[u]
  BY <1>1 DEF ExchangeInv, TokenInv, TypeOK
<1>. QED  BY <1>2 DEF ExchangeInv, OneOrigin

LEMMA ChecksExchange ==
  ASSUME ExchangeInv, NEW c \in Call, NEW k \in Code, handleAuthorizationCodeGrant(c, k)
  PROVE  CheckedAlone' /\ OneOrigin'
<1>. USE DEF ExchangeInv, handleAuthorizationCodeGrant, Checks
<1>. DEFINE new == [at |-> "mark", source |-> k]
<1>1. call'[c] = new /\ \A d \in Call : d # c => call'[d] = call[d]
  BY Moves DEF TokenInv, TypeOK
<1>2. new.at = "mark" /\ new.source = k
  OBVIOUS
<1>. HIDE DEF new
<1>3. /\ raced \subseteq raced'
      /\ k \notin raced' => \A d \in Call : ~Marking(d, k)
  OBVIOUS
<1>4. UNCHANGED <<used, origin>> /\ k \notin used  BY DEF rows
<1>5. OneOrigin'  BY <1>3, <1>4 DEF OneOrigin
<1>6. SUFFICES ASSUME NEW d \in Call, call'[d].at = "mark", call'[d].source \notin raced'
               PROVE  /\ call'[d].source \notin used'
                      /\ \A e \in Call : call'[e].at = "mark" /\ call'[e].source = call'[d].source
                                            => e = d
  BY <1>5 DEF CheckedAlone, Marking
<1>7. CASE d = c
  BY <1>1, <1>2, <1>3, <1>4, <1>6, <1>7 DEF Marking
<1>8. CASE d # c
  <2>1. call'[d] = call[d] /\ call[d].at = "mark" /\ call[d].source \notin raced
    BY <1>1, <1>3, <1>6, <1>8
  <2>2. Marking(d, call[d].source)  BY <2>1 DEF Marking
  <2>3. call[d].source # k  BY <1>3, <1>6, <2>1, <2>2
  <2>4. /\ call[d].source \notin used
        /\ \A e \in Call : Marking(e, call[d].source) => e = d
    BY <2>1 DEF CheckedAlone
  <2>. QED  BY <1>1, <1>2, <1>4, <2>1, <2>3, <2>4 DEF Marking
<1>. QED  BY <1>7, <1>8

LEMMA GenerateExchange ==
  ASSUME ExchangeInv, NEW c \in Call,
         \/ useAuthorizationCode(c)
         \/ \E s \in Session : handleRefreshTokenGrant(c, s)
         \/ handleClientCredentialsGrant(c)
  PROVE  CheckedAlone' /\ OneOrigin'
<1>. USE DEF ExchangeInv
<1>1. ASSUME NEW s \in Source, Generate(c, s)
      PROVE  \E n : Goes(c, n) /\ n.at # "mark"
  BY <1>1 DEF Generate
<1>2. CASE useAuthorizationCode(c)
  <2>. USE <1>2 DEF useAuthorizationCode
  <2>1. call[c].source \in Code  BY CallFields DEF TokenInv, TypeOK
  <2>2. call[c].source \notin raced => \A t \in Token : origin[t] # call[c].source
    BY <2>1 DEF CheckedAlone, TokenInv, OriginsSpent
  <2>3. CheckedAlone'  BY <1>1, <2>1, CheckedAloneMoves DEF Source
  <2>. QED  BY <2>1, <2>2, <2>3, OneOriginGrows DEF Source
<1>3. CASE (\E s \in Session : handleRefreshTokenGrant(c, s)) \/ handleClientCredentialsGrant(c)
  <2>1. PICK s \in Source \ Code : Generate(c, s)
    BY <1>3, SourcesAssumption
       DEF handleRefreshTokenGrant, handleClientCredentialsGrant, Source
  <2>2. UNCHANGED <<used, raced>>
    BY <1>3 DEF handleRefreshTokenGrant, handleClientCredentialsGrant
  <2>. QED  BY <1>1, <2>1, <2>2, CheckedAloneMoves, OneOriginGrows
<1>. QED  BY <1>2, <1>3

LEMMA StepExchange ==
  ASSUME ExchangeInv, NEW c \in Call, Step(c)
  PROVE  CheckedAlone' /\ OneOrigin'
<1>1. CASE \/ createAccessToken(c) \/ storeAccessToken(c) \/ createRefreshToken(c)
           \/ convertOAuthToJWT(c) \/ RotateSession(c)
  <2>1. \E s : Goes(c, s) /\ s.at # "mark"
    BY <1>1 DEF createAccessToken, storeAccessToken, createRefreshToken, convertOAuthToJWT,
                RotateSession, Answers, Ends, Idle
  <2>2. UNCHANGED <<used, raced, origin>>
    BY <1>1 DEF createAccessToken, storeAccessToken, createRefreshToken, convertOAuthToJWT,
                RotateSession
  <2>. QED  BY <2>1, <2>2, CheckedAloneMoves DEF OneOrigin, ExchangeInv
<1>2. CASE \/ \E t \in handed : revoke(c, t)
           \/ FindMapping(c) \/ FindToken(c) \/ RevokeJwt(c) \/ deleteTokenMappingByOAuth(c)
           \/ Fails(c)
  <2>1. \E s : Goes(c, s) /\ s.at # "mark"
    <3>1. ASSUME NEW t \in handed, revoke(c, t)  PROVE  \E s : Goes(c, s) /\ s.at # "mark"
      BY <3>1 DEF revoke
    <3>2. CASE FindMapping(c) \/ FindToken(c)  BY <3>2 DEF FindMapping, FindToken, Ends, Idle
    <3>3. CASE RevokeJwt(c) \/ deleteTokenMappingByOAuth(c) \/ Fails(c)
      BY <3>3 DEF RevokeJwt, deleteTokenMappingByOAuth, Fails, Ends, Idle
    <3>. QED  BY <1>2, <3>1, <3>2, <3>3
  <2>2. UNCHANGED <<used, raced, origin>>
    BY <1>2 DEF revoke, FindMapping, FindToken, RevokeJwt, deleteTokenMappingByOAuth, Fails,
                rows
  <2>. QED  BY <2>1, <2>2, CheckedAloneMoves DEF OneOrigin, ExchangeInv
<1>. QED  BY <1>1, <1>2, ChecksExchange, GenerateExchange DEF Step

LEMMA NextExchange == ExchangeInv /\ [Next]_vars => ExchangeInv'
<1>. SUFFICES ASSUME ExchangeInv, [Next]_vars  PROVE  ExchangeInv'
  OBVIOUS
<1>1. TokenInv'  BY NextInv DEF ExchangeInv
<1>2. CASE \E c \in Call : Step(c)  BY <1>1, <1>2, StepExchange DEF ExchangeInv
<1>3. CASE Restart
  BY <1>1, <1>3 DEF ExchangeInv, Restart, rows, Idle, CheckedAlone, OneOrigin
<1>4. CASE ~ Restart /\ ~ \E c \in Call : Step(c)
  <2>1. UNCHANGED <<used, origin, raced, call>>
    BY <1>4 DEF Next, vars, rows, issueAuthorizationCode,
                revokeSession, Expire, ExpireToken
  <2>. QED  BY <1>1, <2>1 DEF ExchangeInv, CheckedAlone, OneOrigin, Marking
<1>. QED  BY <1>2, <1>3, <1>4

(* A code brings forth at most one stored token, whatever fails, however    *)
(* many handlers run: the check of is_used is only unsafe because of those  *)
(* that check it too before the update.                                     *)
THEOREM CodesBringForthOne == Spec => []OneTokenPerCode
<1>1. ExchangeInv => OneTokenPerCode  BY DEF ExchangeInv, OneOrigin, OneTokenPerCode
<1>. QED  BY <1>1, InitExchange, NextExchange, PTL DEF Spec
=============================================================================
