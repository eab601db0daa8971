----------------------------- MODULE SignInProofs -----------------------------
(* Proofs about SignIn for any number of users, tokens, codes and handlers, *)
(* and about RateLimiter for any keys, callers and limits.                  *)
EXTENDS SignIn, RateLimiter, TLAPS

-----------------------------------------------------------------------------
(* Type correctness.                                                        *)

LEMMA CallFields ==
  ASSUME NEW s \in CallState
  PROVE  /\ s.at \in {"createUser", "created"} =>
              /\ s.email \in Email /\ s.password \in Password
              /\ [s EXCEPT !.at = "created"] \in CallState
              /\ [s EXCEPT !.at = "created"].at = "created"
              /\ [s EXCEPT !.at = "created"].email = s.email
              /\ [s EXCEPT !.at = "created"].password = s.password
         /\ s.at \in {"attempt", "record", "mark"} => s.code \in CodeRow /\ s.client \in Client
         /\ s.at = "record" => s.seen \in SUBSET Client
         /\ s.at \in {"verify", "accepted"} =>
              /\ s.token \in Token /\ s.purpose \in Purpose /\ s.late \in BOOLEAN
              /\ [s EXCEPT !.at = "accepted"] \in CallState
              /\ [s EXCEPT !.at = "accepted"].at = "accepted"
              /\ [s EXCEPT !.at = "accepted"].token = s.token
              /\ [s EXCEPT !.at = "accepted"].late = s.late
         /\ s.at \in {"insert", "inserted"} => s.token \in Token
BY DEF CallState

LEMMA CallStates ==
  /\ Idle \in CallState
  /\ \A e \in Email, p \in Password :
       [at |-> "createUser", email |-> e, password |-> p] \in CallState
  /\ \A r \in CodeRow, i \in Client, a \in {"attempt", "mark"} :
       [at |-> a, code |-> r, client |-> i] \in CallState
  /\ \A r \in CodeRow, i \in Client, S \in SUBSET Client :
       [at |-> "record", code |-> r, client |-> i, seen |-> S] \in CallState
  /\ \A t \in Token, p \in Purpose, b \in BOOLEAN :
       [at |-> "verify", token |-> t, purpose |-> p, late |-> b] \in CallState
  /\ \A t \in Token, a \in {"insert", "inserted"} : [at |-> a, token |-> t] \in CallState
BY DEF CallState, Idle

LEMMA Moves ==
  ASSUME call \in [Call -> CallState], NEW c \in Call, NEW s \in CallState, Goes(c, s)
  PROVE  /\ call' \in [Call -> CallState]
         /\ call'[c] = s
         /\ \A d \in Call \ {c} : call'[d] = call[d]
BY DEF Goes

-----------------------------------------------------------------------------
(* The inductive invariant.  What a handler may rely on between two of its  *)
(* statements, with the tables as parameters.                               *)
Promise(s, acc, att, exp, rev) ==
  /\ s.at = "created" => acc[s.email] = s.password
  /\ s.at = "mark" => att[s.code] # {}
  /\ s.at = "verify" /\ s.late => s.token \in exp
  /\ s.at = "accepted" => ~s.late
  /\ s.at = "inserted" => s.token \in rev

SignInInv ==
  /\ TypeOK
  /\ \A c \in Call : Promise(call[c], account, attempts, expired, revoked)
  /\ RegistrantOwnsAccount
  /\ UsedWereAttempted
  /\ told \subseteq revoked

(* What one step may do to the tables: accounts and attempts come to stay,  *)
(* expiry and revocation are for ever.                                      *)
Advances ==
  /\ \A e \in Email : account[e] # None => account'[e] = account[e]
  /\ \A r \in CodeRow : attempts[r] # {} => attempts'[r] # {}
  /\ expired \subseteq expired'
  /\ revoked \subseteq revoked'

(* A step of one handler: the tables advance, the handler keeps its promise *)
(* and nobody else moves.                                                   *)
Outcome(c, s) ==
  /\ s \in CallState /\ Goes(c, s)
  /\ Advances
  /\ Promise(s, account', attempts', expired', revoked')

LEMMA AdvanceKeeps ==
  ASSUME SignInInv, Advances, NEW d \in Call
  PROVE  Promise(call[d], account', attempts', expired', revoked')
<1>1. call[d] \in CallState  BY DEF SignInInv, TypeOK
<1>2. Promise(call[d], account, attempts, expired, revoked)  BY DEF SignInInv
<1>3. call[d].at = "created" => account'[call[d].email] = call[d].password
  <2>. SUFFICES ASSUME call[d].at = "created"
                PROVE  account'[call[d].email] = call[d].password
    OBVIOUS
  <2>1. call[d].email \in Email /\ call[d].password \in Password  BY <1>1, CallFields
  <2>2. account[call[d].email] = call[d].password  BY <1>2 DEF Promise
  <2>. QED  BY <2>1, <2>2, NoneAssumption DEF Advances
<1>4. call[d].at = "mark" => attempts'[call[d].code] # {}
  BY <1>1, <1>2, CallFields DEF Promise, Advances
<1>. QED  BY <1>2, <1>3, <1>4 DEF Promise, Advances

LEMMA OutcomeKeeps ==
  ASSUME SignInInv, NEW c \in Call, NEW s, Outcome(c, s)
  PROVE  /\ call' \in [Call -> CallState]
         /\ \A d \in Call : Promise(call'[d], account', attempts', expired', revoked')
<1>1. call \in [Call -> CallState]  BY DEF SignInInv, TypeOK
<1>2. /\ call' \in [Call -> CallState]
      /\ call'[c] = s
      /\ \A d \in Call \ {c} : call'[d] = call[d]
  BY <1>1, Moves DEF Outcome
<1>3. ASSUME NEW d \in Call
      PROVE  Promise(call'[d], account', attempts', expired', revoked')
  <2>1. CASE d = c  BY <1>2, <2>1 DEF Outcome
  <2>2. CASE d # c
    <3>1. Promise(call[d], account', attempts', expired', revoked')
      BY AdvanceKeeps DEF Outcome
    <3>. QED  BY <1>2, <2>2, <3>1
  <2>. QED  BY <2>1, <2>2
<1>. QED  BY <1>2, <1>3

LEMMA IdleStep ==
  ASSUME NEW c \in Call, Ends(c), Advances
  PROVE  Outcome(c, Idle)
BY CallStates DEF Outcome, Promise, Idle, Ends

LEMMA StillAdvances ==
  ASSUME UNCHANGED <<account, attempts, expired, revoked>>
  PROVE  Advances
BY DEF Advances

-----------------------------------------------------------------------------
LEMMA InitEstablishes == Init => SignInInv
<1>. SUFFICES ASSUME Init PROVE SignInInv  OBVIOUS
<1>1. TypeOK  BY CallStates DEF Init, TypeOK
<1>2. \A c \in Call : Promise(call[c], account, attempts, expired, revoked)
  BY DEF Init, Promise, Idle
<1>. QED  BY <1>1, <1>2 DEF Init, SignInInv, RegistrantOwnsAccount, UsedWereAttempted

(* The parts of the invariant about the tables alone.                       *)
Tables ==
  /\ account \in [Email -> Password \cup {None}]
  /\ secret \in [CodeRow -> Secret \cup {None}]
  /\ lapsed \subseteq CodeRow
  /\ attempts \in [CodeRow -> SUBSET Client]
  /\ used \subseteq CodeRow
  /\ kind \in [Token -> {"none", "access", "refresh"}]
  /\ expired \subseteq Token
  /\ revoked \subseteq Token
  /\ registered \subseteq Email \X Password
  /\ told \subseteq Token
  /\ RegistrantOwnsAccount
  /\ UsedWereAttempted
  /\ told \subseteq revoked

LEMMA TablesUnchanged ==
  ASSUME SignInInv, UNCHANGED <<account, codeRows, tokens, registered>>
  PROVE  Tables' /\ Advances
BY DEF SignInInv, TypeOK, Tables, codeRows, tokens, Advances, RegistrantOwnsAccount, UsedWereAttempted

LEMMA Combine ==
  ASSUME Tables', call' \in [Call -> CallState],
         \A d \in Call : Promise(call'[d], account', attempts', expired', revoked')
  PROVE  SignInInv'
BY DEF Tables, SignInInv, TypeOK

LEMMA HandlerStep ==
  ASSUME SignInInv, Tables', NEW c \in Call, NEW s, Outcome(c, s)
  PROVE  SignInInv'
BY OutcomeKeeps, Combine

(* A step of the environment or of a handler that does not await.           *)
LEMMA FreeStep ==
  ASSUME SignInInv, Tables', Advances, UNCHANGED call
  PROVE  SignInInv'
<1>1. call' \in [Call -> CallState]  BY DEF SignInInv, TypeOK
<1>2. \A d \in Call : Promise(call'[d], account', attempts', expired', revoked')
  BY AdvanceKeeps
<1>. QED  BY <1>1, <1>2, Combine

-----------------------------------------------------------------------------
LEMMA RegisterKeeps ==
  ASSUME SignInInv, NEW c \in Call,
         (\E e \in Email, p \in Password : register(c, e, p)) \/ createUser(c) \/ AnswerRegistration(c)
  PROVE  SignInInv'
<1>. call[c] \in CallState  BY DEF SignInInv, TypeOK
<1>1. ASSUME NEW e \in Email, NEW p \in Password, register(c, e, p)
      PROVE  SignInInv'
  <2>1. Tables' /\ Advances  BY <1>1, TablesUnchanged DEF register
  <2>. DEFINE s == [at |-> "createUser", email |-> e, password |-> p]
  <2>2. Outcome(c, s)  BY <1>1, <2>1, CallStates DEF register, Outcome, Promise
  <2>. HIDE DEF s
  <2>. QED  BY <2>1, <2>2, HandlerStep
<1>2. ASSUME createUser(c) PROVE SignInInv'
  <2>. DEFINE s == [call[c] EXCEPT !.at = "created"]
  <2>1. /\ call[c].email \in Email /\ call[c].password \in Password
        /\ s \in CallState /\ s.at = "created" /\ s.email = call[c].email /\ s.password = call[c].password
    BY <1>2, CallFields DEF createUser, At
  <2>2. Goes(c, s) /\ account[call[c].email] = None
    BY <1>2 DEF createUser
  <2>. HIDE DEF s
  <2>3. Tables' /\ Advances /\ account'[call[c].email] = call[c].password
    <3>1. account' = [account EXCEPT ![call[c].email] = call[c].password]
          /\ UNCHANGED <<secret, lapsed, attempts, used, kind, expired, revoked, told, registered>>
      BY <1>2 DEF createUser, codeRows, tokens
    <3>2. \A e \in Email : account[e] # None => account'[e] = account[e]
      BY <2>1, <2>2, <3>1 DEF SignInInv, TypeOK
    <3>3. RegistrantOwnsAccount'
      BY <3>1, <3>2, NoneAssumption DEF SignInInv, TypeOK, RegistrantOwnsAccount
    <3>. QED  BY <2>1, <3>1, <3>2, <3>3 DEF SignInInv, TypeOK, Tables, Advances, UsedWereAttempted
  <2>4. Outcome(c, s)  BY <2>1, <2>2, <2>3 DEF Outcome, Promise
  <2>. QED  BY <2>3, <2>4, HandlerStep
<1>3. ASSUME AnswerRegistration(c) PROVE SignInInv'
  <2>1. /\ call[c].email \in Email /\ call[c].password \in Password
        /\ account[call[c].email] = call[c].password
    BY <1>3, CallFields DEF AnswerRegistration, At, SignInInv, Promise
  <2>2. /\ registered' = registered \cup {<<call[c].email, call[c].password>>}
        /\ UNCHANGED <<account, secret, lapsed, attempts, used, kind, expired, revoked, told>>
    BY <1>3 DEF AnswerRegistration, codeRows, tokens
  <2>3. Tables' /\ Advances
    BY <2>1, <2>2 DEF SignInInv, TypeOK, Tables, Advances, RegistrantOwnsAccount, UsedWereAttempted
  <2>. QED  BY <1>3, <2>3, IdleStep, HandlerStep DEF AnswerRegistration
<1>. QED  BY <1>1, <1>2, <1>3

LEMMA CodeKeeps ==
  ASSUME SignInInv, NEW c \in Call,
         \/ \E s \in Secret, i \in Client : verifyCode(c, s, i)
         \/ ReadAttempts(c) \/ recordVerificationAttempt(c) \/ markCodeAsUsed(c)
  PROVE  SignInInv'
<1>. call[c] \in CallState  BY DEF SignInInv, TypeOK
<1>1. ASSUME NEW x \in Secret, NEW i \in Client, verifyCode(c, x, i)
      PROVE  SignInInv'
  <2>1. Tables' /\ Advances  BY <1>1, TablesUnchanged DEF verifyCode
  <2>2. PICK r \in CodeRow : Goes(c, [at |-> "attempt", code |-> r, client |-> i])
    BY <1>1 DEF verifyCode
  <2>. DEFINE s == [at |-> "attempt", code |-> r, client |-> i]
  <2>3. Outcome(c, s)  BY <2>1, <2>2, CallStates DEF Outcome, Promise
  <2>. HIDE DEF s
  <2>. QED  BY <2>1, <2>3, HandlerStep
<1>2. ASSUME ReadAttempts(c) PROVE SignInInv'
  <2>1. Tables' /\ Advances  BY <1>2, TablesUnchanged DEF ReadAttempts
  <2>. DEFINE s == [at |-> "record", code |-> call[c].code, client |-> call[c].client,
                    seen |-> attempts[call[c].code]]
  <2>2. call[c].code \in CodeRow /\ call[c].client \in Client /\ attempts[call[c].code] \in SUBSET Client
    BY <1>2, CallFields DEF ReadAttempts, At, SignInInv, TypeOK
  <2>3. Outcome(c, s)  BY <1>2, <2>1, <2>2, CallStates DEF ReadAttempts, Outcome, Promise
  <2>. HIDE DEF s
  <2>. QED  BY <2>1, <2>3, HandlerStep
<1>3. ASSUME recordVerificationAttempt(c) PROVE SignInInv'
  <2>. DEFINE s == [at |-> "mark", code |-> call[c].code, client |-> call[c].client]
  <2>1. call[c].code \in CodeRow /\ call[c].client \in Client /\ call[c].seen \in SUBSET Client
    BY <1>3, CallFields DEF recordVerificationAttempt, At
  <2>2. /\ attempts' = [attempts EXCEPT ![call[c].code] = call[c].seen \cup {call[c].client}]
        /\ UNCHANGED <<account, secret, lapsed, used, kind, expired, revoked, told, registered>>
    BY <1>3 DEF recordVerificationAttempt, tokens
  <2>3. \A r \in CodeRow : attempts[r] # {} => attempts'[r] # {}
    BY <2>1, <2>2 DEF SignInInv, TypeOK
  <2>4. UsedWereAttempted'
    BY <2>2, <2>3 DEF SignInInv, TypeOK, UsedWereAttempted
  <2>5. Tables' /\ Advances
    BY <2>1, <2>2, <2>3, <2>4 DEF SignInInv, TypeOK, Tables, Advances, RegistrantOwnsAccount
  <2>6. attempts'[call[c].code] # {}  BY <2>1, <2>2 DEF SignInInv, TypeOK
  <2>7. Outcome(c, s)
    BY <1>3, <2>1, <2>5, <2>6, CallStates DEF recordVerificationAttempt, Outcome, Promise
  <2>. HIDE DEF s
  <2>. QED  BY <2>5, <2>7, HandlerStep
<1>4. ASSUME markCodeAsUsed(c) PROVE SignInInv'
  <2>1. call[c].code \in CodeRow /\ attempts[call[c].code] # {}
    BY <1>4, CallFields DEF markCodeAsUsed, At, SignInInv, Promise
  <2>2. /\ used' = used \cup {call[c].code}
        /\ UNCHANGED <<account, secret, lapsed, attempts, kind, expired, revoked, told, registered>>
    BY <1>4 DEF markCodeAsUsed, tokens
  <2>3. Tables' /\ Advances
    BY <2>1, <2>2 DEF SignInInv, TypeOK, Tables, Advances, RegistrantOwnsAccount, UsedWereAttempted
  <2>. QED  BY <1>4, <2>3, IdleStep, HandlerStep DEF markCodeAsUsed
<1>. QED  BY <1>1, <1>2, <1>3, <1>4

(* The heart of RevocationSticks: a request that began after the client was *)
(* told passes the lookup only when the token has expired, and then the     *)
(* token does not verify.                                                   *)
LEMMA TokenKeeps ==
  ASSUME SignInInv, NEW c \in Call,
         \/ \E t \in Token, p \in Purpose : Present(c, t, p)
         \/ Verify(c) \/ Serve(c) \/ revokeToken(c) \/ AnswerRevocation(c)
  PROVE  SignInInv'
<1>. call[c] \in CallState  BY DEF SignInInv, TypeOK
<1>1. ASSUME NEW t \in Token, NEW p \in Purpose, Present(c, t, p)
      PROVE  SignInInv'
  <2>1. Tables' /\ Advances  BY <1>1, TablesUnchanged DEF Present
  <2>2. t \in told => t \in expired'
    BY <1>1 DEF Present, isTokenRevoked, SignInInv, tokens
  <2>. DEFINE b == t \in told
  <2>3. b \in BOOLEAN  OBVIOUS
  <2>4. Goes(c, [at |-> "verify", token |-> t, purpose |-> p, late |-> b])
    BY <1>1 DEF Present
  <2>5. b => t \in expired'  BY <2>2
  <2>. HIDE DEF b
  <2>. DEFINE s == [at |-> "verify", token |-> t, purpose |-> p, late |-> b]
  <2>6. Outcome(c, s)  BY <2>1, <2>3, <2>4, <2>5, CallStates DEF Outcome, Promise
  <2>. HIDE DEF s
  <2>. QED  BY <2>1, <2>6, HandlerStep
<1>2. ASSUME Verify(c) PROVE SignInInv'
  <2>1. Tables' /\ Advances  BY <1>2, TablesUnchanged DEF Verify
  <2>2. /\ call[c].at = "verify" /\ call[c].token \in Token
        /\ call[c].late => call[c].token \in expired
    BY <1>2, CallFields DEF Verify, At, SignInInv, Promise
  <2>3. CASE Ends(c)  BY <2>1, <2>3, IdleStep, HandlerStep
  <2>4. ASSUME Goes(c, [at |-> "insert", token |-> call[c].token]) PROVE SignInInv'
    <3>. DEFINE s == [at |-> "insert", token |-> call[c].token]
    <3>1. Outcome(c, s)  BY <2>1, <2>2, <2>4, CallStates DEF Outcome, Promise
    <3>. HIDE DEF s
    <3>. QED  BY <2>1, <3>1, HandlerStep
  <2>5. ASSUME verifyToken(call[c].token), Goes(c, [call[c] EXCEPT !.at = "accepted"])
        PROVE  SignInInv'
    <3>. DEFINE s == [call[c] EXCEPT !.at = "accepted"]
    <3>1. s \in CallState /\ s.at = "accepted" /\ s.late = call[c].late
      BY <2>2, CallFields
    <3>2. Goes(c, s)  BY <2>5
    <3>. HIDE DEF s
    <3>3. ~call[c].late  BY <2>2, <2>5 DEF verifyToken
    <3>4. Outcome(c, s)  BY <2>1, <3>1, <3>2, <3>3 DEF Outcome, Promise
    <3>. QED  BY <2>1, <3>4, HandlerStep
  <2>. QED  BY <1>2, <2>3, <2>4, <2>5 DEF Verify
<1>3. ASSUME Serve(c) PROVE SignInInv'
  <2>1. Tables' /\ Advances  BY <1>3, TablesUnchanged DEF Serve
  <2>. QED  BY <1>3, <2>1, IdleStep, HandlerStep DEF Serve
<1>4. ASSUME revokeToken(c) PROVE SignInInv'
  <2>. DEFINE s == [at |-> "inserted", token |-> call[c].token]
  <2>1. call[c].token \in Token  BY <1>4, CallFields DEF revokeToken, At
  <2>2. /\ revoked' = revoked \cup {call[c].token}
        /\ UNCHANGED <<account, secret, lapsed, attempts, used, kind, expired, told, registered>>
    BY <1>4 DEF revokeToken, codeRows
  <2>3. Tables' /\ Advances
    BY <2>1, <2>2 DEF SignInInv, TypeOK, Tables, Advances, RegistrantOwnsAccount, UsedWereAttempted
  <2>4. Outcome(c, s)  BY <1>4, <2>1, <2>2, <2>3, CallStates DEF revokeToken, Outcome, Promise
  <2>. HIDE DEF s
  <2>. QED  BY <2>3, <2>4, HandlerStep
<1>5. ASSUME AnswerRevocation(c) PROVE SignInInv'
  <2>1. call[c].token \in Token /\ call[c].token \in revoked
    BY <1>5, CallFields DEF AnswerRevocation, At, SignInInv, Promise
  <2>2. /\ told' = told \cup {call[c].token}
        /\ UNCHANGED <<account, secret, lapsed, attempts, used, kind, expired, revoked, registered>>
    BY <1>5 DEF AnswerRevocation, codeRows
  <2>3. Tables' /\ Advances
    BY <2>1, <2>2 DEF SignInInv, TypeOK, Tables, Advances, RegistrantOwnsAccount, UsedWereAttempted
  <2>. QED  BY <1>5, <2>3, IdleStep, HandlerStep DEF AnswerRevocation
<1>. QED  BY <1>1, <1>2, <1>3, <1>4, <1>5

(* Everything that moves no handler.                                        *)
LEMMA FreeKeeps ==
  ASSUME SignInInv,
         \/ \E e \in Email, p \in Password : login(e, p)
         \/ \E s \in Secret : requestCode(s)
         \/ \E t \in Token : AlreadyRevoked(t) \/ Expire(t)
         \/ \E r \in CodeRow : Lapse(r)
  PROVE  SignInInv'
<1>. SUFFICES Tables' /\ Advances /\ UNCHANGED call  BY FreeStep
<1>1. ASSUME NEW e \in Email, NEW p \in Password, login(e, p)
      PROVE  Tables' /\ Advances /\ UNCHANGED call
  <2>1. kind' \in [Token -> {"none", "access", "refresh"}]
    BY <1>1 DEF login, SignInInv, TypeOK
  <2>. QED
    BY <1>1, <2>1 DEF login, codeRows, SignInInv, TypeOK, Tables, Advances, RegistrantOwnsAccount, UsedWereAttempted
<1>2. ASSUME NEW s \in Secret, requestCode(s)
      PROVE  Tables' /\ Advances /\ UNCHANGED call
  BY <1>2 DEF requestCode, tokens, SignInInv, TypeOK, Tables, Advances, RegistrantOwnsAccount, UsedWereAttempted
<1>3. ASSUME NEW t \in Token, AlreadyRevoked(t)
      PROVE  Tables' /\ Advances /\ UNCHANGED call
  BY <1>3 DEF AlreadyRevoked, isTokenRevoked, codeRows, SignInInv, TypeOK, Tables, Advances,
              RegistrantOwnsAccount, UsedWereAttempted
<1>4. ASSUME NEW t \in Token, Expire(t)
      PROVE  Tables' /\ Advances /\ UNCHANGED call
  BY <1>4 DEF Expire, codeRows, SignInInv, TypeOK, Tables, Advances, RegistrantOwnsAccount, UsedWereAttempted
<1>5. ASSUME NEW r \in CodeRow, Lapse(r)
      PROVE  Tables' /\ Advances /\ UNCHANGED call
  BY <1>5 DEF Lapse, tokens, SignInInv, TypeOK, Tables, Advances, RegistrantOwnsAccount, UsedWereAttempted
<1>. QED  BY <1>1, <1>2, <1>3, <1>4, <1>5

LEMMA EndsKeep ==
  ASSUME SignInInv, (\E c \in Call : Fails(c)) \/ Restart
  PROVE  SignInInv'
<1>1. ASSUME NEW c \in Call, Fails(c) PROVE SignInInv'
  <2>1. Tables' /\ Advances  BY <1>1, TablesUnchanged DEF Fails
  <2>. QED  BY <1>1, <2>1, IdleStep, HandlerStep DEF Fails
<1>2. ASSUME Restart PROVE SignInInv'
  <2>1. Tables'  BY <1>2, TablesUnchanged DEF Restart
  <2>2. call' \in [Call -> CallState]  BY <1>2, CallStates DEF Restart
  <2>3. \A d \in Call : Promise(call'[d], account', attempts', expired', revoked')
    BY <1>2 DEF Restart, Promise, Idle
  <2>. QED  BY <2>1, <2>2, <2>3, Combine
<1>. QED  BY <1>1, <1>2

LEMMA StepKeeps == SignInInv /\ [Next]_vars => SignInInv'
<1>. SUFFICES ASSUME SignInInv, [Next]_vars PROVE SignInInv'  OBVIOUS
<1>1. ASSUME NEW c \in Call, Request(c) PROVE SignInInv'
  BY <1>1, RegisterKeeps, CodeKeeps, TokenKeeps DEF Request
<1>2. ASSUME NEW c \in Call, Resume(c) PROVE SignInInv'
  BY <1>2, RegisterKeeps, CodeKeeps, TokenKeeps DEF Resume
<1>3. CASE UNCHANGED vars
  <2>1. Tables' /\ Advances  BY <1>3, TablesUnchanged DEF vars
  <2>. QED  BY <1>3, <2>1, FreeStep DEF vars
<1>. QED  BY <1>1, <1>2, <1>3, FreeKeeps, EndsKeep DEF Next

LEMMA Inductive == Spec => []SignInInv
BY InitEstablishes, StepKeeps, PTL DEF Spec

-----------------------------------------------------------------------------
(* Every table and every handler in progress is well typed.                 *)
THEOREM TypeCorrect == Spec => []TypeOK
<1>1. SignInInv => TypeOK  BY DEF SignInInv
<1>. QED  BY <1>1, Inductive, PTL

(* A registration that was answered with 201 owns its account.              *)
THEOREM RegistrantsOwn == Spec => []RegistrantOwnsAccount
<1>1. SignInInv => RegistrantOwnsAccount  BY DEF SignInInv
<1>. QED  BY <1>1, Inductive, PTL

(* A used code has a recorded attempt.                                      *)
THEOREM UsedAttempted == Spec => []UsedWereAttempted
<1>1. SignInInv => UsedWereAttempted  BY DEF SignInInv
<1>. QED  BY <1>1, Inductive, PTL

(* A token whose revocation was confirmed is never accepted again, before   *)
(* or after it expires.                                                     *)
THEOREM RevocationIsFinal == Spec => []RevocationSticks
<1>1. SignInInv => RevocationSticks  BY DEF SignInInv, Promise, RevocationSticks, At
<1>. QED  BY <1>1, Inductive, PTL

-----------------------------------------------------------------------------
(* The rate limiters, of which sign-in knows only the refusals.             *)

(* The inductive invariant.  An open window has room for what has passed    *)
(* since its last attempt, so a block, twice as long, cannot be over in it; *)
(* what a key was told is what is left, of a window that stays full; and a  *)
(* window is opened by an attempt, so it never counts none.                 *)
Within == \A k \in Key : store[k].left >= 0 => store[k].since + store[k].left <= Window
Advised ==
  \A k \in Key : wait[k] # Unadvised =>
    /\ wait[k] = store[k].left
    /\ wait[k] >= 0 => store[k].count = Max
Opened ==
  /\ \A k \in Key : store[k].left >= 0 => store[k].count >= 1
  /\ \A p \in Caller : records[p].left >= 0 => records[p].count >= 1

LimiterInv == LimiterTypeOK /\ Within /\ Advised /\ Opened

LEMMA LimiterInitInv == LimiterInit => LimiterInv
BY LimitsAssumption
DEF LimiterInit, LimiterInv, LimiterTypeOK, Within, Advised, Opened, NoEntry, NoRecord,
    Unadvised, Answer

LEMMA EntryFields ==
  ASSUME LimiterTypeOK, NEW k \in Key
  PROVE  /\ store[k].count \in 0 .. Max
         /\ store[k].left \in -1 .. Window
         /\ store[k].since \in 0 .. Block
         /\ wait[k] \in Unadvised .. Window
BY DEF LimiterTypeOK

LEMMA RecordFields ==
  ASSUME LimiterTypeOK, NEW p \in Caller
  PROVE  /\ records[p].count \in Nat /\ records[p].count <= MaxOf[p] + 1
         /\ records[p].left \in -1 .. Period
         /\ MaxOf[p] \in Nat \ {0}
BY LimitsAssumption DEF LimiterTypeOK

(* The block time never matters: a key is blocked exactly while its window  *)
(* is open and full.                                                        *)
LEMMA BlockedIsFull ==
  ASSUME LimiterInv, NEW k \in Key
  PROVE  /\ Blocked(k) <=> store[k].left >= 0 /\ store[k].count = Max
         /\ store[k].left >= 0 => store[k].since < Block
BY EntryFields, LimitsAssumption DEF LimiterInv, Within, Blocked

(* A cleanup, which every attempt begins with, is not seen through what the *)
(* entries of open windows say.                                             *)
LEMMA CleanupKeeps ==
  ASSUME LimiterInv
  PROVE  /\ cleanup \in [Key -> [count : 0 .. Max, left : -1 .. Window, since : 0 .. Block]]
         /\ \A k \in Key : /\ cleanup[k].left = store[k].left
                           /\ store[k].left >= 0 => cleanup[k] = store[k]
<1>1. NoEntry \in [count : 0 .. Max, left : -1 .. Window, since : 0 .. Block]
  BY LimitsAssumption DEF NoEntry
<1>2. \A k \in Key : store[k].left < 0 => store[k].left = NoEntry.left
  BY EntryFields, LimitsAssumption DEF NoEntry, LimiterInv
<1>. QED  BY <1>1, <1>2 DEF cleanup, LimiterInv, LimiterTypeOK

LEMMA AttemptInv ==
  ASSUME LimiterInv, NEW k \in Key, attempt(k)
  PROVE  LimiterInv'
<1>. USE DEF Answers, Answer, Unadvised
<1>1. CASE Opens(k)
  <2>1. [count |-> 1, left |-> Window, since |-> 0]
          \in [count : 0 .. Max, left : -1 .. Window, since : 0 .. Block]
    BY LimitsAssumption
  <2>. QED
    BY <1>1, <2>1, CleanupKeeps, EntryFields, LimitsAssumption
    DEF Opens, LimiterInv, LimiterTypeOK, Within, Advised, Opened
<1>2. CASE Counts(k)
  <2>1. /\ store[k].left >= 0 /\ store[k].count < Max
        /\ cleanup[k] = store[k]
        /\ wait[k] = Unadvised
    BY <1>2, CleanupKeeps, EntryFields, LimitsAssumption
    DEF Counts, LimiterInv, LimiterTypeOK, Advised
  <2>2. [count |-> store[k].count + 1, left |-> store[k].left, since |-> 0]
          \in [count : 0 .. Max, left : -1 .. Window, since : 0 .. Block]
    BY <2>1, EntryFields, LimitsAssumption DEF LimiterInv
  <2>3. /\ store' = [cleanup EXCEPT ![k] =
             [count |-> store[k].count + 1, left |-> store[k].left, since |-> 0]]
        /\ UNCHANGED <<records, reply, wait>>
        /\ answer' = [answer EXCEPT ![k] = "yes"]
    BY <1>2, <2>1 DEF Counts
  <2>. QED
    BY <2>1, <2>2, <2>3, CleanupKeeps, EntryFields, LimitsAssumption
    DEF LimiterInv, LimiterTypeOK, Within, Advised, Opened
<1>3. CASE Refuses(k)
  <2>1. /\ store[k].left >= 0 /\ store[k].count = Max
        /\ getTimeToReset(k) = store[k].left
    BY <1>3, BlockedIsFull, EntryFields DEF Refuses, getTimeToReset, LimiterInv
  <2>2. /\ store' = cleanup
        /\ wait' = [wait EXCEPT ![k] = store[k].left]
        /\ UNCHANGED <<records, reply>>
        /\ answer' = [answer EXCEPT ![k] = "no"]
    BY <1>3, <2>1 DEF Refuses
  <2>. QED
    BY <2>1, <2>2, CleanupKeeps, EntryFields, LimitsAssumption
    DEF LimiterInv, LimiterTypeOK, Within, Advised, Opened
<1>. QED  BY <1>1, <1>2, <1>3 DEF attempt

(* What the second limiter makes of a request.                              *)
LEMMA RecordMoves ==
  ASSUME LimiterInv, NEW p \in Caller, isLimited(p)
  PROVE  /\ \/ /\ records[p].left < 0
               /\ records' = [records EXCEPT ![p] = [count |-> 1, left |-> Period]]
               /\ reply' = [reply EXCEPT ![p] = "yes"]
            \/ /\ records[p].left >= 0 /\ records[p].count < MaxOf[p]
               /\ records' = [records EXCEPT ![p] =
                    [count |-> records[p].count + 1, left |-> records[p].left]]
               /\ reply' = [reply EXCEPT ![p] = "yes"]
            \/ /\ Limited(p)
               /\ records' = [records EXCEPT ![p] =
                    [count |-> MaxOf[p] + 1, left |-> records[p].left]]
               /\ reply' = [reply EXCEPT ![p] = "no"]
         /\ UNCHANGED <<store, answer, wait>>
<1>. DEFINE n == IF records[p].left < 0 THEN 1
                 ELSE IF records[p].count > MaxOf[p] THEN records[p].count
                 ELSE records[p].count + 1
            m == IF records[p].left < 0 THEN Period ELSE records[p].left
            a == IF records[p].left >= 0 /\ n > MaxOf[p] THEN "no" ELSE "yes"
<1>1. /\ records' = [records EXCEPT ![p] = [count |-> n, left |-> m]]
      /\ reply' = [reply EXCEPT ![p] = a]
      /\ UNCHANGED <<store, answer, wait>>
  BY DEF isLimited
<1>2. /\ records[p].left < 0 => n = 1 /\ m = Period /\ a = "yes"
      /\ records[p].left >= 0 /\ records[p].count < MaxOf[p] =>
           n = records[p].count + 1 /\ m = records[p].left /\ a = "yes"
      /\ Limited(p) => n = MaxOf[p] + 1 /\ m = records[p].left /\ a = "no"
  BY RecordFields DEF LimiterInv, Limited
<1>3. \/ records[p].left < 0
      \/ records[p].left >= 0 /\ records[p].count < MaxOf[p]
      \/ Limited(p)
  BY RecordFields DEF LimiterInv, Limited
<1>. HIDE DEF n, m, a
<1>. QED  BY <1>1, <1>2, <1>3

LEMMA IsLimitedInv ==
  ASSUME LimiterInv, NEW p \in Caller, isLimited(p)
  PROVE  LimiterInv'
<1>1. PICK n \in 1 .. MaxOf[p] + 1, m \in -1 .. Period :
        records' = [records EXCEPT ![p] = [count |-> n, left |-> m]]
  BY RecordMoves, RecordFields, LimitsAssumption DEF LimiterInv, Opened
<1>2. n \in Nat /\ [count |-> n, left |-> m] \in [count : Nat, left : -1 .. Period]
  BY RecordFields DEF LimiterInv
<1>3. /\ records' \in [Caller -> [count : Nat, left : -1 .. Period]]
      /\ records'[p].count = n
      /\ \A q \in Caller \ {p} : records'[q] = records[q]
  BY <1>1, <1>2 DEF LimiterInv, LimiterTypeOK
<1>4. reply' \in [Caller -> Answer] /\ UNCHANGED <<store, answer, wait>>
  BY RecordMoves DEF LimiterInv, LimiterTypeOK, Answer
<1>5. LimiterTypeOK'
  BY <1>1, <1>3, <1>4, RecordFields DEF LimiterInv, LimiterTypeOK
<1>6. Opened'
  BY <1>1, <1>3, <1>4, RecordFields DEF LimiterInv, Opened
<1>. QED  BY <1>4, <1>5, <1>6 DEF LimiterInv, Within, Advised

LEMMA DownRange ==
  ASSUME NEW n \in Nat, NEW i \in -1 .. n
  PROVE  /\ Down(i) \in -1 .. n
         /\ Down(i) = IF i < 0 THEN i ELSE i - 1
BY DEF Down

(* What a tick makes of an entry and of a record.                           *)
LEMMA EntryTicks ==
  ASSUME LimiterInv, Tick, NEW k \in Key
  PROVE  /\ store'[k] \in [count : 0 .. Max, left : -1 .. Window, since : 0 .. Block]
         /\ store'[k].count = store[k].count
         /\ store'[k].left = Down(store[k].left)
         /\ store'[k].since = IF store[k].left < 0 \/ store[k].since = Block
                              THEN store[k].since ELSE store[k].since + 1
<1>. DEFINE e == store[k]
            l == Down(e.left)
            s == IF e.left < 0 \/ e.since = Block THEN e.since ELSE e.since + 1
<1>1. store'[k] = [e EXCEPT !.left = l, !.since = s]
  BY DEF Tick
<1>2. e \in [count : 0 .. Max, left : -1 .. Window, since : 0 .. Block]
  BY DEF LimiterInv, LimiterTypeOK
<1>3. l \in -1 .. Window /\ s \in 0 .. Block
  BY <1>2, DownRange, LimitsAssumption
<1>. HIDE DEF e, l, s
<1>4. [e EXCEPT !.left = l, !.since = s] = [count |-> e.count, left |-> l, since |-> s]
  <2>. DEFINE f == [count |-> e.count, left |-> l, since |-> e.since]
  <2>1. [e EXCEPT !.left = l] = f  BY <1>2
  <2>2. [f EXCEPT !.since = s] = [count |-> e.count, left |-> l, since |-> s]  OBVIOUS
  <2>3. [e EXCEPT !.left = l, !.since = s] = [[e EXCEPT !.left = l] EXCEPT !.since = s]
    BY Zenon
  <2>. QED  BY <2>1, <2>2, <2>3
<1>5. e.count \in 0 .. Max  BY <1>2
<1>. QED  BY <1>1, <1>3, <1>4, <1>5 DEF e, l, s

LEMMA RecordTicks ==
  ASSUME LimiterInv, Tick, NEW p \in Caller
  PROVE  /\ records'[p] \in [count : Nat, left : -1 .. Period]
         /\ records'[p].count = records[p].count
         /\ records'[p].left = Down(records[p].left)
<1>. DEFINE r == records[p]
            l == Down(r.left)
<1>1. records'[p] = [r EXCEPT !.left = l]
  BY DEF Tick
<1>2. r \in [count : Nat, left : -1 .. Period]
  BY DEF LimiterInv, LimiterTypeOK
<1>3. l \in -1 .. Period
  BY <1>2, DownRange, LimitsAssumption
<1>. HIDE DEF r, l
<1>4. [r EXCEPT !.left = l] = [count |-> r.count, left |-> l]
  BY <1>2
<1>5. r.count \in Nat  BY <1>2
<1>. QED  BY <1>1, <1>3, <1>4, <1>5 DEF r, l

LEMMA TickInv ==
  ASSUME LimiterInv, Tick
  PROVE  LimiterInv'
<1>. USE DEF Unadvised
<1>1. \A k \in Key : wait'[k] = Down(wait[k])
  BY DEF Tick
<1>2. LimiterTypeOK'
  <2>1. /\ DOMAIN store' = Key /\ DOMAIN records' = Caller /\ DOMAIN wait' = Key
        /\ store' = [k \in Key |-> store'[k]]
        /\ records' = [p \in Caller |-> records'[p]]
        /\ wait' = [k \in Key |-> Down(wait[k])]
    BY DEF Tick
  <2>2. \A k \in Key : Down(wait[k]) \in Unadvised .. Window
    <3>. SUFFICES ASSUME NEW k \in Key  PROVE  Down(wait[k]) \in Unadvised .. Window
      OBVIOUS
    <3>1. wait[k] \in Unadvised .. Window  BY EntryFields DEF LimiterInv
    <3>. QED  BY <3>1, LimitsAssumption DEF Down
  <2>3. answer' \in [Key -> Answer] /\ reply' \in [Caller -> Answer]
    BY DEF Tick, Answer
  <2>4. \A p \in Caller : records'[p].count <= MaxOf[p] + 1
    BY RecordTicks DEF LimiterInv, LimiterTypeOK
  <2>. QED  BY <2>1, <2>2, <2>3, <2>4, EntryTicks, RecordTicks DEF LimiterTypeOK
<1>3. Within'
  BY EntryTicks, EntryFields, LimitsAssumption DEF Within, LimiterInv, Down
<1>4. Advised'
  BY EntryTicks, <1>1, EntryFields, LimitsAssumption DEF Advised, LimiterInv, Down
<1>5. Opened'
  BY EntryTicks, RecordTicks, EntryFields, RecordFields DEF Opened, LimiterInv, Down
<1>. QED  BY <1>2, <1>3, <1>4, <1>5 DEF LimiterInv

LEMMA RestartLimitersInv ==
  ASSUME RestartLimiters
  PROVE  LimiterInv'
BY LimitsAssumption
DEF RestartLimiters, LimiterInv, LimiterTypeOK, Within, Advised, Opened, NoEntry, NoRecord,
    Unadvised, Answer

LEMMA LimiterNextInv == LimiterInv /\ [LimiterNext]_limiterVars => LimiterInv'
<1>1. LimiterInv /\ UNCHANGED limiterVars => LimiterInv'
  BY DEF limiterVars, LimiterInv, LimiterTypeOK, Within, Advised, Opened
<1>. QED  BY <1>1, AttemptInv, IsLimitedInv, TickInv, RestartLimitersInv DEF LimiterNext

LEMMA LimiterInductive == LimiterSpec => []LimiterInv
BY LimiterInitInv, LimiterNextInv, PTL DEF LimiterSpec

(* The limiters keep their types and their counts within the limits.        *)
THEOREM LimiterTypeCorrect == LimiterSpec => []LimiterTypeOK
<1>1. LimiterInv => LimiterTypeOK  BY DEF LimiterInv
<1>. QED  BY <1>1, LimiterInductive, PTL

(* A key is refused until the moment that the last 429 named, and not       *)
(* after it.                                                                *)
THEOREM AdviceHolds == LimiterSpec => []AdviceIsKept
<1>1. ASSUME LimiterInv, NEW k \in Key, wait[k] # Unadvised
      PROVE  Blocked(k) <=> wait[k] >= 0
  BY <1>1, BlockedIsFull, EntryFields DEF LimiterInv, Advised
<1>2. LimiterInv => AdviceIsKept
  BY <1>1 DEF AdviceIsKept
<1>. QED  BY <1>2, LimiterInductive, PTL

-----------------------------------------------------------------------------
(* The refinement, followed key by key.                                     *)

(* An attempt of a key moves only the window of that key.                   *)
LEMMA AttemptMoves ==
  ASSUME LimiterInv, NEW k \in Key, attempt(k)
  PROVE  /\ KeyUsed' = [KeyUsed EXCEPT ![k] = KeyUsed'[k]]
         /\ KeyLeft' = [KeyLeft EXCEPT ![k] = KeyLeft'[k]]
<1>1. \A j \in Key \ {k} : store'[j] = cleanup[j]
  BY CleanupKeeps DEF attempt, Opens, Counts, Refuses
<1>2. \A j \in Key \ {k} : KeyUsed'[j] = KeyUsed[j] /\ KeyLeft'[j] = KeyLeft[j]
  BY <1>1, CleanupKeeps DEF KeyUsed, KeyLeft
<1>. QED  BY <1>2 DEF KeyUsed, KeyLeft

LEMMA AttemptImplements ==
  ASSUME LimiterInv, NEW k \in Key, attempt(k)
  PROVE  Handlers!Admit(k) \/ Handlers!Refuse(k)
<1>1. CASE Opens(k)
  <2>1. store[k].left < 0
    BY <1>1, BlockedIsFull, LimitsAssumption, EntryFields DEF Opens, LimiterInv
  <2>2. store'[k] = [count |-> 1, left |-> Window, since |-> 0]
    BY <1>1, CleanupKeeps DEF Opens
  <2>3. /\ KeyUsed[k] = 0 /\ KeyUsed'[k] = 1 /\ KeyLeft'[k] = Window
    BY <2>1, <2>2, LimitsAssumption DEF KeyUsed, KeyLeft
  <2>4. answer' = [answer EXCEPT ![k] = "yes"]  BY <1>1 DEF Opens, Answers
  <2>. QED
    BY <2>3, <2>4, AttemptMoves, LimitsAssumption DEF Handlers!Admit, KeyMax
<1>2. CASE Counts(k)
  <2>1. store[k].left >= 0 /\ store[k].count >= 1 /\ store[k].count < Max
    BY <1>2 DEF Counts, LimiterInv, Opened
  <2>2. store'[k] = [count |-> store[k].count + 1, left |-> store[k].left, since |-> 0]
    BY <1>2, <2>1, CleanupKeeps DEF Counts
  <2>3. /\ KeyUsed[k] = store[k].count /\ KeyUsed'[k] = KeyUsed[k] + 1
        /\ KeyLeft'[k] = KeyLeft[k]
    BY <2>1, <2>2, EntryFields DEF KeyUsed, KeyLeft, LimiterInv
  <2>4. answer' = [answer EXCEPT ![k] = "yes"]  BY <1>2 DEF Counts, Answers
  <2>. QED
    BY <2>1, <2>3, <2>4, AttemptMoves, EntryFields, LimitsAssumption
    DEF Handlers!Admit, KeyMax, LimiterInv
<1>3. CASE Refuses(k)
  <2>1. store[k].left >= 0 /\ store[k].count = Max
    BY <1>3, BlockedIsFull DEF Refuses
  <2>2. store'[k] = store[k]
    BY <1>3, <2>1, CleanupKeeps DEF Refuses
  <2>3. /\ KeyUsed'[k] = KeyUsed[k] /\ KeyLeft'[k] = KeyLeft[k]
        /\ KeyUsed[k] = Max
    BY <2>1, <2>2, EntryFields DEF KeyUsed, KeyLeft, LimiterInv
  <2>4. UNCHANGED <<KeyUsed, KeyLeft>>
    <3>1. [KeyUsed EXCEPT ![k] = @] = KeyUsed /\ [KeyLeft EXCEPT ![k] = @] = KeyLeft
      BY DEF KeyUsed, KeyLeft
    <3>. QED  BY <2>3, <3>1, AttemptMoves
  <2>5. answer' = [answer EXCEPT ![k] = "no"]  BY <1>3 DEF Refuses, Answers
  <2>. QED
    BY <2>3, <2>4, <2>5 DEF Handlers!Refuse, KeyMax
<1>. QED  BY <1>1, <1>2, <1>3 DEF attempt

LEMMA IsLimitedImplements ==
  ASSUME LimiterInv, NEW p \in Caller, isLimited(p)
  PROVE  Middleware!Admit(p) \/ Middleware!Refuse(p)
<1>1. /\ records[p].count \in Nat /\ records[p].count <= MaxOf[p] + 1
      /\ records[p].left \in -1 .. Period
      /\ MaxOf[p] \in Nat \ {0} /\ Period \in Nat
      /\ records[p].left >= 0 => records[p].count >= 1
  BY RecordFields, LimitsAssumption DEF LimiterInv, Opened
<1>2. \A q \in Caller \ {p} : records'[q] = records[q]
  BY RecordMoves DEF LimiterInv, LimiterTypeOK
<1>3. /\ CallerUsed' = [CallerUsed EXCEPT ![p] = CallerUsed'[p]]
      /\ CallerLeft' = [CallerLeft EXCEPT ![p] = CallerLeft'[p]]
  BY <1>2 DEF CallerUsed, CallerLeft
<1>4. ASSUME NEW n, NEW m, records' = [records EXCEPT ![p] = [count |-> n, left |-> m]]
      PROVE  records'[p].count = n /\ records'[p].left = m
  BY <1>4 DEF LimiterInv, LimiterTypeOK
<1>5. CASE /\ records[p].left < 0
           /\ records' = [records EXCEPT ![p] = [count |-> 1, left |-> Period]]
           /\ reply' = [reply EXCEPT ![p] = "yes"]
  <2>1. records'[p].count = 1 /\ records'[p].left = Period  BY <1>4, <1>5
  <2>2. CallerUsed[p] = 0 /\ CallerUsed'[p] = 1 /\ CallerLeft'[p] = Period
    BY <1>1, <1>5, <2>1 DEF CallerUsed, CallerLeft
  <2>. QED  BY <1>1, <1>3, <1>5, <2>2 DEF Middleware!Admit
<1>6. CASE /\ records[p].left >= 0 /\ records[p].count < MaxOf[p]
           /\ records' = [records EXCEPT ![p] =
                [count |-> records[p].count + 1, left |-> records[p].left]]
           /\ reply' = [reply EXCEPT ![p] = "yes"]
  <2>1. records'[p].count = records[p].count + 1 /\ records'[p].left = records[p].left
    BY <1>4, <1>6
  <2>2. /\ CallerUsed[p] = records[p].count /\ CallerUsed'[p] = CallerUsed[p] + 1
        /\ CallerLeft'[p] = CallerLeft[p]
    BY <1>1, <1>6, <2>1 DEF CallerUsed, CallerLeft
  <2>. QED  BY <1>1, <1>3, <1>6, <2>2 DEF Middleware!Admit
<1>7. CASE /\ Limited(p)
           /\ records' = [records EXCEPT ![p] =
                [count |-> MaxOf[p] + 1, left |-> records[p].left]]
           /\ reply' = [reply EXCEPT ![p] = "no"]
  <2>1. records'[p].count = MaxOf[p] + 1 /\ records'[p].left = records[p].left
    BY <1>4, <1>7
  <2>2. /\ CallerUsed[p] = MaxOf[p]
        /\ CallerUsed'[p] = CallerUsed[p] /\ CallerLeft'[p] = CallerLeft[p]
    BY <1>1, <1>7, <2>1 DEF CallerUsed, CallerLeft, Limited
  <2>3. UNCHANGED <<CallerUsed, CallerLeft>>
    <3>1. [CallerUsed EXCEPT ![p] = @] = CallerUsed /\ [CallerLeft EXCEPT ![p] = @] = CallerLeft
      BY DEF CallerUsed, CallerLeft
    <3>. QED  BY <1>3, <2>2, <3>1
  <2>. QED  BY <1>7, <2>2, <2>3 DEF Middleware!Refuse
<1>. QED  BY RecordMoves, <1>5, <1>6, <1>7

LEMMA TickImplements ==
  ASSUME LimiterInv, Tick
  PROVE  Handlers!Tick /\ Middleware!Tick
<1>1. \A k \in Key :
        /\ KeyUsed'[k] = IF KeyLeft[k] = 0 THEN 0 ELSE KeyUsed[k]
        /\ KeyLeft'[k] = IF KeyLeft[k] = 0 THEN 0 ELSE KeyLeft[k] - 1
  BY EntryTicks, EntryFields DEF KeyUsed, KeyLeft, Down, LimiterInv
<1>2. Handlers!Tick
  BY <1>1 DEF Handlers!Tick, Tick, KeyUsed, KeyLeft
<1>3. \A p \in Caller :
        /\ CallerUsed'[p] = IF CallerLeft[p] = 0 THEN 0 ELSE CallerUsed[p]
        /\ CallerLeft'[p] = IF CallerLeft[p] = 0 THEN 0 ELSE CallerLeft[p] - 1
  BY RecordTicks, RecordFields DEF CallerUsed, CallerLeft, Down, LimiterInv
<1>4. Middleware!Tick
  BY <1>3 DEF Middleware!Tick, Tick, CallerUsed, CallerLeft
<1>. QED  BY <1>2, <1>4

LEMMA RestartImplements ==
  ASSUME RestartLimiters
  PROVE  Handlers!Restart /\ Middleware!Restart
BY DEF RestartLimiters, Handlers!Restart, Middleware!Restart, KeyUsed, KeyLeft, CallerUsed,
       CallerLeft, NoEntry, NoRecord

(* Each limiter stutters while the other one answers.                       *)
LEMMA StepImplements ==
  LimiterInv /\ [LimiterNext]_limiterVars =>
    [Handlers!Next]_(Handlers!vars) /\ [Middleware!Next]_(Middleware!vars)
<1>. SUFFICES ASSUME LimiterInv, [LimiterNext]_limiterVars
              PROVE  [Handlers!Next]_(Handlers!vars) /\ [Middleware!Next]_(Middleware!vars)
  OBVIOUS
<1>1. UNCHANGED <<store, answer>> => UNCHANGED Handlers!vars
  BY DEF Handlers!vars, KeyUsed, KeyLeft
<1>2. UNCHANGED <<records, reply>> => UNCHANGED Middleware!vars
  BY DEF Middleware!vars, CallerUsed, CallerLeft
<1>3. CASE UNCHANGED limiterVars
  BY <1>1, <1>2, <1>3 DEF limiterVars
<1>4. ASSUME NEW k \in Key, attempt(k)
      PROVE  Handlers!Next /\ UNCHANGED Middleware!vars
  <2>1. UNCHANGED <<records, reply>>
    BY <1>4 DEF attempt, Opens, Counts, Refuses, Answers
  <2>. QED  BY <1>2, <1>4, <2>1, AttemptImplements DEF Handlers!Next
<1>5. ASSUME NEW p \in Caller, isLimited(p)
      PROVE  UNCHANGED Handlers!vars /\ Middleware!Next
  <2>1. UNCHANGED <<store, answer>>
    BY <1>5, RecordMoves
  <2>. QED  BY <1>1, <1>5, <2>1, IsLimitedImplements DEF Middleware!Next
<1>6. CASE Tick
  BY <1>6, TickImplements DEF Handlers!Next, Middleware!Next
<1>7. CASE RestartLimiters
  BY <1>7, RestartImplements DEF Handlers!Next, Middleware!Next
<1>. QED  BY <1>3, <1>4, <1>5, <1>6, <1>7 DEF LimiterNext

(* Both limiters are fixed windows: at most so many attempts in each, and   *)
(* none refused before, whatever the block time and the counting of refused *)
(* requests suggest.                                                        *)
THEOREM LimitersAreFixedWindows == LimiterSpec => ActAsFixedWindows
<1>1. LimiterInit => Handlers!Init /\ Middleware!Init
  BY DEF LimiterInit, Handlers!Init, Middleware!Init, KeyUsed, KeyLeft, CallerUsed,
         CallerLeft, NoEntry, NoRecord
<1>. QED
  BY <1>1, StepImplements, LimiterInductive, PTL
  DEF LimiterSpec, ActAsFixedWindows, Handlers!Spec, Middleware!Spec

(* What makes blocks end, and why it takes time alone: no attempt of anyone *)
(* moves the end of a block or lifts it, and every tick brings it nearer,   *)
(* which can happen only so often.                                          *)
KeyBlockWearsOff(k) ==
  Blocked(k) =>
    /\ store[k].left \in Nat
    /\ Blocked(k)' \/ Tick \/ RestartLimiters
    /\ Blocked(k)' => store'[k].left = IF Tick THEN store[k].left - 1 ELSE store[k].left
CallerBlockWearsOff(p) ==
  Limited(p) =>
    /\ records[p].left \in Nat
    /\ Limited(p)' \/ Tick \/ RestartLimiters
    /\ Limited(p)' => records'[p].left = IF Tick THEN records[p].left - 1 ELSE records[p].left
BlockWearsOff ==
  /\ \A k \in Key : KeyBlockWearsOff(k)
  /\ \A p \in Caller : CallerBlockWearsOff(p)

THEOREM BlocksWearOff == LimiterSpec => [][BlockWearsOff]_limiterVars
<1>1. ASSUME LimiterInv, LimiterNext, NEW k \in Key  PROVE  KeyBlockWearsOff(k)
  <2>. SUFFICES ASSUME LimiterInv, LimiterNext, Blocked(k)
                PROVE  /\ store[k].left \in Nat
                       /\ Blocked(k)' \/ Tick \/ RestartLimiters
                       /\ Blocked(k)' => store'[k].left = IF Tick THEN store[k].left - 1
                                                          ELSE store[k].left
    BY <1>1 DEF KeyBlockWearsOff
  <2>1. store[k].left \in Nat
    BY EntryFields DEF Blocked, LimiterInv
  <2>2. ASSUME Tick, Blocked(k)'  PROVE  store'[k].left = store[k].left - 1
    BY <2>1, <2>2, EntryTicks DEF Down
  <2>3. ASSUME RestartLimiters  PROVE  ~Blocked(k)'
    BY <2>3 DEF RestartLimiters, Blocked, NoEntry
  <2>4. ASSUME NEW j \in Key, attempt(j)  PROVE  store'[k] = store[k]
    <3>1. cleanup[k] = store[k]
      BY CleanupKeeps DEF Blocked
    <3>2. CASE j # k
      BY <2>4, <3>1, <3>2, CleanupKeeps DEF attempt, Opens, Counts, Refuses
    <3>3. CASE j = k
      <4>1. ~Opens(k) /\ ~Counts(k)
        BY BlockedIsFull, EntryFields, LimitsAssumption DEF Opens, Counts, LimiterInv, Blocked
      <4>. QED  BY <2>4, <3>1, <3>3, <4>1 DEF attempt, Refuses
    <3>. QED  BY <3>2, <3>3
  <2>5. ASSUME NEW p \in Caller, isLimited(p)  PROVE  store'[k] = store[k]
    BY <2>5 DEF isLimited
  <2>6. CASE Tick
    BY <2>1, <2>2, <2>6
  <2>7. CASE ~Tick /\ ~RestartLimiters
    <3>1. store'[k] = store[k]
      BY <2>4, <2>5, <2>7 DEF LimiterNext
    <3>. QED  BY <2>1, <2>7, <3>1 DEF Blocked
  <2>. QED  BY <2>1, <2>3, <2>6, <2>7
<1>2. ASSUME LimiterInv, LimiterNext, NEW p \in Caller  PROVE  CallerBlockWearsOff(p)
  <2>. SUFFICES ASSUME LimiterInv, LimiterNext, Limited(p)
                PROVE  /\ records[p].left \in Nat
                       /\ Limited(p)' \/ Tick \/ RestartLimiters
                       /\ Limited(p)' => records'[p].left = IF Tick THEN records[p].left - 1
                                                            ELSE records[p].left
    BY <1>2 DEF CallerBlockWearsOff
  <2>1. records[p].left \in Nat /\ records[p].count \in Nat /\ MaxOf[p] \in Nat
    BY RecordFields DEF Limited, LimiterInv
  <2>2. ASSUME Tick, Limited(p)'  PROVE  records'[p].left = records[p].left - 1
    BY <2>1, <2>2, RecordTicks DEF Down
  <2>3. ASSUME RestartLimiters  PROVE  ~Limited(p)'
    BY <2>3 DEF RestartLimiters, Limited, NoRecord
  <2>4. ASSUME NEW q \in Caller, isLimited(q)
        PROVE  Limited(p)' /\ records'[p].left = records[p].left
    <3>1. CASE q # p
      BY <2>4, <3>1 DEF isLimited, Limited
    <3>2. CASE q = p
      <4>1. records' = [records EXCEPT ![p] = [count |-> MaxOf[p] + 1, left |-> records[p].left]]
        <5>1. isLimited(p)  BY <2>4, <3>2
        <5>2. ~(records[p].left < 0) /\ ~(records[p].count < MaxOf[p])
          BY <2>1 DEF Limited
        <5>. QED  BY <5>1, <5>2, RecordMoves
      <4>2. records'[p] = [count |-> MaxOf[p] + 1, left |-> records[p].left]
        BY <4>1 DEF LimiterInv, LimiterTypeOK
      <4>. QED  BY <2>1, <4>2 DEF Limited
    <3>. QED  BY <3>1, <3>2
  <2>5. ASSUME NEW k \in Key, attempt(k)  PROVE  UNCHANGED records
    BY <2>5 DEF attempt, Opens, Counts, Refuses, Answers
  <2>6. CASE Tick
    BY <2>1, <2>2, <2>6
  <2>7. CASE ~Tick /\ ~RestartLimiters
    <3>1. Limited(p)' /\ records'[p].left = records[p].left
      BY <2>4, <2>5, <2>7 DEF LimiterNext, Limited
    <3>. QED  BY <2>1, <2>7, <3>1
  <2>. QED  BY <2>1, <2>3, <2>6, <2>7
<1>3. LimiterInv /\ [LimiterNext]_limiterVars => [BlockWearsOff]_limiterVars
  BY <1>1, <1>2 DEF BlockWearsOff
<1>. QED  BY <1>3, LimiterInductive, PTL DEF LimiterSpec
=============================================================================
