-------------------------------- MODULE SignIn --------------------------------
(***************************************************************************)
(* AuthController and the middleware that authenticates requests:          *)
(* registration, login, one-time codes, and the life of the JWTs that      *)
(* login hands out, which are revoked by a row of revoked_tokens.          *)
(*                                                                         *)
(* Handlers that await are slots of Call; one SQL statement, or one check  *)
(* of a password or a signature, is one step.  A request that is refused   *)
(* before its first effect, by the rate limiter for one, changes nothing   *)
(* and is left out.  So is what only the generated names and hashes tell   *)
(* apart.  The tokens that verifyCode and refreshToken make are promises   *)
(* nobody awaits: they never reach the client and are left out too.        *)
(***************************************************************************)

CONSTANTS
  Email,
  Password,
  Token,     \* JWTs that login may generate
  CodeRow,   \* rows of verification_codes
  Secret,    \* pairs of a user name and a code
  Client,    \* what x-forwarded-for says of a client
  Call,      \* slots for handlers in progress
  None

ASSUME NoneAssumption == None \notin Password \cup Secret

VARIABLES
  account,     \* password of each row of users
  secret,      \* user name and code of each row of verification_codes
  lapsed,      \* rows of verification_codes past their expiresAt
  attempts,    \* the attempts column
  used,        \* rows with usedAt
  kind,        \* type claim of each token
  expired,     \* tokens past their exp
  revoked,     \* tokens with a row in revoked_tokens
  registered,  \* history: registrations answered with 201
  told,        \* history: tokens a client was told are revoked
  call

codeRows == <<secret, lapsed, attempts, used>>
tokens == <<kind, expired, revoked, told>>
vars == <<account, codeRows, tokens, registered, call>>

-----------------------------------------------------------------------------
Idle == [at |-> "idle"]
Purpose == {"api", "refresh", "revoke"}
CallState ==
  [at : {"idle"}]
    \cup [at : {"createUser", "created"}, email : Email, password : Password]
    \cup [at : {"attempt", "mark"}, code : CodeRow, client : Client]
    \cup [at : {"record"}, code : CodeRow, client : Client, seen : SUBSET Client]
    \cup [at : {"verify", "accepted"}, token : Token, purpose : Purpose, late : BOOLEAN]
    \cup [at : {"insert", "inserted"}, token : Token]

TypeOK ==
  /\ account \in [Email -> Password \cup {None}]
  /\ secret \in [CodeRow -> Secret \cup {None}]
  /\ lapsed \subseteq CodeRow
  /\ attempts \in [CodeRow -> SUBSET Client]
  /\ used \subseteq CodeRow
  /\ kind \in [Token -> {"none", "access", "refresh"}]
  /\ expired \subseteq Token
  /\ revoked \subseteq Token
  /\ registered \subseteq Email \X Password
  /\ told \subseteq Token
  /\ call \in [Call -> CallState]

Goes(c, s) == call' = [call EXCEPT ![c] = s]
Ends(c) == Goes(c, Idle)
At(c, at) == call[c].at = at

Init ==
  /\ account = [e \in Email |-> None]
  /\ secret = [r \in CodeRow |-> None]
  /\ lapsed = {}
  /\ attempts = [r \in CodeRow |-> {}]
  /\ used = {}
  /\ kind = [t \in Token |-> "none"]
  /\ expired = {}
  /\ revoked = {}
  /\ registered = {}
  /\ told = {}
  /\ call = [c \in Call |-> Idle]

-----------------------------------------------------------------------------
(* Variant that would be a bug: a registration without a password goes on.  *)
register_Incomplete(c, e, p) ==
  /\ At(c, "idle")
  /\ account[e] = None
  /\ \E q \in {p, None} : Goes(c, [at |-> "createUser", email |-> e, password |-> q])
  /\ UNCHANGED <<account, codeRows, tokens, registered>>

(* register looks for the address; hashes the password; inserts the user,   *)
(* which the unique address may refuse by then: a failure like others.      *)
register(c, e, p) ==
  /\ At(c, "idle")
  /\ account[e] = None
  /\ Goes(c, [at |-> "createUser", email |-> e, password |-> p])
  /\ UNCHANGED <<account, codeRows, tokens, registered>>

(* Variant that would be a bug: the second insertion overwrites the first.  *)
createUser_Overwrites(c) ==
  /\ At(c, "createUser")
  /\ account' = [account EXCEPT ![call[c].email] = call[c].password]
  /\ Goes(c, [call[c] EXCEPT !.at = "created"])
  /\ UNCHANGED <<codeRows, tokens, registered>>
createUser(c) ==
  /\ At(c, "createUser")
  /\ account[call[c].email] = None
  /\ account' = [account EXCEPT ![call[c].email] = call[c].password]
  /\ Goes(c, [call[c] EXCEPT !.at = "created"])
  /\ UNCHANGED <<codeRows, tokens, registered>>

AnswerRegistration(c) ==
  /\ At(c, "created")
  /\ registered' = registered \cup {<<call[c].email, call[c].password>>}
  /\ Ends(c)
  /\ UNCHANGED <<account, codeRows, tokens>>

(* login: the account is read once and never changes, so the checks and the *)
(* two tokens are one step.                                                 *)
login(e, p) ==
  /\ account[e] = p
  /\ \E a, r \in Token :
       /\ a # r /\ kind[a] = "none" /\ kind[r] = "none"
       /\ kind' = [kind EXCEPT ![a] = "access", ![r] = "refresh"]
  /\ UNCHANGED <<account, codeRows, expired, revoked, told, registered, call>>

-----------------------------------------------------------------------------
(* requestCode.  Codes are random and short: two rows may have the same.    *)
requestCode(s) ==
  /\ \E r \in CodeRow :
       /\ secret[r] = None
       /\ secret' = [secret EXCEPT ![r] = s]
  /\ UNCHANGED <<account, lapsed, attempts, used, tokens, registered, call>>

(* getVerificationCode: any row with the name and the code that has not     *)
(* lapsed; usedAt is not looked at.                                         *)
verifyCode(c, s, i) ==
  /\ At(c, "idle")
  /\ \E r \in CodeRow \ lapsed :
       /\ secret[r] = s
       /\ Goes(c, [at |-> "attempt", code |-> r, client |-> i])
  /\ UNCHANGED <<account, codeRows, tokens, registered>>

(* recordVerificationAttempt: the list is read and written back.            *)
ReadAttempts(c) ==
  /\ At(c, "attempt")
  /\ Goes(c, [at |-> "record", code |-> call[c].code, client |-> call[c].client,
              seen |-> attempts[call[c].code]])
  /\ UNCHANGED <<account, codeRows, tokens, registered>>

(* Variant that would be a bug: the list is written back as it was read.    *)
recordVerificationAttempt_Unchanged(c) ==
  /\ At(c, "record")
  /\ attempts' = [attempts EXCEPT ![call[c].code] = call[c].seen]
  /\ Goes(c, [at |-> "mark", code |-> call[c].code, client |-> call[c].client])
  /\ UNCHANGED <<account, secret, lapsed, used, tokens, registered>>
recordVerificationAttempt(c) ==
  /\ At(c, "record")
  /\ attempts' = [attempts EXCEPT ![call[c].code] = call[c].seen \cup {call[c].client}]
  /\ Goes(c, [at |-> "mark", code |-> call[c].code, client |-> call[c].client])
  /\ UNCHANGED <<account, secret, lapsed, used, tokens, registered>>

markCodeAsUsed(c) ==
  /\ At(c, "mark")
  /\ used' = used \cup {call[c].code}
  /\ Ends(c)
  /\ UNCHANGED <<account, secret, lapsed, attempts, tokens, registered>>

-----------------------------------------------------------------------------
(* isTokenRevoked: a row counts until its expiresAt, which is the exp of    *)
(* the token.                                                               *)
isTokenRevoked(t) == t \in revoked \ expired

(* Variant that would be a bug: expired tokens are accepted.                *)
verifyToken_Expired(t) == kind[t] = "access"
verifyToken(t) == kind[t] = "access" /\ t \notin expired

(* createAuthMiddleware, refreshToken and revokeToken start alike: they     *)
(* look for a revocation and verify the token as an access token after.     *)
Present(c, t, p) ==
  /\ At(c, "idle") /\ kind[t] # "none"
  /\ ~isTokenRevoked(t)
  /\ Goes(c, [at |-> "verify", token |-> t, purpose |-> p, late |-> t \in told])
  /\ UNCHANGED <<account, codeRows, tokens, registered>>

AlreadyRevoked(t) ==
  /\ isTokenRevoked(t)
  /\ told' = told \cup {t}
  /\ UNCHANGED <<account, codeRows, kind, expired, revoked, registered, call>>

Verify(c) ==
  LET t == call[c].token IN
  /\ At(c, "verify")
  /\ IF ~verifyToken(t) THEN Ends(c)
     ELSE IF call[c].purpose = "revoke" THEN Goes(c, [at |-> "insert", token |-> t])
     ELSE Goes(c, [call[c] EXCEPT !.at = "accepted"])
  /\ UNCHANGED <<account, codeRows, tokens, registered>>

(* The request is served, or the refresh answered.                          *)
Serve(c) ==
  /\ At(c, "accepted")
  /\ Ends(c)
  /\ UNCHANGED <<account, codeRows, tokens, registered>>

revokeToken(c) ==
  /\ At(c, "insert")
  /\ revoked' = revoked \cup {call[c].token}
  /\ Goes(c, [at |-> "inserted", token |-> call[c].token])
  /\ UNCHANGED <<account, codeRows, kind, expired, told, registered>>

AnswerRevocation(c) ==
  /\ At(c, "inserted")
  /\ told' = told \cup {call[c].token}
  /\ Ends(c)
  /\ UNCHANGED <<account, codeRows, kind, expired, revoked, registered>>

-----------------------------------------------------------------------------
Expire(t) ==
  /\ kind[t] # "none" /\ t \notin expired
  /\ expired' = expired \cup {t}
  /\ UNCHANGED <<account, codeRows, kind, revoked, told, registered, call>>

Lapse(r) ==
  /\ secret[r] # None /\ r \notin lapsed
  /\ lapsed' = lapsed \cup {r}
  /\ UNCHANGED <<account, secret, attempts, used, tokens, registered, call>>

(* A statement fails, or its answer is lost: the handler ends where it is.  *)
Fails(c) ==
  /\ ~At(c, "idle")
  /\ Ends(c)
  /\ UNCHANGED <<account, codeRows, tokens, registered>>

Restart ==
  /\ call' = [c \in Call |-> Idle]
  /\ UNCHANGED <<account, codeRows, tokens, registered>>

Request(c) ==
  \/ \E e \in Email, p \in Password : register(c, e, p)
  \/ \E s \in Secret, i \in Client : verifyCode(c, s, i)
  \/ \E t \in Token, p \in Purpose : Present(c, t, p)

Resume(c) ==
  \/ createUser(c)
  \/ AnswerRegistration(c)
  \/ ReadAttempts(c)
  \/ recordVerificationAttempt(c)
  \/ markCodeAsUsed(c)
  \/ Verify(c)
  \/ Serve(c)
  \/ revokeToken(c)
  \/ AnswerRevocation(c)

Next ==
  \/ \E c \in Call : Request(c) \/ Resume(c) \/ Fails(c)
  \/ \E e \in Email, p \in Password : login(e, p)
  \/ \E s \in Secret : requestCode(s)
  \/ \E t \in Token : AlreadyRevoked(t) \/ Expire(t)
  \/ \E r \in CodeRow : Lapse(r)
  \/ Restart

Spec == Init /\ [][Next]_vars

-----------------------------------------------------------------------------
(* Who was told that the registration succeeded owns the account: of two    *)
(* registrations of one address that both found it free, the second is not  *)
(* told so and does not change the password of the first.                   *)
RegistrantOwnsAccount ==
  \A g \in registered : account[g[1]] = g[2]

(* A code that is marked as used has a recorded attempt, although the list  *)
(* of attempts is written back from an earlier read.                        *)
UsedWereAttempted ==
  \A r \in used : attempts[r] # {}

(* Once a client was told that a token is revoked, no request that begins   *)
(* later is accepted with it.  The revocation itself stops counting when    *)
(* the token expires, between the two checks of a request if it comes to    *)
(* that: it works because the revocation is looked up before the token is   *)
(* verified, and lasts as long as the token.                                *)
RevocationSticks ==
  \A c \in Call : At(c, "accepted") => ~call[c].late
=============================================================================
