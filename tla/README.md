# Verification of bun-badges

bun-badges is an Open Badges 2.0/3.0 server: TypeScript on Bun, HTTP with Hono,
storage in Postgres through Drizzle. This directory holds TLA+ models of its
stateful parts, TLC configurations that check them on small instances, and
TLAPS proofs of what matters most for instances of every size. Paths below are
relative to the root of the repository (`src/services/...` is the server's own
`src` directory).

1. [The system](#1-the-system)
2. [What goes wrong between two awaits](#2-what-goes-wrong-between-two-awaits)
3. [How the modules are written](#3-how-the-modules-are-written)
4. [Permission cache](#4-permission-cache)
5. [Revocation status lists](#5-revocation-status-lists)
6. [OAuth tokens](#6-oauth-tokens)
7. [Key management](#7-key-management)
8. [Sign-in](#8-sign-in)
9. [OAuth clients and consent](#9-oauth-clients-and-consent)
10. [Issuer profiles and badge classes](#10-issuer-profiles-and-badge-classes)
11. [Issuer keys and credentials](#11-issuer-keys-and-credentials)
12. [Credential records](#12-credential-records)
13. [Rate limiters](#13-rate-limiters)
14. [Runs and bounds](#14-runs-and-bounds)
15. [What is proved](#15-what-is-proved)
16. [What the models say about the code](#16-what-the-models-say-about-the-code)
17. [What is not modelled](#17-what-is-not-modelled)
18. [Plan](#18-plan)

To run a check: `tlc -config MCKeyManagement.cfg MCKeyManagement.tla`; to check
the proofs of a module: `tlapm KeyManagementProofs.tla`.

## 1. The system

One process serves HTTP. Each request is handled by an async function; the
handlers share the process's memory (a permission cache, a key cache, counters
of the rate limiters) and the database. There is one thread, so the code between
two `await`s runs alone, and anything may run during an `await`. **No statement
of the server is in a transaction**, so every SQL statement is atomic by itself
and two statements of one handler can be separated by statements of others, by
a failure, or by the end of the process.

| Component | State | Operations | Interacts with | What makes it correct |
|---|---|---|---|---|
| **Permission cache** `services/authorization.service.ts` | tables `roles`, `permissions`, `user_roles`, `user_permissions`, `role_permissions`; one in-memory entry per user with an expiry | create, assign, remove, cached reads, invalidation of a user and of the holders of a role | authorization middleware reads it on each request; admin routes change it | a change is seen once its invalidation is through; two queries without a snapshot add up to the truth |
| **Status lists** `services/credential.service.ts`, `utils/signing/status-list.ts`, `routes/status.routes.ts`, `controllers/assertions.controller.ts` | `badge_assertions.revoked`; `status_lists`, a signed bit string per issuer | award, revoke, create, change and read a list, ask for a status | issuer keys sign; verifiers read | a revocation that was published stays published, nobody else is revoked, what readers are told agrees |
| **OAuth tokens** `controllers/oauth.controller.ts`, `utils/auth/oauth-jwt-bridge.ts`, `services/db.service.ts` | `authorization_codes`, `oauth_access_tokens`, `oauth_refresh_tokens`, `oauth_token_mappings`, `revoked_tokens` | three grants, introspection, revocation, mapping of an opaque token to a JWT | the sign-in component shares `revoked_tokens` | a code is exchanged once; what a client was given is known and can be revoked; a rotated token is revoked |
| **OAuth clients and consent** `controllers/oauth.controller.ts` | `oauth_clients`, `consent_records`, codes | registration, authorization request, consent page, decision | hands codes to the token endpoint | a code carries scopes the user agreed to |
| **Key management** `services/key-management.service.ts`, `services/keys.service.ts` | table `keys`; an in-memory cache without expiry | initialize, generate, import, look up, default signing key, rotate, list, delete | credential signing asks for keys | there is a default signing key; a deleted key stops being handed out; retired keys can be traced |
| **Issuer keys and credentials** `utils/signing/keys.ts`, `services/credential.service.ts`, `services/verification.service.ts` | `signing_keys`; the `revoked` column of `badge_assertions` | make a key on first use, convert an assertion into a signed credential, verify an assertion | status lists are signed with the same keys; assertions refer to badges and issuers | what was signed goes on verifying; an answer is not behind the row it was made from |
| **Credential records and verification** `services/credentials.service.ts`, `services/credential-verification.service.ts`, `services/db.service.ts` | `credentials`: `status`, `is_active`, `revoked_at` | create, change the status, revoke, reactivate, verify | three writers and three readers of one table | what one reader calls revoked no reader of the same service calls valid; a revocation is remembered |
| **Credential signing** `services/credential-signing.service.ts` | none | sign | key management | uses a key it may use |
| **Sign-in** `controllers/auth.controller.ts`, `middleware/auth.middleware.ts`, `utils/auth/jwt.ts` | `users`, `verification_codes`, `revoked_tokens` | register, login, request and verify a one-time code, refresh, revoke, authenticate a request | rate limiters in front; the OAuth endpoint exchanges its refresh tokens | an address has one owner; a revoked token stays revoked |
| **Rate limiters** `utils/auth/rateLimiter.ts`, `middleware/rate-limiter.ts` | counters in memory | count, block, clean up | the first in front of sign-in, the second of routes that ask for it (none does) | no client exceeds its limit in a window; no block lasts for ever; the advised wait is right |
| **Issuer profiles** `controllers/issuer.controller.ts` | `issuer_profiles`: columns and a JSON document | create in two statements, update, delete | badges refer to issuers | columns and document agree; no dangling references |
| **Badge classes** `routes/badges.routes.ts` | `badge_classes`: columns and a JSON document | create, update, delete | assertions refer to badges | as for issuers |
| **Authorization middleware**, **CSRF and security headers** | none (a cookie) | decide | permission cache | nobody is let through whom the tables would not let through |
| **Badge baking**, **schema validation and models**, **key encryption** | none | pure functions | – | file formats, shapes, cryptography |
| **Tokens service**, **mock OAuth service** | a table nothing else uses; none | – | tests only | – |
| **Server and routes** `src/index.ts` | – | start, stop | all | requests in progress at a stop leave nothing half-done that matters |
| **Schema, migrations, scripts** | – | – | run before the server | constraints: unique e-mail and role names, foreign keys from badges to issuers, from assertions to both, from lists to issuers |

`PROJECT.json` has a row per component with its sources and its status.

## 2. What goes wrong between two awaits

The behaviours that are hard to test here are, in decreasing order of how often
the code meets them:

* **check, await, act**: a row is read, a handler waits, and acts on what it
  read (authorization codes, status lists, registrations, consent, first keys);
* **read, await, fill**: a cache is filled from a query that a change has
  overtaken, after that change has invalidated the cache;
* **two statements, one failure**: a handler fails or the process stops between
  two statements that belong together;
* **two records of one fact**: the revoked column and the bit in the list,
  `revoked_tokens` and `is_revoked`, columns and JSON documents;
* **two checks, one clock**: a token expires between a lookup and a
  verification.

The hazards, each at its line, with the properties that cover it or the
reason why none does, are under `hazards` in `PROJECT.json`. Of those that need
an interleaving one is covered by none: that the scan of the key cache ends
(section 7). The others without a property are decided by a single state or
statement, and section 16 names them.

## 3. How the modules are written

* A handler in progress is a **slot of `Call`**; `call[c].at` names what it is
  waiting for and the other fields are the local variables it will use when it
  resumes. `Idle` is a free slot, so two calls are two concurrent requests.
* **One SQL statement is one step**, together with the synchronous code up to
  the next `await`. Where the code reads memory after a query (the caches), the
  step in which the statement takes effect and the step in which the handler
  resumes are distinct.
* Every step of a handler may **fail** (`Fails(c)`, or a named failure where the
  code catches the error and goes on): the handler ends and nothing is rolled
  back. Because the step before it may have been a statement whose answer was
  lost, this covers a write that went through and was reported as failed. Where
  the code answers something of its own in that case, or leaves something undone
  that a property is about, the failure is an action with a name (`AnswerLost`,
  `ReadHoldersFails`, `verifyOB2AssertionFails`).
* **`Restart`** is `stopServer` of `src/index.ts` or the end of the process:
  calls and memory are lost, tables stay. It is in every module that has calls
  or memory (`CredentialRecords` has neither: its operations are single
  statements), and no run disables the deadlock check.
* Time is abstracted to "has expired": a row or a token is live and becomes
  expired in a step of its own, at any moment. Where comparisons with the clock
  are the subject (the rate limiters, the expiry of a credential, the lifetime
  of a cache entry) it is a number of ticks or a place relative to the instant,
  and the instant itself is a state of its own.
* Tokens, keys, codes and rows are model values; what is generated is chosen
  with `\E` among those not used before. Where the code's choice may collide
  (six-digit codes, positions in a status list) the model lets it.
* A request that is refused before its first effect changes nothing and is not
  a step.
* **History variables** record what a property speaks about and no table keeps:
  what a client was told (`handed`, `told`, `registered`), what was asked and
  published (`history`, `asked`, `latest`), what a write has overtaken
  (`overtaken`, `exposed`, `lost`, `raced`). No guard reads them, with one
  exception that is a bound (`revoke` is only tried with tokens that a client
  was given). A property with an exception names it through such a variable,
  and the exception is as small as it can be: without it the property fails.
* Definitions named `..._Something` next to an action are variants of that
  action with a plausible bug. No specification uses them: they are the mutants
  in `PROJECT.json`, with which it is confirmed that each property can fail.

**Fairness.** `RateLimiter` assumes `WF_vars(Tick)`: time passes. Nothing else is
asked, neither that a client tries again nor that a handler gets on, and under
it no block lasts for ever (`BlocksEnd`). The other modules assume no fairness
and claim no liveness, because the code ensures none: the handlers wait for a
database that may fail at every statement, nothing retries, and there is no
queue or lock whose progress the code would have to provide. A handler that
fails has ended, and "it ends or goes on" is all that weak fairness could give.
The one loop whose end is in question is the scan of the key cache (section 7).

## 4. Permission cache

`PermissionCache.tla`, `MCPermissionCache.tla`, `PermissionCacheProofs.tla`.

| Model | Code (`services/authorization.service.ts`) |
|---|---|
| `roles`, `permissions`, `rolePermissions` | the tables |
| `userRoles[u][r]`, `userPermissions[u][p]` | a row: absent, without expiry, with one ahead ("dated"), with one passed ("lapsed") |
| `permissionCache[u]` | the entry: two lists and one `expiresAt`, as ticks left of `CACHE_TTL_MS` |
| `assignRoleToUser`, `removeRoleFromUser`, ... then `InvalidateUser` | the statement, then `invalidateCache(userId)` |
| `assignPermissionToRole`, ... then `ReadHolders`, `InvalidateHolders` | the statement, then `invalidateCacheForRole`: a query for the holders, then the deletions |
| `ReadHoldersFails` | its `catch`, which logs and goes on |
| `AnswerLost` | the `catch` of each of the six writers, reached by a write that went through: it answers false and deletes no entry |
| `getUserRoles`, `ReadRoles`, `FillRoles` | a miss, the query, `updateCache` |
| `getUserPermissions`, `ReadViaRoles`, `ReadDirect`, `FillPermissions` | a miss, two queries, the union, `updateCache` |
| `Tick`, `LapseRole`, `LapsePermission` | the clock |
| `requireRole`, `requirePermission`, `userHasRole`, `userHasPermission` | the guards of `middleware/authorization.middleware.ts` and what they call in the service: what is decided from the lists handed out |

The properties:

* `ReadsExact`: what a read holds between its queries is what the tables hold,
  *unless* a write for the same user has overtaken it. The two queries of
  `getUserPermissions` are no snapshot; this says they need not be, until
  somebody writes.
* `CacheCoherent`: once each change that concerns a user has deleted the user's
  entry, each half of the entry is empty or exact, *except* in three situations:
  an overtaken read has filled it, `invalidateCacheForRole` failed, or a write
  went through although its handler was told that it had failed. The history
  variable `exposed` marks the users whom one of the three concerns until their
  entry is deleted again. It is the whole argument for the invalidation
  protocol, including users who gain or lose a role while its holders are being
  read.
* `GuardsFollowTables`: what the guards of the routes make of an entry that is
  coherent. Nobody is let through by it whom the tables would not let through;
  and where an empty half of the entry denies what the tables grant, the other
  half has something in it and denies none of that. It rests on `updateCache`
  refusing an empty result: with an entry of two empty halves everybody would
  be denied everything until it expires.

The first exception of `CacheCoherent` is real: a read that a removal overtakes
fills the entry after the invalidation, and the removed role is served until
the entry expires, against the comment "Invalidate the cache for this user". So
is the third: whoever repeats the call that answered false repeats the
invalidation with it, whoever does not leaves the entry until it expires.

## 5. Revocation status lists

`StatusList.tla` (the handlers), `RevocationRegistry.tla` (what they promise),
`MCStatusList.tla`, `StatusListProofs.tla`.

| Model | Code |
|---|---|
| `issued`, `revoked` | rows of `badge_assertions` and their `revoked` column |
| `lists[i]` | rows of `status_lists` of issuer `i`: the set of positions that are 1, and whether the signed bytes included a proof |
| `IndexOf` | the hash of the identifier modulo the length of the list (`status-list.ts:115`): a constant, so that it may collide |
| `getStatusList`, `GetSelects`, `GetInserts` | `GET /status/list/:issuerId` through `createOrUpdateStatusList` |
| `updateCredentialRevocationStatus`, `UpdateSelects`, `UpdateInserts`, `WriteList`, `MarkAssertion` | reading the list, creating it if there is none, flipping a bit in memory, signing, writing the list back, then setting the column |
| `createAssertion`, `revokeAssertion` | the API routes; the latter sets only the column |
| `Answers`, `checkCredentialRevocationStatus` | what `GET /status/:assertionId` and the service answer |

`RevocationRegistry` is the abstract specification: each credential has a status
of its own, which changes only because that change was asked for, and once for
each time it was; a change may be abandoned. `StatusList` implements it under
the refinement mapping "the bit in the issuer's list is set" and "the updates in
progress that have not written yet" (`RegistrySpec`) – **as long as no two
handlers have the list of one issuer in hand at once, and if no two credentials
of an issuer share a position**. Both hypotheses are needed, the code ensures
neither. When two handlers of one issuer overlap so, the later write restores
the bits it read before the earlier one was written; with a shared position
revoking one credential revokes the other, and `OnlyAskedIsListed` is what is
left of the promise.

A handler has the list of an issuer in hand (`Holds`) from the query whose result
it goes by, a list that it will change or none at all, until it has written or
given up; `overlapped` (history) is the set of the issuers for which two handlers
did so at once. Two handlers that merely run at the same time do not overlap:
`createOrUpdateStatusList` looks again before it inserts. The following hold for
any number of handlers and whatever positions collide:

* `OnlyAskedIsListed`: a set bit was asked for by somebody with that position.
* `ColumnFollowsList`: the column says revoked only after a list was written
  that says so, or through the API route.
* `PublishedStaysListed`: a published revocation is in every list of the issuer
  until a reinstatement is asked for, of that credential or of one in its
  position, *unless* two handlers of that issuer have overlapped. What handlers
  of other issuers do meanwhile, failures and restarts make no difference.
* `OneListPerIssuer`: the lists of an issuer do not differ, with the same
  exception.

The signed document goes through a jsonb column and is taken as it was; the
column does not keep the order of keys, in which the document was signed. Only
`StoredListsVerify` looks at signatures. The list it finds unverifiable is so in
any order of keys; that the lists it does not find verify is not claimed.

## 6. OAuth tokens

`OAuthTokens.tla`, `MCOAuthTokens.tla`, `OAuthTokensProofs.tla`.

| Model | Code |
|---|---|
| `issued`, `used`, `expired` | `authorization_codes` (and the expiry of login refresh tokens) |
| `origin[t]` | the code, session or client credentials a token was generated for |
| `access[t]`, `refreshRows` | `oauth_access_tokens`, `oauth_refresh_tokens` |
| `mapping`, `revoked`, `revokedJwt` | `oauth_token_mappings`, `revoked_tokens` for the token and for its JWT |
| `handleAuthorizationCodeGrant`, `useAuthorizationCode`, `createAccessToken`, `createRefreshToken`, `convertOAuthToJWT` | the code grant: read and check, mark, store, store, map, answer |
| `handleRefreshTokenGrant`, `handleClientCredentialsGrant`, `storeAccessToken`, `RotateSession` | the other grants; `storeAccessToken` hides a failed insert and goes on |
| `revoke`, `FindMapping`, `FindToken`, `RevokeJwt`, `deleteTokenMappingByOAuth` | `revokeOAuthAndJWT` |
| `introspect` | the answer of the introspection endpoint, which does not look at `revoked_tokens` |
| `Marking`, `Checks`, `raced` (history) | codes that a handler has read and not yet marked; those that a second one has read meanwhile |
| `handed` (history) | tokens in an answer |

* `SpentFirst`: whatever fails, a code for which a token is stored is marked, so
  a retry of a half-done exchange is refused.
* `CodeTokensAreKnown`: a code grant that was answered names a token that is
  stored and was bridged – although six statements may fail and one of the
  helpers hides failures.
* `AnsweredMeansRotated`: an answered refresh grant has revoked what it was given.
* `NoOrphanJwt`: revocations that interleave or stop half-way never leave a live
  token whose JWT is neither revoked nor reachable through the mapping.
* `OneTokenPerCode`: a code brings forth one token, retries and failures
  included, *unless* a second handler checked it between another's check and
  mark. The window between the read and the mark is the only reason.

## 7. Key management

`KeyManagement.tla`, `MCKeyManagement.tla`, `KeyManagementProofs.tla`.

| Model | Code (`key-management.service.ts` unless said otherwise) |
|---|---|
| `row[k]` | a row of `keys`: active, retired by a rotation, revoked by a deletion |
| `kind[k]` | signing, the default signing key, verification |
| `previous[k]` | `previous_key_id` |
| `cache[k]` | the in-memory map: `usable` or `revoked` |
| `LoadKeys`, `LoadCache` | `initialize`, which runs while requests are served |
| `generateKey`, `createKey`, `FillCache` | generation and import |
| `getKey`, `getKeyById`, `FillCache` | a lookup past the cache |
| `getDefaultSigningKey`, `AskName`, `FindDefault` | the scan of the cache, then of the table, then a generation |
| `rotateKey`, `CreateSuccessor`, `RetireKey`, `ReplaceEntry` | rotation: insert, update (`keys.service.ts`), cache |
| `listKeys`, `ListVerification`, `RefillCache` | two queries, `clear`, refill |
| `deleteKey`, `revokeKey`, `EvictEntry` | deletion: update, evict |
| `latest` (history) | the default key inserted last |
| `outdated` (history) | which handlers hold which row, on the way to the cache, as it was before it ceased to be active (`Holds`, `Ages`) |

* `NeverFalselyRevoked`: what the cache holds exists, and what it calls revoked
  is no longer active. The cache errs in one direction only.
* `DefaultSurvives`: unless somebody deletes one, there is an active default
  signing key from the first on, however rotations of old and new keys
  interleave, repeat, fail or are cut off.
* `RetiredHasSuccessor`: a retired key has a successor of its type and name that
  points back to it.
* `OnlyLateFillsAreStale` (an action property): a key that is no longer active
  comes to stay in the cache as usable in two ways only: a handler that took the
  row in hand while it was active, and in whose hands it was outdated, resumes;
  or a handler fails between its statement and the eviction. A handler that
  reads the row after the deletion or the retirement never puts it there as
  usable: it caches it as revoked.

`getDefaultSigningKey` iterates over the live map and awaits in the loop body.
An entry that `listKeys` clears and sets again meanwhile is visited again, so a
scan that overlaps a stream of listings need not end. The model visits each
entry at most once; a second visit changes no state. That the scan ends is not
claimed.

## 8. Sign-in

`SignIn.tla`, `MCSignIn.tla`, `SignInProofs.tla`.

| Model | Code (`controllers/auth.controller.ts` unless said otherwise) |
|---|---|
| `account[e]` | `users`: the password of the row with the unique address |
| `secret`, `attempts`, `used`, `lapsed` | `verification_codes` |
| `kind`, `expired`, `revoked` | the JWTs of a login and `revoked_tokens` |
| `register`, `createUser`, `AnswerRegistration` | the lookup, the insert after hashing, the answer |
| `login` | both tokens |
| `requestCode`, `verifyCode`, `ReadAttempts`, `recordVerificationAttempt`, `markCodeAsUsed` | one-time codes: lookup, list of attempts read and written back, mark |
| `Present`, `Verify`, `Serve` | the middleware: look for a revocation, then verify, then serve |
| `revokeToken`, `AnswerRevocation`, `AlreadyRevoked` | the revocation endpoint, which authenticates the same way |
| `registered`, `told` (history), `late` | what clients were told, and whether a request began after that |

* `RegistrantOwnsAccount`: who was told that a registration succeeded owns the
  account, however two registrations of one address interleave. It rests on the
  unique column, which is external to the code.
* `UsedWereAttempted`: a used code has a recorded attempt, although attempts can
  overwrite each other.
* `RevocationSticks`: once a client was told that a token is revoked, no request
  that begins later is accepted with it. The row of the revocation stops
  counting when the token expires, so it depends on two things in the code: the
  row lasts exactly as long as the token, and the revocation is looked up
  *before* the token is verified. In the other order a token could be verified
  just before it expires and its revocation be looked for just after.

`revoked_tokens` is shared with the OAuth endpoint, which verifies first and
looks up second. That is safe there, because its rows are kept for 90 days,
longer than any of its tokens.

## 9. OAuth clients and consent

`OAuthConsent.tla`, `MCOAuthConsent.tla`, `OAuthConsentProofs.tla`.

| Model | Code (`controllers/oauth.controller.ts` unless said otherwise) |
|---|---|
| `registered`, `clientScope[i]` | `oauth_clients` and its scope column |
| `consents[p]` | `consent_records` of a user and a client, by their scopes |
| `registerClient`, `validateScopes` | registration; which requested scopes are valid |
| `authorize`, `CheckConsent` | the authorization request: a code at once, or the consent page |
| `handleAuthorizationDecision`, `getConsentRecord`, `createConsentRecord`, `updateConsentRecord` | an approved decision, and the lookup, insert or merge of its record (`db.service.ts`) |
| `issueAuthorizationCode` | the code and the redirect |
| `remembered`, `kept` (history) | scopes of decisions that asked to be remembered, and of those whose record was written |
| `overtaken`, `disputed` (history) | decisions whose lookup another one has overtaken, and for whom such a decision has written |

No constraint makes the record of a user and a client unique: the lookup takes
any of them (`limit(1)`), the update changes all.

* `UnaskedWasRemembered`: a code issued without a question carries only scopes
  that this user had the server remember for this client, and that the client
  may have. The record is read in one step, enlarged and written in another, so
  it has to hold for whatever a stale merge writes back.
* `TypeOK` says, beside the types, that every request in progress and every
  record is for a registered client. The decision comes by a form of its own,
  whose client nothing but the lookup in its handler ties to a request.
* `RememberedIsKept`: there is at most one record, and it is exactly what was
  remembered and written, unless two decisions overlapped between the lookup and
  the write. The exception is exact: with it removed the property is violated.

## 10. Issuer profiles and badge classes

`Catalogue.tla`, `MCCatalogue.tla`, `CatalogueProofs.tla`.

| Model | Code (`controllers/issuer.controller.ts`, `routes/badges.routes.ts`, `controllers/assertions.controller.ts`) |
|---|---|
| `stored`, `columns[r]`, `doc[r]` | rows of `issuer_profiles` and `badge_classes`: the columns and the JSON document: its data, and the origin of its `id`, or the placeholder |
| `Url`, `Host`, `Named` | the field `url`, which stands for the origin of the URL; the origins at which requests reach the server; a document with the identifier of its row under an origin |
| `issuerOf`, `awarded`, `of`, `by` | the references of badge classes and assertions |
| `createIssuer`, `FindIssuer`, `createBadge`, then `NameRow` | the insert with a placeholder for the identifier, and the statement that corrects it |
| `ReadIssuer`, `updateIssuer` | the row is read and merged; all columns and the document are written |
| `ReadBadge`, `updateBadge` | the columns the request names are written, and the document as it was read, changed |
| `hasAssociatedBadges`, `hasAssociatedAssertions`, `deleteIssuer` | two counts, the deletion |
| `FindBadge`, `hasBadgeAssertions`, `deleteBadge` | the same for a badge class |
| `Referenced` | the foreign keys |
| `getIssuer`, `listIssuers`, `getBadge`, `listBadges` | what is served |
| `asked`, `overtaken`, `lost`, `torn`, `broken` (history) | what the statements were asked to make of a row; handlers that a write has overtaken; rows such a handler has written; profiles torn between their statements; creations that ended half-way |

A profile and a badge class are each two copies of the same data, and the two
components write them differently. That is what the properties tell apart:

* `ProfileServedIsStored`: `GET /issuers` does not answer the stored document
  but makes one from the columns. The two say the same of the profile, while it
  is created and however updates overlap – except after an update that came
  between the two statements of the creation, until the next update. Their `id`s
  are made in two ways: the stored one from the origin of the request that wrote
  it, the served one from the origin of the profile's own `url`. So they are the
  same document only if the server has one origin and the `url` is there; with
  any other `url` the `id` served is an address at which the server does not
  answer. Before the second statement of the creation, or without it, the stored
  `id` is a placeholder.
* `ProfileUpdatesKept`: an update is lost only if the row was written between
  the query of a handler and its write. Profiles lose columns and document
  together.
* `BadgeUpdatesKept`: the columns of a badge class are never lost; the document
  is, when handlers overlap. So an overlap leaves the columns and the document
  of a badge class different until that field is updated again, which cannot
  happen to a profile that was created undisturbed.
* `NothingDangles`: a badge class has its profile, an assertion its badge class,
  and the profile an assertion names is that of its badge class. The handlers
  count and then delete; what is inserted after the count is caught by the
  foreign keys, and by nothing else.

## 11. Issuer keys and credentials

`Issuance.tla`, `MCIssuance.tla`, `IssuanceProofs.tla`.

| Model | Code |
|---|---|
| `stored`, `revoked` | `badge_assertions` and its `revoked` column |
| `keys[i]` | the key pairs of an issuer in `signing_keys` |
| `createAssertion`, `getAssertion`, `listAssertions`, `revokeAssertion` | the handlers of `controllers/assertions.controller.ts` and what they pass on |
| `ensureIssuerKeyExists`, `getSigningKey`, `generateSigningKey` | the first key: lookup, and an insert if there is none |
| `createCredential`, `createAchievement`, `signCredential` | the credential: read the assertion again, read the badge class, look for a key and sign |
| `updateCredentialRevocationStatus` | the last statement of the other way to revoke and to reinstate |
| `verifyAssertion`, `verifyBadgeJson`, `verifyOB2Assertion` | two reads of the row, a verdict: the errors it names, and valid if there are none |
| `verifyOB2AssertionFails` | the `catch` around the second read, which answers that the assertion is not valid |
| `WellFormed` | assertions whose stored document has the structure of 2.0, which depends on how the badge class came back from its column |
| `verifySignature` | which answers the lookup of *a* key of the issuer may lead to; a lookup that fails or finds nothing answers false |
| `signedWith`, `raced`, `disowned`, `reinstated` (history) | keys that signed; issuers for whom two handlers found no key; assertions ever revoked, and ever reinstated |

* `CredentialsVerify`: a credential verifies for ever, whenever the key can be
  queried and whoever made the first of them, *unless* two handlers both found
  that the issuer had none. Each then
  inserts one, and since lookups have no order (`limit(1)`) and verification
  ignores the verification method of the proof, the answer may change from one
  request to the next.
* `ReplyNotBehindRow`: the row in a reply and the credential beside it come from
  two reads. The credential is never behind: what the row calls revoked has a
  status entry in the credential, however long signing takes.
* `VerdictsAreTimely`: in spite of the two reads, the verdict on an assertion
  that was revoked when the verification began says so, unless its query failed,
  when it is "not valid" with nothing said of a revocation; and a verdict that
  says "revoked" is on an assertion that has been revoked. "Not valid" alone is
  no revocation: a failed query or a malformed document answers so too.

The last two have an exception, an assertion that was reinstated meanwhile.

## 12. Credential records

`CredentialRecords.tla`, `MCCredentialRecords.tla`; proofs in
`IssuanceProofs.tla`.

| Model | Code |
|---|---|
| `recorded`; `status`, `isActive`, `revokedAt` | rows of the table `credentials` and three of their columns |
| `storeCredential`, `createCredentialRow`, `Inserts` | `storeCredential` of `CredentialsService` and `createCredential` of `DatabaseService`, whose callers may name a status, a date of revocation and, with the second, the flag |
| `updateCredentialStatus`, `setCredentialStatus`, `SetRevoked` | the writers: `CredentialsService`, `DatabaseService`, `CredentialVerificationService` |
| `RevokedFor...`, `ValidFor...` | the reader of each service, over the columns that service looks at |
| `ValidByJwt`, `ValidByDocument`, `verifyCredential`, `verifyCredentialJwt`, `verifyCredentialLd`, `checkCredentialStatus`, `revokeCredential` | what `controllers/credential-verification.controller.ts` answers |
| `Expires` | the clock passes the expiry date; at the date itself two services disagree |
| `latest`, `everRevoked` (history) | what was last asked, and what was ever revoked, or stored with a date |
| `askew`, `Agree` (history) | rows stored with columns that disagree – active without the flag, revoked without a date – and not written since |

Each operation is one statement, so the hazard is not an interleaving but a
legal sequence of calls after which the readers disagree. Neither insert
refuses columns that disagree; the properties except rows stored so until one of
the writers sets them, and hold of all others.

* `ReadersOfRevocation`: to `CredentialsService` "revoked" means revoked at any
  time, to the two others "not active now". The readers disagree about exactly
  two kinds of credential: suspended or expired ones that were never revoked,
  and those revoked and made active again.
* `ValidIsNotRevoked`: no service calls valid what it calls revoked, although
  each looks at different columns for the two; and what the verification
  service verifies, by whichever of its three requests, the database service
  verifies, and `CredentialsService` unless it was revoked once.
* `RevocationIsRemembered` (an action property): what `CredentialsService` once
  calls revoked it calls revoked for ever, whatever any writer is asked. A row
  stored as revoked without a date is forgotten by the next writer, which is why
  it is excepted.

## 13. Rate limiters

`RateLimiter.tla`, `FixedWindow.tla` (what a limiter promises),
`MCRateLimiter.tla`; proofs in `SignInProofs.tla`.

| Model | Code |
|---|---|
| `store[k]` | an entry of `utils/auth/rateLimiter.ts`: the count, the ticks to the end of the window, the ticks since the last admitted attempt |
| `attempt`: `Opens`, `Counts`, `Refuses`; `cleanup` | `attempt`, which cleans up first: a new window, a count, a refusal; the handler's 429 with `getTimeToReset` |
| `records[p]`, `isLimited` | `middleware/rate-limiter.ts`, one limiter for each kind of client |
| `Tick` | the clock |
| `answer`, `reply`, `wait` (history) | the answers since the last tick; what is left of the `retryAfter` a key was told |

`FixedWindow` is the abstract specification: the first attempt opens a window of
fixed length, at most `Max` are admitted while it is open, none is refused
before, then all is forgotten.

* `ActAsFixedWindows`: both limiters implement `FixedWindow`, each under its own
  refinement mapping (`KeyMax`, `KeyUsed`, `KeyLeft`; `CallerUsed`,
  `CallerLeft`), the answers included. For the sign-in limiter this says
  that its block, constructed twice as long as the window, never makes a
  difference, because the entry is dropped at the end of the window; for the
  middleware that going on counting what it refuses never moves the period.
* `AdviceIsKept`: the `retryAfter` of a refusal is right to the tick, whatever
  attempts follow.
* `BlocksEnd` (liveness): whoever is refused is admitted again later, even a
  client that never stops trying.

## 14. Runs and bounds

| Run | Instance | Shows |
|---|---|---|
| `permission_cache` | 2 users, 1 role, 1 permission, 2 calls, time to live 1, at most 3 changes (`MaxChanges`), tables empty at first | `TypeOK`, `ReadsExact`, `CacheCoherent`, `GuardsFollowTables` |
| `status_list_sequential` | 3 assertions of 2 issuers, positions of their own, 1 call, at most 4 updates (`MaxUpdates`) | `TypeOK`, refinement `RegistrySpec` |
| `status_list_concurrent` | 4 assertions: two of an issuer in one position, one in another, one of a second issuer; 2 calls, at most 2 updates | `OnlyAskedIsListed`, `ColumnFollowsList`, `PublishedStaysListed`, `OneListPerIssuer` |
| `resigned_lists` | 3 assertions of 2 issuers, positions of their own, 1 call, at most 2 updates | violated: `StoredListsVerify`, an updated list does not verify |
| `oauth_tokens` | 1 code, 1 session, client credentials, 2 tokens, 2 calls | `SpentFirst`, `CodeTokensAreKnown`, `AnsweredMeansRotated`, `NoOrphanJwt`, `OneTokenPerCode` |
| `key_management` | 3 keys, 2 calls | `TypeOK`, `NeverFalselyRevoked`, `DefaultSurvives`, `RetiredHasSuccessor`, `OnlyLateFillsAreStale` |
| `oauth_consent` | 2 users, 1 client, 2 scopes of which 1 is known, 2 calls | `TypeOK`, `UnaskedWasRemembered`, `RememberedIsKept` |
| `sign_in` | 1 address, 2 passwords, 2 tokens, 2 rows of one code, 2 clients, 2 calls | `TypeOK`, `RegistrantOwnsAccount`, `UsedWereAttempted`, `RevocationSticks` |
| `catalogue` | 1 profile, 1 badge class, 1 assertion, 1 field, the url, with 2 values, of which 1 is the origin of the server, 3 calls | `ProfileServedIsStored`, `ProfileUpdatesKept`, `BadgeUpdatesKept`, `NothingDangles` |
| `issuance` | 3 assertions of 2 issuers, one of them malformed, 2 keys, 2 calls | `CredentialsVerify`, `ReplyNotBehindRow`, `VerdictsAreTimely` |
| `credential_records` | 4 credentials of different kinds | `ReadersOfRevocation`, `ValidIsNotRevoked`, `RevocationIsRemembered` |
| `rate_limiter` | 2 keys, 2 attempts in a window of 3 ticks, block of 6; 2 clients with 1 and 2 requests in a period of 1 | `AdviceIsKept`, refinement `ActAsFixedWindows`, liveness `BlocksEnd` |

Every bound is a size of a constant set or a constant named `Max...`:

* **2 calls** are every interleaving of two handlers, with `Restart` and
  failures of each between any two statements. For properties about one read,
  one write and one cache a third adds nothing that a history of two could not
  show. `catalogue` has **3**, because a deletion can meet a creation and an
  award at once. The theorems hold for every number.
* **`MaxChanges`** (3) allows an assignment, a change of the role and a removal,
  all of them overlapping reads; **`MaxUpdates`** (4) allows each of three
  assertions to be revoked and one to be reinstated; with two calls, 2 are the
  two updates that overlap, each beside the creation of a list for a reader and
  with failures, of one issuer or of two, of one position or of two. They stop
  the only counters of the models (`changes`, `updates`), which no other guard
  reads.
* **Tokens, keys, code rows, profiles**: each is used up by a generation, so
  their number bounds how often something is made. Two tokens are two exchanges
  of one code or a pair of a login; three keys are a default key, its successor,
  and the successor of either; two key pairs are those of two issuers or the two
  that race for one. Identifiers of deleted rows are not used again.
* **Credentials** in `credential_records` are one of each kind that a reader
  tells apart: with and without a UUID, a structure, a proof of a known type,
  the recipient in the data, an expiry date. Their rows do not interact, so the
  run is a product of four small ones.
* **A window of 3 and a block of 6** let an attempt fall before, at and after
  the end of either, and keep the factor of two between them that the code has.
  Counts of the middleware above the limit are one value, as nothing tells them
  apart.
* Symmetry is used with model values only, and only for invariants and an action
  property. The runs that check a refinement or liveness have none.
* Conditions that make a property vacuous were excluded with the mutants: each
  property is violated by at least one plausible bug under its own bounds.

## 15. What is proved

Each theorem is about `Spec` of its module, for all values of the constants that
satisfy the module's assumption, and without the bounds: `MaxChanges` and
`MaxUpdates` are arbitrary numbers, the sets arbitrary sets.

**`PermissionCacheProofs`**: `TypeCorrect`, `ReadsAreExact`, `CacheIsCoherent`,
`NoEmptinessIsCached`, `GuardsAreSound`. The invariant (`Coherence`) states the
protocol per call: what a read that was not overtaken has collected so far, and
that a read that was overtaken will mark the user when it fills the cache, as
the loss of an answer marks those whom the write concerned.
`CacheCoherent` is not inductive without it, because the contents of a future
fill are in the local variables of a read. `GuardsAreSound` follows from
coherence and from the absence of empty entries, at every reachable state.

**`StatusListProofs`**: `TypeCorrect`, `NothingElseIsListed`,
`ColumnIsBehindList`, `OneList`, `PublishedStays`, `QuietListsAreRegistry`,
`ListsAreRegistry`, for any number of calls. Two invariants carry them.
`AskedInv` covers the copies of lists that handlers hold in memory, since those
are what is written back: every bit in them was asked for. `QuietInv` is about
the issuers outside `overlapped`: one handler at most has their list in hand
(`OneHolder`); what it has read is what the database still holds, changed in one
position (`CallsInHand`); and a list that was published exists
(`PublishedExists`). It is inductive because a handler writes no list but the
one it has in hand, and whoever takes a list in hand while another handler has
it puts the issuer into `overlapped`. A write then changes one position of the
list, and clears a bit only for a credential in that position that somebody
asked to reinstate. `QuietListsAreRegistry` maps every step of `StatusList` to a
step of `RevocationRegistry` or to a stutter: the write of the list is `Apply`,
for the slot of the handler as the requester. Its hypotheses are `OwnPositions`
and, of the behaviour, that `overlapped` stays empty, which handlers of
different issuers cannot disturb; `ListsAreRegistry` is the case of one slot.

**`OAuthTokensProofs`**: `TypeCorrect`, `CodesAreSpentFirst`, `CodeTokensKnown`,
`AnsweredRotated`, `JwtsAreNotOrphaned`, `CodesBringForthOne`. The invariant
(`TokenInv`) says that a token in the hands of a grant is in nobody else's
(`GrantsApart`) and not yet handed out, that its code is spent, and that a
handler about to delete a mapping has revoked the JWT (`JwtFirst`).
`CodesBringForthOne` adds who may be about to mark a code: unless two have
raced for it, one handler at most, and only while the code has no token.

**`KeyManagementProofs`**: `TypeCorrect`, `CacheIsFavourable`,
`RotationKeepsDefault`, `RetiredAreTraced`, `StaleEntriesExplained`. The
invariant (`KeyInv`) has three parts: whatever a handler or the cache holds was
read when the key was at least as usable (`Favourable`); what each handler may
still do (`Promise`: a rotation about to retire a key has inserted its
successor); and, the heart of `DefaultSurvives`, the default key inserted
*last* is never retired (`LatestLives`), because whoever retires a key has
inserted a later one. `StaleEntriesExplained` is an action property proved from
the same invariant: a row that is no longer active and that a handler holds as
usable is outdated in its hands (`HeldIsKnown`), because a row is taken in hand
as usable only while it is active (`TakesActive`); and only what a handler held
is filled as usable (`FillsHeld`).

**`SignInProofs`**: `TypeCorrect`, `RegistrantsOwn`, `UsedAttempted`,
`RevocationIsFinal`. The invariant (`SignInInv`) has a promise per handler; for
`RevocationSticks` it is: a request that began after the client was told has
already been refused, or its token has expired – so that its verification, which
comes next, refuses it.

The same module proves about `RateLimiter` `LimiterTypeCorrect`, `AdviceHolds`,
`LimitersAreFixedWindows` and `BlocksWearOff`, for every limit, window and
period (`LimitsAssumption` has the block twice as long as the window, as the code
makes it). The invariant (`LimiterInv`) says
that the age of the last admitted attempt and the time to the end of the window
together never exceed the window (`Within`), so that a block is never over
before the window is; that the advice given is what is left of a window that
stays full (`Advised`); and that an open window or period counts at least one
attempt (`Opened`). Attempts, requests, ticks and
restarts are then mapped to steps of `FixedWindow` one by one. `BlocksWearOff`
is the part of `BlocksEnd` that needs no fairness: no attempt moves or lifts
the end of a block, and every tick brings it one tick nearer.

**`OAuthConsentProofs`**: `TypeCorrect`, `UnaskedCodesWereRemembered`,
`RememberedScopesAreKept`. The invariant (`ConsentInv`) says what each handler
holds: scopes within what was remembered (`Promise`), and, unless it was
overtaken, what it has read is still so (`StillAsRead`). An insert then meets an
empty table and an update exactly the record it read, which is why one record
with everything in it remains.

**`CatalogueProofs`**: `TypeCorrect`, `ProfilesServedAreStored`,
`ProfilesKeepUpdates`, `BadgesKeepUpdates`, `ReferencesHold`. The invariant
(`CatalogueInv`) adds that what a handler that was not overtaken will write is
the merge of its request with what the row still holds (`StillAsRead`), and that
a row in the hands of a handler is not made anew (`HeldIsUsed`), without which a
handler could write to a later row of the same identifier.

**`IssuanceProofs`**: `TypeCorrect`, `CredentialsAlwaysVerify`,
`RepliesAreNotBehind`, `VerdictsComeInTime`, whatever subset of the documents is
well-formed. The invariant (`IssuanceInv`) says
that an issuer nobody raced for has one key at most and that whoever is making
it is alone and finds none (`OneKey`), that keys that signed are still there
(`SignedIsKept`), and what each handler has seen that is still so
(`PromisesKept`).

The same module proves about `CredentialRecords` `RecordsTypeCorrect`,
`ReadersMean`, `ValidAreNotRevoked` and `RevocationsAreRemembered`, for any set of
credentials of any kinds. The readers look at three columns, and the properties
hold because of how the writers keep them together (`ColumnsAgree`), outside
rows stored askew.

A proof module is about one component, except these two, whose second
component stands in front of or behind the first and shares no variable with
it: the limiter in front of sign-in, the records of the credentials that were
issued.

Every invariant, action property and refinement that a run checks is stated by a
theorem. Only model-checked:

* liveness (`BlocksEnd`), which under fairness is out of the prover's reach;
* that the modified definitions violate the properties (the mutants), and the
  one violation.

Assumptions: the named `ASSUME` of each module (finite numbers, seeds among the
constants, `None` outside the sets), the hypotheses of the two refinement
theorems about status lists, and the database constraints that the
actions build in (section 1, last row).

## 16. What the models say about the code

Confirmed by a run (`findings` in `PROJECT.json`): a status list that was updated
is signed with its old proof inside the signed bytes; the verifier removes the
proof first, so it does not verify (`resigned_lists`).

Stated by a property as its exception. Each property is false without it:

* A read of roles or permissions that a change has overtaken fills the
  permission cache with what was, until the entry expires; so does a change that
  was committed and reported as failed, for it deletes no entry
  (`CacheCoherent`).
* Two handlers of one issuer's status list that overlap lose the earlier update,
  or make two lists that differ (`PublishedStaysListed`, `OneListPerIssuer`).
* Two exchanges of one authorization code that overlap both succeed
  (`OneTokenPerCode`).
* Two decisions of a user that overlap lose scopes or leave two records
  (`RememberedIsKept`).
* Two updates of a profile, or of the document of a badge class, that overlap
  lose the earlier one; an update that comes between the two statements of a
  creation is undone in the document only (`ProfileUpdatesKept`,
  `BadgeUpdatesKept`, `ProfileServedIsStored`).
* A creation that fails between its statements leaves a row whose document names
  a placeholder (`ProfileServedIsStored`, `BadgeUpdatesKept`).
* Two first credentials of an issuer that overlap make two keys, after which
  either's signatures may or may not verify (`CredentialsVerify`).
* The readers of a credential record disagree about suspended credentials, and
  about those revoked and made active again (`ReadersOfRevocation`). A record
  may be stored with columns that disagree from the start; one stored as revoked
  without a date loses its revocation when it is made active
  (`RevocationIsRemembered`).
* The served document of a profile has an `id` under the origin of the profile's
  `url`, the stored one under that of the server (`ProfileServedIsStored`).

Met while modelling, kept in the models as the code has them, and decided by one
state or one line, so no property is spent on them:

* *Permission cache*: a read of the roles fills one half of an entry; a read of
  the permissions within its lifetime answers with no permissions. Each refill
  of a half renews the expiry of the other. `expires_at` of an assignment is
  stored and read by no query.
* *Profiles*: the image and the link to a DID are in the stored document only
  until the second statement of the creation; a `url` that is none, in any one
  profile, makes the list of profiles fail.
* *Status lists*: two credentials of an issuer may share a position,
  and revoking one then revokes the other. `POST /api/assertions/{id}/revoke`
  sets a column and `GET /status/{id}` prefers the list, so a badge revoked
  through the API is reported as valid once the issuer has a list.
* *OAuth tokens*: introspection reports a revoked access token as active,
  because it looks at `is_revoked`, which nothing sets. The same login refresh
  token can be exchanged twice concurrently. The refresh tokens that grants hand
  out are opaque, and the refresh grant accepts JWTs only. Code grants answer
  opaque access tokens, the API accepts JWTs only. `storeAccessToken` hides a
  failed insert, so a refresh grant may answer an access token the server does
  not know.
* *Key management*: a deleted or retired key whose entry is stale stays usable
  for as long as the process lives, and the default signing key is taken from
  the cache without asking the table whether it is active. A rotation gives
  the successor the key material of the old key. Concurrent requests for a missing
  default key make several. What a generation caches and what a lookup caches
  differ in whether the private key is encrypted.
* *Sign-in*: `verifyCode` accepts a code that was used before, while
  `docs/authentication.md:15` calls it one-time; the tokens it answers are promises that
  were not awaited, serialized as `{}`. `refreshToken` and `revokeToken`
  verify what they get as an access token and so refuse a refresh token.
  Concurrent attempts at one code are lost from its list.
* *Consent*: the page of the server posts the public `client_id`, and the
  handler looks for the internal UUID, so that only a form made by somebody who
  knows the UUID (registration answers it) is accepted. The scopes of the form
  are not validated again.
* *Credentials*: a credential that carries no status entry says nothing of a
  later revocation; one that is made after it does. The checks of a proof by the
  verification service are placeholders, and its records need an identifier that
  is a UUID while the default of the column is not one.
* *Rate limiters*: the entry of a blocked client is cleaned up at the end of its
  window, so a block never outlasts the window. `requireAuth` takes an option
  that would put the middleware's limiter in front of a route; no route passes
  it.

## 17. What is not modelled

* **Cryptography and formats** (key encryption, credential signing, baking, JWT
  and JSON encodings, schema validation): pure functions whose correctness is
  not a matter of state. Where a model depends on what one does, that is in it
  (a proof copied into signed bytes, a colliding hash, an expiry in a token).
* **The guards over a token's payload or scopes, CSRF, security headers**: decide
  from one request. The guards that read the permission cache are in
  `PermissionCache`.
* **`verifyOB3Assertion`**: the documents the server stores are all of the 2.0
  format, so no call reaches it.
* **Tokens service, mock OAuth service**: no part of the server uses them.
* **Migrations and scripts**: run before the server and once.
* **Clean-up functions nobody calls** (`cleanupExpired...`, the one of the
  middleware's limiter): the tables grow; every query that uses the rows compares
  the expiry anyhow.
* **Requests refused before they have an effect**, and everything that only
  wording, logging or layout would tell apart.

## 18. Plan

Every component of the server whose state outlives a request has a module. What
is left, in the order in which it would add most:

| Next | Aimed at |
|---|---|
| `SignIn` and `OAuthTokens` over one `revoked_tokens` | the two lookups of one table in opposite orders (section 8), now argued and not checked |
| `StatusList` and `Issuance` over one `revoked` column | the status entry of a credential against the list it names |
| The scan of the key cache with repeated visits | the only hazard without a property: that it ends once no listing interferes |
| Badge baking and the verification placeholders, when they get state or substance | – |
