---------------------------- MODULE KeyManagement ----------------------------
(***************************************************************************)
(* KeyManagementService and KeysService: rows of the table keys, a cache   *)
(* of them in memory without any time to live, rotation in two statements, *)
(* and a default signing key that is generated when none is found.         *)
(*                                                                         *)
(* A call of the service is a slot of Call.  The step that executes a SQL  *)
(* statement and the step that resumes the handler after its await are     *)
(* distinct, so other handlers run between them.  A row never disappears   *)
(* and its type and name never change, so looking them up has no effect    *)
(* and is part of the step that follows.                                   *)
(***************************************************************************)

CONSTANTS
  Key,     \* identifiers of rows
  None,
  Call     \* slots for calls of the service in progress

VARIABLES
  row,       \* state of each row of keys
  kind,      \* what the row's type and name say
  previous,  \* its previousKeyId
  cache,     \* keysCache: entries with isRevoked unset and set
  call,
  latest,    \* history: the default signing key inserted last
  outdated   \* history: <<handler, key>> where the key has ceased to be active
             \* after the handler read it and before it is done with it

rows == <<row, kind, previous, latest>>
vars == <<rows, cache, call, outdated>>

-----------------------------------------------------------------------------
(* "active": is_active; "retired": not active; "revoked": with revoked_at.  *)
Row == {"none", "active", "retired", "revoked"}
Exists(k) == row[k] # "none"

(* "default" is a signing key with the name default-signing-key.            *)
Kind == {"default", "signing", "verification"}

ASSUME NoneAssumption == None \notin Key \cup Kind

Signing == {k \in Key : Exists(k) /\ kind[k] # "verification"}
Verification == {k \in Key : Exists(k) /\ kind[k] = "verification"}
ActiveDefault == {k \in Key : row[k] = "active" /\ kind[k] = "default"}

(* Rows in the hands of a handler, as dbKeyToKeyPair will put them into the *)
(* cache; also the contents of the cache.                                   *)
Entries == [Key -> {"none", "usable", "revoked"}]
NoEntries == [k \in Key |-> "none"]

(* Variants that would be bugs: revoked_at is tested the wrong way round;    *)
(* is_active is not tested at all.                                          *)
dbKeyToKeyPair_Inverted(S) ==
  [k \in Key |-> IF k \notin S THEN "none"
                 ELSE IF row[k] = "revoked" THEN "usable" ELSE "revoked"]
dbKeyToKeyPair_IgnoresActive(S) ==
  [k \in Key |-> IF k \notin S THEN "none"
                 ELSE IF row[k] = "revoked" THEN "revoked" ELSE "usable"]
dbKeyToKeyPair(S) ==
  [k \in Key |-> IF k \notin S THEN "none"
                 ELSE IF row[k] = "active" THEN "usable" ELSE "revoked"]

Fresh(k) == [NoEntries EXCEPT ![k] = "usable"]

Idle == [at |-> "idle"]
CallState ==
  [at : {"idle", "load", "findDefault"}]
    \cup [at : {"get", "rotate", "delete", "evict"}, key : Key]
    \cup [at : {"create"}, kind : Kind]
    \cup [at : {"fill", "loaded", "list", "refill"}, seen : Entries]
    \cup [at : {"ask"}, key : Key, tried : SUBSET Key]
    \cup [at : {"retire", "replace"}, key : Key, new : Key]

TypeOK ==
  /\ row \in [Key -> Row]
  /\ kind \in [Key -> Kind \cup {None}]
  /\ \A k \in Key : kind[k] = None <=> row[k] = "none"
  /\ previous \in [Key -> Key \cup {None}]
  /\ cache \in Entries
  /\ call \in [Call -> CallState]
  /\ latest \in Key \cup {None}
  /\ outdated \in SUBSET (Call \X Key)

Goes(c, s) == call' = [call EXCEPT ![c] = s]
Ends(c) == Goes(c, Idle)
At(c, at) == call[c].at = at

-----------------------------------------------------------------------------
(* The module is loaded and initialize runs, with an empty cache, while     *)
(* requests are already being served.                                       *)
Init ==
  /\ row = [k \in Key |-> "none"]
  /\ kind = [k \in Key |-> None]
  /\ previous = [k \in Key |-> None]
  /\ cache = NoEntries
  /\ call \in {[d \in Call |-> IF d = c THEN [at |-> "load"] ELSE Idle] : c \in Call}
  /\ latest = None
  /\ outdated = {}

Restart ==
  /\ cache' = NoEntries
  /\ call' \in {[d \in Call |-> IF d = c THEN [at |-> "load"] ELSE Idle] : c \in Call}
  /\ UNCHANGED rows

(* updateCache for each of the rows seen.                                   *)
updateCache(seen) ==
  cache' = [k \in Key |-> IF seen[k] = "none" THEN cache[k] ELSE seen[k]]

Insert(k, kd, prev) ==
  /\ ~Exists(k)
  /\ row' = [row EXCEPT ![k] = "active"]
  /\ kind' = [kind EXCEPT ![k] = kd]
  /\ previous' = [previous EXCEPT ![k] = prev]
  /\ latest' = IF kd = "default" THEN k ELSE latest

(* loadKeys: the active signing keys are read, then cached; without a       *)
(* default key among them one is generated.                                 *)
LoadKeys(c) ==
  /\ At(c, "load")
  /\ Goes(c, [at |-> "loaded", seen |-> dbKeyToKeyPair({k \in Signing : row[k] = "active"})])
  /\ UNCHANGED <<rows, cache>>

LoadCache(c) ==
  LET seen == call[c].seen IN
  /\ At(c, "loaded")
  /\ updateCache(seen)
  /\ IF \E k \in Key : seen[k] # "none" /\ kind[k] = "default" THEN Ends(c)
     ELSE Goes(c, [at |-> "create", kind |-> "default"])
  /\ UNCHANGED rows

(* generateKey and importKey.                                               *)
generateKey(c, kd) ==
  /\ At(c, "idle")
  /\ Goes(c, [at |-> "create", kind |-> kd])
  /\ UNCHANGED <<rows, cache>>

createKey(c) ==
  /\ At(c, "create")
  /\ \E k \in Key : /\ Insert(k, call[c].kind, None)
                    /\ Goes(c, [at |-> "fill", seen |-> Fresh(k)])
  /\ UNCHANGED cache

(* getKey past the cache.  A hit changes nothing.                           *)
getKey(c, k) ==
  /\ At(c, "idle")
  /\ cache[k] = "none"
  /\ Goes(c, [at |-> "get", key |-> k])
  /\ UNCHANGED <<rows, cache>>

getKeyById(c) ==
  LET k == call[c].key IN
  /\ At(c, "get")
  /\ IF Exists(k) THEN Goes(c, [at |-> "fill", seen |-> dbKeyToKeyPair({k})]) ELSE Ends(c)
  /\ UNCHANGED <<rows, cache>>

(* The handler that read or inserted a row resumes.                         *)
FillCache(c) ==
  /\ At(c, "fill")
  /\ updateCache(call[c].seen)
  /\ Ends(c)
  /\ UNCHANGED rows

(* getDefaultSigningKey iterates over the cache and asks the table for the  *)
(* name of each usable signing key, then lists the table.  The order of the *)
(* cache is left open.                                                      *)
AskNext(c, tried) ==
  LET left == {k \in Signing \ tried : cache[k] = "usable"} IN
  IF left = {} THEN Goes(c, [at |-> "findDefault"])
  ELSE \E k \in left : Goes(c, [at |-> "ask", key |-> k, tried |-> tried \cup {k}])

getDefaultSigningKey(c) ==
  /\ At(c, "idle")
  /\ AskNext(c, {})
  /\ UNCHANGED <<rows, cache>>

AskName(c) ==
  /\ At(c, "ask")
  /\ IF kind[call[c].key] = "default" THEN Ends(c) ELSE AskNext(c, call[c].tried)
  /\ UNCHANGED <<rows, cache>>

FindDefault(c) ==
  /\ At(c, "findDefault")
  /\ IF ActiveDefault = {} THEN Goes(c, [at |-> "create", kind |-> "default"])
     ELSE \E k \in ActiveDefault : Goes(c, [at |-> "fill", seen |-> dbKeyToKeyPair({k})])
  /\ UNCHANGED <<rows, cache>>

-----------------------------------------------------------------------------
(* Variants of rotateKey that would be bugs: the old key is retired first;  *)
(* a key that does not exist is not refused.                                *)
rotateKey_RetiresFirst(c, k) ==
  /\ At(c, "idle") /\ row[k] = "active"
  /\ row' = [row EXCEPT ![k] = "retired"]
  /\ Goes(c, [at |-> "rotate", key |-> k])
  /\ UNCHANGED <<kind, previous, latest, cache>>
rotateKey_Unknown(c, k) ==
  /\ At(c, "idle")
  /\ Goes(c, [at |-> "rotate", key |-> k])
  /\ UNCHANGED <<rows, cache>>

(* rotateKey: a second row with the same key material, name and type; then  *)
(* the first is made inactive; then the cache follows.  Nothing asks        *)
(* whether the key is active.                                               *)
rotateKey(c, k) ==
  /\ At(c, "idle") /\ Exists(k)
  /\ Goes(c, [at |-> "rotate", key |-> k])
  /\ UNCHANGED <<rows, cache>>

(* Variant that would be a bug: the successor is not linked.                *)
CreateSuccessor_Unlinked(c) ==
  LET k == call[c].key IN
  /\ At(c, "rotate")
  /\ \E new \in Key : /\ Insert(new, kind[k], None)
                      /\ Goes(c, [at |-> "retire", key |-> k, new |-> new])
  /\ UNCHANGED cache
CreateSuccessor(c) ==
  LET k == call[c].key IN
  /\ At(c, "rotate")
  /\ \E new \in Key : /\ Insert(new, kind[k], k)
                      /\ Goes(c, [at |-> "retire", key |-> k, new |-> new])
  /\ UNCHANGED cache

RetireKey(c) ==
  LET k == call[c].key IN
  /\ At(c, "retire")
  /\ row' = [row EXCEPT ![k] = IF @ = "active" THEN "retired" ELSE @]
  /\ Goes(c, [at |-> "replace", key |-> k, new |-> call[c].new])
  /\ UNCHANGED <<kind, previous, latest, cache>>

ReplaceEntry(c) ==
  /\ At(c, "replace")
  /\ cache' = [cache EXCEPT ![call[c].key] = "none", ![call[c].new] = "usable"]
  /\ Ends(c)
  /\ UNCHANGED rows

(* listKeys: two queries, after which the cache is cleared and filled.      *)
listKeys(c) ==
  /\ At(c, "idle")
  /\ Goes(c, [at |-> "list", seen |-> dbKeyToKeyPair(Signing)])
  /\ UNCHANGED <<rows, cache>>

ListVerification(c) ==
  LET more == dbKeyToKeyPair(Verification) IN
  /\ At(c, "list")
  /\ Goes(c, [at |-> "refill", seen |-> [k \in Key |->
                IF more[k] = "none" THEN call[c].seen[k] ELSE more[k]]])
  /\ UNCHANGED <<rows, cache>>

RefillCache(c) ==
  /\ At(c, "refill")
  /\ cache' = call[c].seen
  /\ Ends(c)
  /\ UNCHANGED rows

deleteKey(c, k) ==
  /\ At(c, "idle") /\ Exists(k)
  /\ Goes(c, [at |-> "delete", key |-> k])
  /\ UNCHANGED <<rows, cache>>

revokeKey(c) ==
  LET k == call[c].key IN
  /\ At(c, "delete")
  /\ row' = [row EXCEPT ![k] = "revoked"]
  /\ Goes(c, [at |-> "evict", key |-> k])
  /\ UNCHANGED <<kind, previous, latest, cache>>

EvictEntry(c) ==
  /\ At(c, "evict")
  /\ cache' = [cache EXCEPT ![call[c].key] = "none"]
  /\ Ends(c)
  /\ UNCHANGED rows

(* A statement fails, or its answer is lost: the handler ends where it is.  *)
Fails(c) ==
  /\ ~At(c, "idle")
  /\ Ends(c)
  /\ UNCHANGED <<rows, cache>>

Request(c) ==
  \/ \E kd \in Kind : generateKey(c, kd)
  \/ \E k \in Key : getKey(c, k)
  \/ getDefaultSigningKey(c)
  \/ \E k \in Key : rotateKey(c, k)
  \/ listKeys(c)
  \/ \E k \in Key : deleteKey(c, k)

Resume(c) ==
  \/ LoadKeys(c)
  \/ LoadCache(c)
  \/ createKey(c)
  \/ getKeyById(c)
  \/ FillCache(c)
  \/ AskName(c)
  \/ FindDefault(c)
  \/ CreateSuccessor(c)
  \/ RetireKey(c)
  \/ ReplaceEntry(c)
  \/ ListVerification(c)
  \/ RefillCache(c)
  \/ revokeKey(c)
  \/ EvictEntry(c)

(* The handler has k in its hands as usable, on the way to the cache.       *)
Holds(c, k) ==
  \/ call[c].at \in {"fill", "loaded", "list", "refill"} /\ call[c].seen[k] = "usable"
  \/ call[c].at \in {"retire", "replace"} /\ call[c].new = k

(* The history variable: what a handler holds becomes outdated in the step  *)
(* in which the row ceases to be active, and is so until it lets go of it.  *)
Ages ==
  outdated' = {h \in Call \X Key :
    /\ Holds(h[1], h[2])'
    /\ \/ h \in outdated
       \/ Holds(h[1], h[2]) /\ row[h[2]] = "active" /\ row'[h[2]] # "active"}

Next ==
  /\ \/ \E c \in Call : Request(c) \/ Resume(c) \/ Fails(c)
     \/ Restart
  /\ Ages

Spec == Init /\ [][Next]_vars

-----------------------------------------------------------------------------
(* The cache may be behind the table in one direction only: what it holds   *)
(* exists, and what it calls revoked is not active.  A revoked row never    *)
(* comes back to life, so an old read can at worst be too favourable.       *)
NeverFalselyRevoked ==
  \A k \in Key : /\ cache[k] # "none" => Exists(k)
                 /\ cache[k] = "revoked" => row[k] # "active"

(* Rotation never takes the last default signing key away: unless somebody  *)
(* deletes one, there is an active one from the first on, however rotations *)
(* of old and new keys interleave, fail half-way or are cut off.            *)
DefaultSurvives ==
  (\E k \in Key : kind[k] = "default")
  /\ (\A k \in Key : kind[k] = "default" => row[k] # "revoked")
    => ActiveDefault # {}

(* A key that was retired has a successor of the same type and name that    *)
(* points back to it: what was signed with it can still be traced.          *)
RetiredHasSuccessor ==
  \A k \in Key : row[k] = "retired" => \E j \in Key : previous[j] = k /\ kind[j] = kind[k]

(* A stale entry that no handler is about to delete.                        *)
Evicting(c, k) == call[c].at \in {"evict", "replace"} /\ call[c].key = k
LeftStale(k) ==
  cache[k] = "usable" /\ row[k] # "active" /\ ~ \E c \in Call : Evicting(c, k)

(* The two ways in which a key that is no longer active comes to stay in    *)
(* the cache as usable: a handler that read the row while it was active     *)
(* resumes after the row has ceased to be, or a handler fails between its   *)
(* statement and the deletion of the entry.  A handler that reads the row   *)
(* after the key was retired or revoked never puts it there as usable.      *)
OnlyLateFillsAreStale ==
  [][\A k \in Key : LeftStale(k)' /\ ~LeftStale(k)
       => \E c \in Call : \/ <<c, k>> \in outdated /\ Resume(c)
                          \/ Evicting(c, k) /\ Fails(c)]_vars
=============================================================================
