--------------------------- MODULE PermissionCache ---------------------------
(***************************************************************************)
(* AuthorizationService: role and permission assignments kept in Postgres, *)
(* read through one in-memory cache entry per user that lives CACHE_TTL_MS *)
(* and is deleted after every change that was answered.                    *)
(*                                                                         *)
(* A call of the service is a slot of Call.  The step that executes a SQL  *)
(* statement and the step that resumes the handler after its await are     *)
(* distinct, so other handlers run between them.  Lookups of a role, a     *)
(* permission or a user by name have no effect and their rows are never    *)
(* deleted, so they are part of the statement that follows them.           *)
(***************************************************************************)
EXTENDS Naturals

CONSTANTS
  User, Role, Perm,   \* rows of users; names of roles and of permissions
  Call,               \* slots for calls of the service in progress
  Ttl,                \* CACHE_TTL_MS, in clock ticks
  SeedRoles,          \* roles and permissions the migration inserts
  SeedPerms,
  MaxChanges          \* bound: number of assignments and removals

ASSUME ConstantsAssumption ==
  /\ Ttl \in Nat \ {0}
  /\ SeedRoles \subseteq Role
  /\ SeedPerms \subseteq Perm
  /\ MaxChanges \in Nat

VARIABLES
  roles, permissions,   \* the tables of names
  userRoles,            \* user_roles: state of each possible row
  userPermissions,      \* user_permissions: state of each possible row
  rolePermissions,      \* role_permissions: the rows
  permissionCache,      \* the cache entry of each user
  call,                 \* what each call in progress awaits
  changes,              \* number of changes so far (bounds the model)
  overtaken,            \* ghost: reads that a later write made obsolete
  exposed               \* ghost: users whose entry may predate a write

tables == <<roles, permissions, userRoles, userPermissions, rolePermissions>>
vars == <<tables, permissionCache, call, changes, overtaken, exposed>>

-----------------------------------------------------------------------------
(* A row is absent, or present with no expires_at, with one in the future  *)
(* ("dated") or with one that has passed ("lapsed").                       *)
Row == {"absent", "permanent", "dated", "lapsed"}

(* A missing entry and {roles: [], permissions: [], expiresAt: 0} behave   *)
(* alike; left is the time to expiresAt, 0 once it has passed.             *)
Entry == [roles : SUBSET Role, permissions : SUBSET Perm, left : 0 .. Ttl]
NoEntry == [roles |-> {}, permissions |-> {}, left |-> 0]

Idle == [at |-> "idle"]
CallState ==
  [at : {"idle"}]
    \cup [at : {"rolesMiss"}, user : User]
    \cup [at : {"rolesRead"}, user : User, roles : SUBSET Role]
    \cup [at : {"permsMiss"}, user : User]
    \cup [at : {"viaRolesRead", "permsRead"}, user : User,
          permissions : SUBSET Perm]
    \cup [at : {"userChanged"}, user : User]
    \cup [at : {"roleChanged"}, role : Role]
    \cup [at : {"holdersRead"}, users : SUBSET User]

TypeOK ==
  /\ roles \subseteq Role
  /\ permissions \subseteq Perm
  /\ userRoles \in [User -> [Role -> Row]]
  /\ userPermissions \in [User -> [Perm -> Row]]
  /\ rolePermissions \in SUBSET (Role \X Perm)
  /\ permissionCache \in [User -> Entry]
  /\ call \in [Call -> CallState]
  /\ changes \in 0 .. MaxChanges
  /\ overtaken \subseteq Call
  /\ exposed \subseteq User

-----------------------------------------------------------------------------
(* What the queries return.  None of them looks at expires_at.             *)
HeldRoles(u) == {r \in Role : userRoles[u][r] # "absent"}
ViaRoles(u) == {p \in Perm : \E r \in HeldRoles(u) : <<r, p>> \in rolePermissions}
Direct(u) == {p \in Perm : userPermissions[u][p] # "absent"}
Granted(u) == ViaRoles(u) \cup Direct(u)
Holders(r) == {u \in User : userRoles[u][r] # "absent"}

(* The entry answers the next getUserRoles and getUserPermissions.         *)
Live(u) == permissionCache[u].left > 0

(* Mutation of Updated: the entry outlives its time to live by one tick.    *)
Updated_LivesTooLong(entry, rs, ps) ==
  [roles       |-> IF rs = {} THEN entry.roles ELSE rs,
   permissions |-> IF ps = {} THEN entry.permissions ELSE ps,
   left        |-> Ttl + 1]

(* updateCache: an empty half means "not provided" and keeps what is there; *)
(* the expiry is always renewed.                                            *)
Updated(entry, rs, ps) ==
  [roles       |-> IF rs = {} THEN entry.roles ELSE rs,
   permissions |-> IF ps = {} THEN entry.permissions ELSE ps,
   left        |-> Ttl]

(* Mutation of updateCache: no early return for two empty halves.           *)
updateCache_Always(u, rs, ps) ==
  permissionCache' = [permissionCache EXCEPT ![u] = Updated(@, rs, ps)]

updateCache(u, rs, ps) ==
  permissionCache' =
    IF rs = {} /\ ps = {} THEN permissionCache
    ELSE [permissionCache EXCEPT ![u] = Updated(@, rs, ps)]

invalidateCache(us) ==
  /\ permissionCache' =
       [u \in User |-> IF u \in us THEN NoEntry ELSE permissionCache[u]]
  /\ exposed' = exposed \ us

HasRead(c) == call[c].at \in {"rolesRead", "viaRolesRead", "permsRead"}

Finish(c) ==
  /\ call' = [call EXCEPT ![c] = Idle]
  /\ overtaken' = overtaken \ {c}

-----------------------------------------------------------------------------
Init ==
  /\ roles = SeedRoles
  /\ permissions = SeedPerms
  /\ userRoles = [u \in User |-> [r \in Role |-> "absent"]]
  /\ userPermissions = [u \in User |-> [p \in Perm |-> "absent"]]
  /\ rolePermissions \in SUBSET (SeedRoles \X SeedPerms)
  /\ permissionCache = [u \in User |-> NoEntry]
  /\ call = [c \in Call |-> Idle]
  /\ changes = 0
  /\ overtaken = {}
  /\ exposed = {}

createRole(r) ==
  /\ r \notin roles
  /\ roles' = roles \cup {r}
  /\ UNCHANGED <<permissions, userRoles, userPermissions, rolePermissions,
                 permissionCache, call, changes, overtaken, exposed>>

createPermission(p) ==
  /\ p \notin permissions
  /\ permissions' = permissions \cup {p}
  /\ UNCHANGED <<roles, userRoles, userPermissions, rolePermissions,
                 permissionCache, call, changes, overtaken, exposed>>

(* A write has been executed; the handler resumes in state next.  The ghost *)
(* marks every read for one of the affected users already executed.         *)
Written(c, next, affected) ==
  /\ call[c].at = "idle"
  /\ changes < MaxChanges
  /\ changes' = changes + 1
  /\ call' = [call EXCEPT ![c] = next]
  /\ overtaken' = overtaken \cup {d \in Call : HasRead(d) /\ call[d].user \in affected}
  /\ UNCHANGED <<permissionCache, exposed, roles, permissions>>

SetUserRole(c, u, r, row) ==
  /\ r \in roles
  /\ userRoles' = [userRoles EXCEPT ![u][r] = row]
  /\ Written(c, [at |-> "userChanged", user |-> u], {u})
  /\ UNCHANGED <<userPermissions, rolePermissions>>

assignRoleToUser(c, u, r) == \E row \in {"permanent", "dated"} : SetUserRole(c, u, r, row)
removeRoleFromUser(c, u, r) == SetUserRole(c, u, r, "absent")

SetUserPermission(c, u, p, row) ==
  /\ p \in permissions
  /\ userPermissions' = [userPermissions EXCEPT ![u][p] = row]
  /\ Written(c, [at |-> "userChanged", user |-> u], {u})
  /\ UNCHANGED <<userRoles, rolePermissions>>

assignPermissionToUser(c, u, p) ==
  \E row \in {"permanent", "dated"} : SetUserPermission(c, u, p, row)
removePermissionFromUser(c, u, p) == SetUserPermission(c, u, p, "absent")

SetRolePermissions(c, r, p, rows) ==
  /\ r \in roles
  /\ p \in permissions
  /\ rolePermissions' = rows
  /\ Written(c, [at |-> "roleChanged", role |-> r], Holders(r))
  /\ UNCHANGED <<userRoles, userPermissions>>

assignPermissionToRole(c, r, p) ==
  SetRolePermissions(c, r, p, rolePermissions \cup {<<r, p>>})
removePermissionFromRole(c, r, p) ==
  SetRolePermissions(c, r, p, rolePermissions \ {<<r, p>>})

(* The handler resumes after a change of one user.                         *)
InvalidateUser(c) ==
  /\ call[c].at = "userChanged"
  /\ invalidateCache({call[c].user})
  /\ Finish(c)
  /\ UNCHANGED <<tables, changes>>

(* The write went through but its answer is lost or arrives as an error:   *)
(* the catch block answers false and deletes no entry.                     *)
AnswerLost(c) ==
  /\ \/ /\ call[c].at = "userChanged"
        /\ exposed' = exposed \cup {call[c].user}
     \/ /\ call[c].at = "roleChanged"
        /\ exposed' = exposed \cup Holders(call[c].role)
  /\ Finish(c)
  /\ UNCHANGED <<tables, permissionCache, changes>>

(* Mutation of ReadHolders: the query leaves out assignments with a date.   *)
ReadHolders_PermanentOnly(c) ==
  /\ call[c].at = "roleChanged"
  /\ call' = [call EXCEPT ![c] = [at |-> "holdersRead",
                users |-> {u \in User : userRoles[u][call[c].role] = "permanent"}]]
  /\ UNCHANGED <<tables, permissionCache, changes, overtaken, exposed>>

(* invalidateCacheForRole: the query, its failure (logged, swallowed), and *)
(* the resumption that deletes the entries.                                *)
ReadHolders(c) ==
  /\ call[c].at = "roleChanged"
  /\ call' = [call EXCEPT ![c] = [at |-> "holdersRead", users |-> Holders(call[c].role)]]
  /\ UNCHANGED <<tables, permissionCache, changes, overtaken, exposed>>

ReadHoldersFails(c) ==
  /\ call[c].at = "roleChanged"
  /\ exposed' = exposed \cup Holders(call[c].role)
  /\ Finish(c)
  /\ UNCHANGED <<tables, permissionCache, changes>>

InvalidateHolders(c) ==
  /\ call[c].at = "holdersRead"
  /\ invalidateCache(call[c].users)
  /\ Finish(c)
  /\ UNCHANGED <<tables, changes>>

(* getUserRoles and getUserPermissions past the cache check.  A hit        *)
(* changes nothing: it returns a half of the live entry.                   *)
Miss(c, u, at) ==
  /\ call[c].at = "idle"
  /\ ~Live(u)
  /\ call' = [call EXCEPT ![c] = [at |-> at, user |-> u]]
  /\ UNCHANGED <<tables, permissionCache, changes, overtaken, exposed>>

getUserRoles(c, u) == Miss(c, u, "rolesMiss")
getUserPermissions(c, u) == Miss(c, u, "permsMiss")

ReadRoles(c) ==
  /\ call[c].at = "rolesMiss"
  /\ call' = [call EXCEPT ![c] = [at |-> "rolesRead", user |-> @.user,
                                  roles |-> HeldRoles(@.user)]]
  /\ UNCHANGED <<tables, permissionCache, changes, overtaken, exposed>>

ReadViaRoles(c) ==
  /\ call[c].at = "permsMiss"
  /\ call' = [call EXCEPT ![c] = [at |-> "viaRolesRead", user |-> @.user,
                                  permissions |-> ViaRoles(@.user)]]
  /\ UNCHANGED <<tables, permissionCache, changes, overtaken, exposed>>

(* Mutation of ReadDirect: the second query replaces the result of the first. *)
ReadDirect_Replaces(c) ==
  /\ call[c].at = "viaRolesRead"
  /\ call' = [call EXCEPT ![c] = [at |-> "permsRead", user |-> @.user,
                                  permissions |-> Direct(@.user)]]
  /\ UNCHANGED <<tables, permissionCache, changes, overtaken, exposed>>

ReadDirect(c) ==
  /\ call[c].at = "viaRolesRead"
  /\ call' = [call EXCEPT ![c] = [at |-> "permsRead", user |-> @.user,
                                  permissions |-> @.permissions \cup Direct(@.user)]]
  /\ UNCHANGED <<tables, permissionCache, changes, overtaken, exposed>>

ExposeIfOvertaken(c) ==
  exposed' = IF c \in overtaken THEN exposed \cup {call[c].user} ELSE exposed

FillRoles(c) ==
  /\ call[c].at = "rolesRead"
  /\ updateCache(call[c].user, call[c].roles, {})
  /\ ExposeIfOvertaken(c)
  /\ Finish(c)
  /\ UNCHANGED <<tables, changes>>

FillPermissions(c) ==
  /\ call[c].at = "permsRead"
  /\ updateCache(call[c].user, {}, call[c].permissions)
  /\ ExposeIfOvertaken(c)
  /\ Finish(c)
  /\ UNCHANGED <<tables, changes>>

(* A query of a read rejects: the catch block answers [].                  *)
ReadFails(c) ==
  /\ call[c].at \in {"rolesMiss", "permsMiss", "viaRolesRead"}
  /\ Finish(c)
  /\ UNCHANGED <<tables, permissionCache, changes, exposed>>

-----------------------------------------------------------------------------
Tick ==
  /\ \E u \in User : Live(u)
  /\ permissionCache' =
       [u \in User |-> [permissionCache[u] EXCEPT !.left = IF @ > 0 THEN @ - 1 ELSE 0]]
  /\ UNCHANGED <<tables, call, changes, overtaken, exposed>>

LapseRole(u, r) ==
  /\ userRoles[u][r] = "dated"
  /\ userRoles' = [userRoles EXCEPT ![u][r] = "lapsed"]
  /\ UNCHANGED <<roles, permissions, userPermissions, rolePermissions,
                 permissionCache, call, changes, overtaken, exposed>>

LapsePermission(u, p) ==
  /\ userPermissions[u][p] = "dated"
  /\ userPermissions' = [userPermissions EXCEPT ![u][p] = "lapsed"]
  /\ UNCHANGED <<roles, permissions, userRoles, rolePermissions,
                 permissionCache, call, changes, overtaken, exposed>>

(* The server process stops and starts: the cache and the calls are lost.  *)
Restart ==
  /\ permissionCache' = [u \in User |-> NoEntry]
  /\ call' = [c \in Call |-> Idle]
  /\ overtaken' = {}
  /\ exposed' = {}
  /\ UNCHANGED <<tables, changes>>

Change(c) ==
  \/ \E u \in User, r \in Role : assignRoleToUser(c, u, r)
  \/ \E u \in User, r \in Role : removeRoleFromUser(c, u, r)
  \/ \E u \in User, p \in Perm : assignPermissionToUser(c, u, p)
  \/ \E u \in User, p \in Perm : removePermissionFromUser(c, u, p)
  \/ \E r \in Role, p \in Perm : assignPermissionToRole(c, r, p)
  \/ \E r \in Role, p \in Perm : removePermissionFromRole(c, r, p)

(* A step of a call that has begun: its promise settles.                   *)
Resume(c) ==
  \/ InvalidateUser(c)
  \/ AnswerLost(c)
  \/ ReadHolders(c)
  \/ ReadHoldersFails(c)
  \/ InvalidateHolders(c)
  \/ ReadRoles(c)
  \/ FillRoles(c)
  \/ ReadViaRoles(c)
  \/ ReadDirect(c)
  \/ FillPermissions(c)
  \/ ReadFails(c)

Next ==
  \/ \E r \in Role : createRole(r)
  \/ \E p \in Perm : createPermission(p)
  \/ \E c \in Call : Change(c)
  \/ \E c \in Call, u \in User : getUserRoles(c, u)
  \/ \E c \in Call, u \in User : getUserPermissions(c, u)
  \/ \E c \in Call : Resume(c)
  \/ Tick
  \/ \E u \in User, r \in Role : LapseRole(u, r)
  \/ \E u \in User, p \in Perm : LapsePermission(u, p)
  \/ Restart

Spec == Init /\ [][Next]_vars

-----------------------------------------------------------------------------
(* What is decided from the roles and permissions handed out.  requireRole  *)
(* asks twice, so it may be handed out two states of them.                  *)
userHasRole(held, r) == r \in held
userHasPermission(granted, p) == p \in granted
requireRole(first, second, r, admin) == userHasRole(first, r) \/ userHasRole(second, admin)
requirePermission(granted, p) == userHasPermission(granted, p)

-----------------------------------------------------------------------------
(* A change that concerns u is written and has not yet deleted u's entry.  *)
PendingBy(c, u) ==
  \/ call[c].at = "userChanged" /\ call[c].user = u
  \/ call[c].at = "roleChanged" /\ u \in Holders(call[c].role)
  \/ call[c].at = "holdersRead" /\ u \in call[c].users

Pending(u) == \E c \in Call : PendingBy(c, u)

EntryExact(u) ==
  /\ permissionCache[u].roles \in {{}, HeldRoles(u)}
  /\ permissionCache[u].permissions \in {{}, Granted(u)}

(* What a read holds in its local variables is what the tables hold, unless *)
(* a write for the same user has overtaken it: in particular the two        *)
(* queries of getUserPermissions, which are no snapshot, add up to the      *)
(* permissions granted when nothing intervenes.                             *)
ReadExact(c) ==
  /\ call[c].at = "rolesRead" => call[c].roles = HeldRoles(call[c].user)
  /\ call[c].at = "viaRolesRead" => call[c].permissions = ViaRoles(call[c].user)
  /\ call[c].at = "permsRead" => call[c].permissions = Granted(call[c].user)

ReadsExact == \A c \in Call \ overtaken : ReadExact(c)

(* The invalidation protocol of the service: once every change that         *)
(* concerns a user has deleted the user's entry, each half of the entry is  *)
(* empty or is what the tables hold.  The only exceptions are the three the *)
(* code leaves open: a read that was overtaken by a write and filled the    *)
(* entry afterwards, an invalidateCacheForRole whose query failed, and a    *)
(* write that went through although the handler was told that it failed.    *)
CacheCoherent ==
  \A u \in User : Pending(u) \/ u \in exposed \/ EntryExact(u)

(* updateCache refuses an empty result, so nobody is denied by a cached     *)
(* "no roles and no permissions".                                           *)
NoCachedEmptiness ==
  \A u \in User :
    Live(u) => permissionCache[u].roles # {} \/ permissionCache[u].permissions # {}

(* What the guards of the routes make of a live entry that is coherent:     *)
(* nobody is let through by it whom the tables would not let through; and   *)
(* where an empty half denies what the tables grant, the other half has     *)
(* something to let through, which keeps the entry alive, and denies none   *)
(* of it.                                                                   *)
GuardsFollowTables ==
  \A u \in User : Live(u) => Pending(u) \/ u \in exposed \/
    LET rs == permissionCache[u].roles
        ps == permissionCache[u].permissions IN
    /\ \A r, admin \in Role : requireRole(rs, rs, r, admin) =>
         requireRole(HeldRoles(u), HeldRoles(u), r, admin)
    /\ \A p \in Perm : requirePermission(ps, p) => requirePermission(Granted(u), p)
    /\ \/ rs # {} /\ \A r \in HeldRoles(u) : userHasRole(rs, r)
       \/ ps # {} /\ \A p \in Granted(u) : userHasPermission(ps, p)
=============================================================================
