------------------------ MODULE PermissionCacheProofs ------------------------
(* Proofs about PermissionCache, for every value of its constants. *)
EXTENDS PermissionCache, TLAPS

-----------------------------------------------------------------------------
(* Type correctness *)

LEMMA UpdatedType ==
  ASSUME NEW entry \in Entry, NEW rs \in SUBSET Role, NEW ps \in SUBSET Perm
  PROVE  Updated(entry, rs, ps) \in Entry
BY ConstantsAssumption DEF Updated, Entry

LEMMA NoEntryType == NoEntry \in Entry
BY ConstantsAssumption DEF NoEntry, Entry

(* The three shapes in which a step replaces the state of one call.         *)
LEMMA CallUpdateType ==
  ASSUME call \in [Call -> CallState], NEW c \in Call, NEW s \in CallState,
         call' = [call EXCEPT ![c] = s]
  PROVE  call' \in [Call -> CallState]
OBVIOUS

LEMMA FinishType ==
  ASSUME TypeOK, NEW c \in Call, Finish(c)
  PROVE  call' \in [Call -> CallState] /\ overtaken' \subseteq Call
<1>1. Idle \in CallState  BY DEF Idle, CallState
<1>. QED  BY <1>1, CallUpdateType DEF Finish, TypeOK

(* updateCache and invalidateCache keep the entries well formed.            *)
LEMMA CacheUpdateType ==
  ASSUME TypeOK, NEW u \in User, NEW rs \in SUBSET Role, NEW ps \in SUBSET Perm,
         updateCache(u, rs, ps)
  PROVE  permissionCache' \in [User -> Entry]
<1>1. Updated(permissionCache[u], rs, ps) \in Entry  BY UpdatedType DEF TypeOK
<1>. QED  BY <1>1 DEF updateCache, TypeOK

LEMMA InvalidateType ==
  ASSUME TypeOK, NEW us, invalidateCache(us)
  PROVE  permissionCache' \in [User -> Entry] /\ exposed' \subseteq User
BY NoEntryType DEF invalidateCache, TypeOK

LEMMA WrittenType ==
  ASSUME TypeOK, NEW c \in Call, NEW s \in CallState, NEW us, Written(c, s, us)
  PROVE  /\ call' \in [Call -> CallState]
         /\ changes' \in 0 .. MaxChanges
         /\ overtaken' \subseteq Call
         /\ UNCHANGED <<permissionCache, exposed, roles, permissions>>
<1>1. call' \in [Call -> CallState]  BY CallUpdateType DEF Written, TypeOK
<1>2. changes' \in 0 .. MaxChanges  BY ConstantsAssumption DEF Written, TypeOK
<1>3. overtaken' \subseteq Call  BY DEF Written, TypeOK
<1>. QED  BY <1>1, <1>2, <1>3 DEF Written

LEMMA ChangeType ==
  ASSUME TypeOK, NEW c \in Call, Change(c)
  PROVE  TypeOK'
<1>1. ASSUME NEW u \in User, NEW r \in Role, NEW row \in Row, SetUserRole(c, u, r, row)
      PROVE  TypeOK'
  <2>1. [at |-> "userChanged", user |-> u] \in CallState  BY DEF CallState
  <2>2. userRoles' \in [User -> [Role -> Row]]  BY <1>1 DEF SetUserRole, TypeOK
  <2>. QED  BY <1>1, <2>1, <2>2, WrittenType DEF SetUserRole, TypeOK
<1>2. ASSUME NEW u \in User, NEW p \in Perm, NEW row \in Row, SetUserPermission(c, u, p, row)
      PROVE  TypeOK'
  <2>1. [at |-> "userChanged", user |-> u] \in CallState  BY DEF CallState
  <2>2. userPermissions' \in [User -> [Perm -> Row]]  BY <1>2 DEF SetUserPermission, TypeOK
  <2>. QED  BY <1>2, <2>1, <2>2, WrittenType DEF SetUserPermission, TypeOK
<1>3. ASSUME NEW r \in Role, NEW p \in Perm, NEW rows \in SUBSET (Role \X Perm),
             SetRolePermissions(c, r, p, rows)
      PROVE  TypeOK'
  <2>1. [at |-> "roleChanged", role |-> r] \in CallState  BY DEF CallState
  <2>. QED  BY <1>3, <2>1, WrittenType DEF SetRolePermissions, TypeOK
<1>4. {"absent", "permanent", "dated"} \subseteq Row  BY DEF Row
<1>5. ASSUME NEW r \in Role, NEW p \in Perm
      PROVE  /\ rolePermissions \cup {<<r, p>>} \in SUBSET (Role \X Perm)
             /\ rolePermissions \ {<<r, p>>} \in SUBSET (Role \X Perm)
  BY DEF TypeOK
<1>. QED  BY <1>1, <1>2, <1>3, <1>4, <1>5
          DEF Change, assignRoleToUser, removeRoleFromUser, assignPermissionToUser,
              removePermissionFromUser, assignPermissionToRole, removePermissionFromRole

LEMMA QueryTypes ==
  ASSUME NEW u
  PROVE  /\ HeldRoles(u) \subseteq Role
         /\ ViaRoles(u) \subseteq Perm
         /\ Direct(u) \subseteq Perm
         /\ Granted(u) \subseteq Perm
BY DEF HeldRoles, ViaRoles, Direct, Granted

(* What the state of a call in progress carries.                            *)
LEMMA CallFields ==
  ASSUME NEW s \in CallState
  PROVE  /\ s.at \in {"rolesMiss", "rolesRead", "permsMiss", "viaRolesRead",
                      "permsRead", "userChanged"} => s.user \in User
         /\ s.at = "rolesRead" => s.roles \in SUBSET Role
         /\ s.at \in {"viaRolesRead", "permsRead"} => s.permissions \in SUBSET Perm
         /\ s.at = "roleChanged" => s.role \in Role
         /\ s.at = "holdersRead" => s.users \in SUBSET User
BY DEF CallState

LEMMA ResumeType ==
  ASSUME TypeOK, NEW c \in Call, Resume(c)
  PROVE  TypeOK'
<1>. call[c] \in CallState  BY DEF TypeOK
<1>. USE QueryTypes, CallFields
<1>1. CASE InvalidateUser(c)
  BY <1>1, InvalidateType, FinishType DEF InvalidateUser, tables, TypeOK
<1>2. CASE ReadHolders(c)
  <2>1. [at |-> "holdersRead", users |-> Holders(call[c].role)] \in CallState
    BY DEF CallState, Holders
  <2>. QED  BY <1>2, <2>1, CallUpdateType DEF ReadHolders, tables, TypeOK
<1>3. CASE ReadHoldersFails(c)
  BY <1>3, FinishType DEF ReadHoldersFails, Holders, tables, TypeOK
<1>4. CASE InvalidateHolders(c)
  BY <1>4, InvalidateType, FinishType DEF InvalidateHolders, tables, TypeOK
<1>5. CASE ReadRoles(c)
  <2>1. [at |-> "rolesRead", user |-> call[c].user, roles |-> HeldRoles(call[c].user)]
          \in CallState
    BY <1>5 DEF ReadRoles, CallState
  <2>. QED  BY <1>5, <2>1, CallUpdateType DEF ReadRoles, tables, TypeOK
<1>6. CASE ReadViaRoles(c)
  <2>1. [at |-> "viaRolesRead", user |-> call[c].user,
         permissions |-> ViaRoles(call[c].user)] \in CallState
    BY <1>6 DEF ReadViaRoles, CallState
  <2>. QED  BY <1>6, <2>1, CallUpdateType DEF ReadViaRoles, tables, TypeOK
<1>7. CASE ReadDirect(c)
  <2>1. [at |-> "permsRead", user |-> call[c].user,
         permissions |-> call[c].permissions \cup Direct(call[c].user)] \in CallState
    BY <1>7 DEF ReadDirect, CallState
  <2>. QED  BY <1>7, <2>1, CallUpdateType DEF ReadDirect, tables, TypeOK
<1>8. CASE FillRoles(c)
  <2>0. call[c].user \in User /\ call[c].roles \in SUBSET Role /\ {} \in SUBSET Perm
    BY <1>8 DEF FillRoles
  <2>1. permissionCache' \in [User -> Entry]
    BY <1>8, <2>0, CacheUpdateType DEF FillRoles
  <2>2. exposed' \subseteq User  BY <1>8 DEF FillRoles, ExposeIfOvertaken, TypeOK
  <2>. QED  BY <1>8, <2>1, <2>2, FinishType DEF FillRoles, tables, TypeOK
<1>9. CASE FillPermissions(c)
  <2>0. call[c].user \in User /\ call[c].permissions \in SUBSET Perm /\ {} \in SUBSET Role
    BY <1>9 DEF FillPermissions
  <2>1. permissionCache' \in [User -> Entry]
    BY <1>9, <2>0, CacheUpdateType DEF FillPermissions
  <2>2. exposed' \subseteq User  BY <1>9 DEF FillPermissions, ExposeIfOvertaken, TypeOK
  <2>. QED  BY <1>9, <2>1, <2>2, FinishType DEF FillPermissions, tables, TypeOK
<1>10. CASE ReadFails(c)
  BY <1>10, FinishType DEF ReadFails, tables, TypeOK
<1>11. CASE AnswerLost(c)
  <2>1. exposed' \subseteq User  BY <1>11 DEF AnswerLost, Holders, TypeOK
  <2>. QED  BY <1>11, <2>1, FinishType DEF AnswerLost, tables, TypeOK
<1>. QED  BY <1>1, <1>2, <1>3, <1>4, <1>5, <1>6, <1>7, <1>8, <1>9, <1>10, <1>11
          DEF Resume

(* Every reachable state is well typed: what the tables, the cache entries  *)
(* and the suspended handlers can contain.                                  *)
THEOREM TypeCorrect == Spec => []TypeOK
<1>1. Init => TypeOK
  BY ConstantsAssumption, NoEntryType DEF Init, TypeOK, Row, CallState, Idle
<1>2. TypeOK /\ [Next]_vars => TypeOK'
  <2>. SUFFICES ASSUME TypeOK, [Next]_vars PROVE TypeOK'
    OBVIOUS
  <2>1. ASSUME NEW r \in Role, createRole(r) PROVE TypeOK'
    BY <2>1 DEF createRole, TypeOK
  <2>2. ASSUME NEW p \in Perm, createPermission(p) PROVE TypeOK'
    BY <2>2 DEF createPermission, TypeOK
  <2>3. ASSUME NEW c \in Call, NEW u \in User, getUserRoles(c, u) PROVE TypeOK'
    <3>1. [at |-> "rolesMiss", user |-> u] \in CallState  BY DEF CallState
    <3>. QED  BY <2>3, <3>1, CallUpdateType DEF getUserRoles, Miss, tables, TypeOK
  <2>4. ASSUME NEW c \in Call, NEW u \in User, getUserPermissions(c, u) PROVE TypeOK'
    <3>1. [at |-> "permsMiss", user |-> u] \in CallState  BY DEF CallState
    <3>. QED  BY <2>4, <3>1, CallUpdateType DEF getUserPermissions, Miss, tables, TypeOK
  <2>5. CASE Tick
    <3>1. \A e \in Entry : [e EXCEPT !.left = IF @ > 0 THEN @ - 1 ELSE 0] \in Entry
      BY ConstantsAssumption DEF Entry
    <3>. QED  BY <2>5, <3>1 DEF Tick, tables, TypeOK
  <2>6. ASSUME NEW u \in User, NEW r \in Role, LapseRole(u, r) PROVE TypeOK'
    BY <2>6 DEF LapseRole, TypeOK, Row
  <2>7. ASSUME NEW u \in User, NEW p \in Perm, LapsePermission(u, p) PROVE TypeOK'
    BY <2>7 DEF LapsePermission, TypeOK, Row
  <2>8. CASE Restart
    BY <2>8, NoEntryType DEF Restart, tables, TypeOK, CallState, Idle
  <2>9. CASE UNCHANGED vars
    BY <2>9 DEF vars, tables, TypeOK
  <2>. QED  BY <2>1, <2>2, <2>3, <2>4, <2>5, <2>6, <2>7, <2>8, <2>9,
               ChangeType, ResumeType DEF Next
<1>. QED  BY <1>1, <1>2, PTL DEF Spec

-----------------------------------------------------------------------------
(* The invalidation protocol.  Neither ReadsExact nor CacheCoherent is      *)
(* inductive alone: what a fill puts into the cache is exact because what   *)
(* it read is, and a read stays exact because every write marks the reads   *)
(* it overtakes.                                                            *)
Coherence == ReadsExact /\ CacheCoherent

(* The rows that the queries about a user depend on.                        *)
SameRows(v) ==
  /\ HeldRoles(v)' = HeldRoles(v)
  /\ ViaRoles(v)' = ViaRoles(v)
  /\ Direct(v)' = Direct(v)
  /\ \A r \in Role : (v \in Holders(r))' <=> v \in Holders(r)

LEMMA SameTables ==
  ASSUME UNCHANGED <<userRoles, userPermissions, rolePermissions>>, NEW v
  PROVE  SameRows(v)
BY DEF SameRows, HeldRoles, ViaRoles, Direct, Holders

(* A write for the users in us keeps the invariant if it leaves the rows of *)
(* all others alone and the writer is about to invalidate us.               *)
LEMMA WriteCoherent ==
  ASSUME TypeOK, Coherence, NEW c \in Call, NEW s \in CallState, NEW us,
         s.at \in {"userChanged", "roleChanged"},
         Written(c, s, us),
         \A v \in User : SameRows(v) \/ v \in us,
         \A v \in us : PendingBy(c, v)'
  PROVE  Coherence'
<1>1. call'[c] = s /\ \A d \in Call \ {c} : call'[d] = call[d]
  BY DEF Written, TypeOK
<1>2. ASSUME NEW d \in Call, d \notin overtaken'
      PROVE  ReadExact(d)'
  <2>1. CASE d = c
    BY <2>1, <1>1 DEF ReadExact
  <2>2. CASE d # c /\ ~HasRead(d)
    BY <2>2, <1>1 DEF ReadExact, HasRead
  <2>3. CASE d # c /\ HasRead(d)
    <3>1. d \notin overtaken /\ call[d].user \notin us
      BY <1>2, <2>3 DEF Written
    <3>2. call[d].user \in User
      BY <2>3, CallFields DEF HasRead, TypeOK
    <3>3. SameRows(call[d].user)  BY <3>1, <3>2
    <3>4. ReadExact(d)  BY <3>1 DEF Coherence, ReadsExact
    <3>. QED  BY <3>3, <3>4, <2>3, <1>1 DEF ReadExact, SameRows, Granted
  <2>. QED  BY <2>1, <2>2, <2>3
<1>3. ASSUME NEW v \in User
      PROVE  (Pending(v) \/ v \in exposed \/ EntryExact(v))'
  <2>1. CASE v \in us
    BY <2>1 DEF Pending
  <2>2. CASE v \notin us
    <3>1. SameRows(v)  BY <2>2
    <3>2. CASE Pending(v)
      <4>1. PICK d \in Call : PendingBy(d, v)  BY <3>2 DEF Pending
      <4>2. d # c  BY <4>1 DEF PendingBy, Written
      <4>3. call[d] \in CallState  BY DEF TypeOK
      <4>4. PendingBy(d, v)'
        BY <4>1, <4>2, <4>3, <3>1, <1>1, CallFields DEF PendingBy, SameRows
      <4>. QED  BY <4>4 DEF Pending
    <3>3. CASE v \in exposed
      BY <3>3 DEF Written
    <3>4. CASE EntryExact(v)
      BY <3>4, <3>1 DEF EntryExact, SameRows, Granted, Written
    <3>. QED  BY <3>2, <3>3, <3>4 DEF Coherence, CacheCoherent
  <2>. QED  BY <2>1, <2>2
<1>. QED  BY <1>2, <1>3 DEF Coherence, ReadsExact, CacheCoherent

LEMMA ChangeCoherent ==
  ASSUME TypeOK, Coherence, NEW c \in Call, Change(c)
  PROVE  Coherence'
<1>1. ASSUME NEW u \in User, NEW r \in Role, NEW row, SetUserRole(c, u, r, row)
      PROVE  Coherence'
  <2>. DEFINE s == [at |-> "userChanged", user |-> u]
  <2>1. s \in CallState /\ s.at = "userChanged"  BY DEF CallState
  <2>2. Written(c, s, {u})  BY <1>1 DEF SetUserRole
  <2>3. \A v \in User : SameRows(v) \/ v \in {u}
    BY <1>1 DEF SetUserRole, SameRows, HeldRoles, ViaRoles, Direct, Holders, TypeOK
  <2>4. \A v \in {u} : PendingBy(c, v)'
    BY <2>2 DEF Written, PendingBy, TypeOK
  <2>. QED  BY <2>1, <2>2, <2>3, <2>4, WriteCoherent
<1>2. ASSUME NEW u \in User, NEW p \in Perm, NEW row, SetUserPermission(c, u, p, row)
      PROVE  Coherence'
  <2>. DEFINE s == [at |-> "userChanged", user |-> u]
  <2>1. s \in CallState /\ s.at = "userChanged"  BY DEF CallState
  <2>2. Written(c, s, {u})  BY <1>2 DEF SetUserPermission
  <2>3. \A v \in User : SameRows(v) \/ v \in {u}
    BY <1>2 DEF SetUserPermission, SameRows, HeldRoles, ViaRoles, Direct, Holders, TypeOK
  <2>4. \A v \in {u} : PendingBy(c, v)'
    BY <2>2 DEF Written, PendingBy, TypeOK
  <2>. QED  BY <2>1, <2>2, <2>3, <2>4, WriteCoherent
<1>3. ASSUME NEW r \in Role, NEW p \in Perm, NEW rows,
             rows \in {rolePermissions \cup {<<r, p>>}, rolePermissions \ {<<r, p>>}},
             SetRolePermissions(c, r, p, rows)
      PROVE  Coherence'
  <2>. DEFINE s == [at |-> "roleChanged", role |-> r]
  <2>1. s \in CallState /\ s.at = "roleChanged"  BY DEF CallState
  <2>2. Written(c, s, Holders(r))  BY <1>3 DEF SetRolePermissions
  <2>3. \A v \in User : SameRows(v) \/ v \in Holders(r)
    <3>. SUFFICES ASSUME NEW v \in User, v \notin Holders(r)
                  PROVE  SameRows(v)
      OBVIOUS
    <3>1. UNCHANGED <<userRoles, userPermissions>>  BY <1>3 DEF SetRolePermissions
    <3>2. r \notin HeldRoles(v)  BY DEF HeldRoles, Holders
    <3>3. \A q \in HeldRoles(v), x \in Perm :
            <<q, x>> \in rolePermissions' <=> <<q, x>> \in rolePermissions
      BY <1>3, <3>2 DEF SetRolePermissions
    <3>. QED  BY <3>1, <3>3 DEF SameRows, HeldRoles, ViaRoles, Direct, Holders
  <2>4. \A v \in Holders(r) : PendingBy(c, v)'
    <3>1. Holders(r)' = Holders(r)  BY <1>3 DEF SetRolePermissions, Holders
    <3>2. call'[c] = s  BY <2>2 DEF Written, TypeOK
    <3>. QED  BY <3>1, <3>2 DEF PendingBy
  <2>. QED  BY <2>1, <2>2, <2>3, <2>4, WriteCoherent
<1>. QED  BY <1>1, <1>2, <1>3
          DEF Change, assignRoleToUser, removeRoleFromUser, assignPermissionToUser,
              removePermissionFromUser, assignPermissionToRole, removePermissionFromRole

(* A step of one call that leaves the tables alone and does not end in a    *)
(* state that has read something keeps the other reads exact.               *)
LEMMA OtherReadsExact ==
  ASSUME TypeOK, Coherence, NEW c \in Call,
         UNCHANGED <<userRoles, userPermissions, rolePermissions>>,
         \A d \in Call \ {c} : call'[d] = call[d],
         \A d \in Call \ {c} : d \in overtaken => d \in overtaken',
         c \notin overtaken' => ReadExact(c)'
  PROVE  ReadsExact'
<1>. SUFFICES ASSUME NEW d \in Call, d \notin overtaken'
              PROVE  ReadExact(d)'
  BY DEF ReadsExact
<1>1. CASE d = c
  BY <1>1
<1>2. CASE d # c
  <2>1. ReadExact(d)  BY <1>2 DEF Coherence, ReadsExact
  <2>2. SameRows(call[d].user)  BY SameTables
  <2>. QED  BY <1>2, <2>1, <2>2 DEF ReadExact, SameRows, Granted
<1>. QED  BY <1>1, <1>2

(* The same for the cache of one user: a step of call c that neither        *)
(* touches the entry of v nor was v's only pending invalidation.            *)
LEMMA EntryCoherent ==
  ASSUME TypeOK, Coherence, NEW c \in Call, NEW v \in User,
         UNCHANGED <<userRoles, userPermissions, rolePermissions>>,
         \A d \in Call \ {c} : call'[d] = call[d],
         PendingBy(c, v) => PendingBy(c, v)',
         permissionCache'[v] = permissionCache[v],
         v \in exposed => v \in exposed'
  PROVE  (Pending(v) \/ v \in exposed \/ EntryExact(v))'
<1>1. SameRows(v)  BY SameTables
<1>2. CASE Pending(v)
  <2>1. PICK d \in Call : PendingBy(d, v)  BY <1>2 DEF Pending
  <2>2. PendingBy(d, v)'  BY <2>1 DEF PendingBy, Holders
  <2>. QED  BY <2>2 DEF Pending
<1>3. CASE EntryExact(v)
  BY <1>3, <1>1 DEF EntryExact, SameRows, Granted
<1>. QED  BY <1>2, <1>3 DEF Coherence, CacheCoherent

LEMMA InvalidationCoherent ==
  ASSUME TypeOK, Coherence, NEW c \in Call, NEW us,
         UNCHANGED <<userRoles, userPermissions, rolePermissions>>,
         Finish(c), invalidateCache(us),
         \A v \in User : PendingBy(c, v) => v \in us
  PROVE  Coherence'
<1>1. \A d \in Call \ {c} : call'[d] = call[d]  BY DEF Finish, TypeOK
<1>2. ReadsExact'
  BY <1>1, OtherReadsExact DEF Finish, ReadExact, Idle, TypeOK
<1>3. ASSUME NEW v \in User
      PROVE  (Pending(v) \/ v \in exposed \/ EntryExact(v))'
  <2>1. CASE v \in us
    BY <2>1 DEF invalidateCache, EntryExact, NoEntry
  <2>2. CASE v \notin us
    BY <2>2, <1>1, EntryCoherent DEF invalidateCache
  <2>. QED  BY <2>1, <2>2
<1>. QED  BY <1>2, <1>3 DEF Coherence, CacheCoherent

(* A fill with what the tables hold, or by an overtaken read.               *)
LEMMA FillCoherent ==
  ASSUME TypeOK, Coherence, NEW c \in Call, NEW u \in User, call[c].user = u,
         call[c].at \in {"rolesRead", "permsRead"},
         NEW rs \in SUBSET Role, NEW ps \in SUBSET Perm,
         c \notin overtaken => rs \in {{}, HeldRoles(u)} /\ ps \in {{}, Granted(u)},
         UNCHANGED <<userRoles, userPermissions, rolePermissions>>,
         updateCache(u, rs, ps), ExposeIfOvertaken(c), Finish(c)
  PROVE  Coherence'
<1>1. \A d \in Call \ {c} : call'[d] = call[d]  BY DEF Finish, TypeOK
<1>2. ReadsExact'
  BY <1>1, OtherReadsExact DEF Finish, ReadExact, Idle, TypeOK
<1>3. ASSUME NEW v \in User
      PROVE  (Pending(v) \/ v \in exposed \/ EntryExact(v))'
  <2>1. CASE v # u
    BY <2>1, <1>1, EntryCoherent DEF updateCache, ExposeIfOvertaken, PendingBy, TypeOK
  <2>2. CASE v = u /\ c \in overtaken
    BY <2>2 DEF ExposeIfOvertaken
  <2>3. CASE v = u /\ c \notin overtaken
    <3>1. CASE Pending(u)
      <4>1. PICK d \in Call : PendingBy(d, u)  BY <3>1 DEF Pending
      <4>2. d # c  BY <4>1 DEF PendingBy
      <4>3. PendingBy(d, u)'  BY <4>1, <4>2, <1>1 DEF PendingBy, Holders
      <4>. QED  BY <4>3, <2>3 DEF Pending
    <3>2. CASE u \in exposed
      BY <3>2, <2>3 DEF ExposeIfOvertaken
    <3>3. CASE EntryExact(u)
      <4>1. SameRows(u)  BY SameTables
      <4>2. permissionCache'[u].roles \in {permissionCache[u].roles, rs} \ {{}}
              \/ permissionCache'[u].roles = {}
        BY DEF updateCache, Updated, TypeOK
      <4>3. permissionCache'[u].roles \in {{}, HeldRoles(u)}
        BY <4>2, <3>3, <2>3 DEF EntryExact
      <4>4. permissionCache'[u].permissions \in {{}, Granted(u)}
        BY <3>3, <2>3 DEF EntryExact, updateCache, Updated, TypeOK
      <4>. QED  BY <4>1, <4>3, <4>4, <2>3 DEF EntryExact, SameRows, Granted
    <3>. QED  BY <3>1, <3>2, <3>3, <2>3 DEF Coherence, CacheCoherent
  <2>. QED  BY <2>1, <2>2, <2>3
<1>. QED  BY <1>2, <1>3 DEF Coherence, CacheCoherent

LEMMA ResumeCoherent ==
  ASSUME TypeOK, Coherence, NEW c \in Call, Resume(c)
  PROVE  Coherence'
<1>. call[c] \in CallState  BY DEF TypeOK
<1>. UNCHANGED <<userRoles, userPermissions, rolePermissions>>
  BY DEF Resume, InvalidateUser, AnswerLost, ReadHolders, ReadHoldersFails, InvalidateHolders,
         ReadRoles, ReadViaRoles, ReadDirect, FillRoles, FillPermissions, ReadFails, tables
<1>1. CASE InvalidateUser(c)
  BY <1>1, InvalidationCoherent DEF InvalidateUser, PendingBy
<1>2. CASE InvalidateHolders(c)
  BY <1>2, InvalidationCoherent DEF InvalidateHolders, PendingBy
<1>3. CASE FillRoles(c)
  <2>1. call[c].user \in User /\ call[c].roles \in SUBSET Role /\ {} \in SUBSET Perm
    BY <1>3, CallFields DEF FillRoles
  <2>2. c \notin overtaken => call[c].roles = HeldRoles(call[c].user)
    BY <1>3 DEF FillRoles, Coherence, ReadsExact, ReadExact
  <2>. QED  BY <1>3, <2>1, <2>2, FillCoherent DEF FillRoles
<1>4. CASE FillPermissions(c)
  <2>1. call[c].user \in User /\ call[c].permissions \in SUBSET Perm /\ {} \in SUBSET Role
    BY <1>4, CallFields DEF FillPermissions
  <2>2. c \notin overtaken => call[c].permissions = Granted(call[c].user)
    BY <1>4 DEF FillPermissions, Coherence, ReadsExact, ReadExact
  <2>. QED  BY <1>4, <2>1, <2>2, FillCoherent DEF FillPermissions
<1>5. CASE AnswerLost(c) \/ ReadHoldersFails(c)
  <2>1. \A d \in Call \ {c} : call'[d] = call[d]
    BY <1>5 DEF AnswerLost, ReadHoldersFails, Finish, TypeOK
  <2>2. ReadsExact'
    BY <1>5, <2>1, OtherReadsExact
    DEF AnswerLost, ReadHoldersFails, Finish, ReadExact, Idle, TypeOK
  <2>3. ASSUME NEW v \in User
        PROVE  (Pending(v) \/ v \in exposed \/ EntryExact(v))'
    <3>1. CASE PendingBy(c, v)
      BY <1>5, <3>1 DEF AnswerLost, ReadHoldersFails, PendingBy
    <3>2. CASE ~PendingBy(c, v)
      BY <1>5, <2>1, <3>2, EntryCoherent DEF AnswerLost, ReadHoldersFails
    <3>. QED  BY <3>1, <3>2
  <2>. QED  BY <2>2, <2>3 DEF Coherence, CacheCoherent
<1>6. CASE ReadHolders(c) \/ ReadRoles(c) \/ ReadViaRoles(c) \/ ReadDirect(c) \/ ReadFails(c)
  <2>1. \A d \in Call \ {c} : call'[d] = call[d]
    BY <1>6 DEF ReadHolders, ReadRoles, ReadViaRoles, ReadDirect, ReadFails, Finish, TypeOK
  <2>2. c \notin overtaken' => ReadExact(c)'
    <3>1. CASE ReadHolders(c) \/ ReadFails(c)
      BY <3>1 DEF ReadHolders, ReadFails, Finish, ReadExact, Idle, TypeOK
    <3>2. CASE ReadRoles(c)
      BY <3>2 DEF ReadRoles, ReadExact, HeldRoles, TypeOK
    <3>3. CASE ReadViaRoles(c)
      BY <3>3 DEF ReadViaRoles, ReadExact, ViaRoles, HeldRoles, TypeOK
    <3>4. CASE ReadDirect(c)
      <4>1. c \notin overtaken => call[c].permissions = ViaRoles(call[c].user)
        BY <3>4 DEF ReadDirect, Coherence, ReadsExact, ReadExact
      <4>2. SameRows(call[c].user)  BY SameTables
      <4>3. call'[c] = [at |-> "permsRead", user |-> call[c].user,
                        permissions |-> call[c].permissions \cup Direct(call[c].user)]
            /\ overtaken' = overtaken
        BY <3>4 DEF ReadDirect, TypeOK
      <4>. QED  BY <4>1, <4>2, <4>3 DEF ReadExact, Granted, SameRows
    <3>. QED  BY <1>6, <3>1, <3>2, <3>3, <3>4
  <2>3. ReadsExact'
    BY <1>6, <2>1, <2>2, OtherReadsExact
    DEF ReadHolders, ReadRoles, ReadViaRoles, ReadDirect, ReadFails, Finish
  <2>4. ASSUME NEW v \in User
        PROVE  (Pending(v) \/ v \in exposed \/ EntryExact(v))'
    <3>1. PendingBy(c, v) => PendingBy(c, v)'
      BY <1>6 DEF ReadHolders, ReadRoles, ReadViaRoles, ReadDirect, ReadFails, PendingBy, TypeOK
    <3>. QED  BY <1>6, <2>1, <3>1, EntryCoherent
              DEF ReadHolders, ReadRoles, ReadViaRoles, ReadDirect, ReadFails
  <2>. QED  BY <2>3, <2>4 DEF Coherence, CacheCoherent
<1>. QED  BY <1>1, <1>2, <1>3, <1>4, <1>5, <1>6 DEF Resume

(* A step that leaves the calls, the tables, the ghosts and both halves of  *)
(* every entry alone.                                                       *)
LEMMA QuietCoherent ==
  ASSUME Coherence,
         UNCHANGED <<userRoles, userPermissions, rolePermissions, call, overtaken, exposed>>,
         \A u \in User : /\ permissionCache'[u].roles = permissionCache[u].roles
                         /\ permissionCache'[u].permissions = permissionCache[u].permissions
  PROVE  Coherence'
BY DEF Coherence, ReadsExact, ReadExact, CacheCoherent, Pending, PendingBy, EntryExact,
       HeldRoles, ViaRoles, Direct, Granted, Holders

(* A row that lapses stays in the answer of every query.                    *)
LEMMA LapseCoherent ==
  ASSUME TypeOK, Coherence,
         \/ \E u \in User, r \in Role : LapseRole(u, r)
         \/ \E u \in User, p \in Perm : LapsePermission(u, p)
  PROVE  Coherence'
<1>1. UNCHANGED <<rolePermissions, permissionCache, call, overtaken, exposed>>
  BY DEF LapseRole, LapsePermission
<1>2. ASSUME NEW v \in User PROVE SameRows(v)
  <2>1. \A q \in Role : userRoles'[v][q] # "absent" <=> userRoles[v][q] # "absent"
    BY DEF LapseRole, LapsePermission, TypeOK
  <2>2. \A q \in Perm : userPermissions'[v][q] # "absent" <=> userPermissions[v][q] # "absent"
    BY DEF LapseRole, LapsePermission, TypeOK
  <2>3. HeldRoles(v)' = HeldRoles(v) /\ Direct(v)' = Direct(v)
    BY <2>1, <2>2 DEF HeldRoles, Direct
  <2>4. ViaRoles(v)' = ViaRoles(v)
    BY <1>1, <2>3 DEF ViaRoles
  <2>5. \A r \in Role : (v \in Holders(r))' <=> v \in Holders(r)
    BY <2>1 DEF Holders
  <2>. QED  BY <2>3, <2>4, <2>5 DEF SameRows
<1>3. ReadsExact'
  <2>. SUFFICES ASSUME NEW d \in Call, d \notin overtaken
                PROVE  ReadExact(d)'
    BY <1>1 DEF ReadsExact
  <2>1. ReadExact(d)  BY DEF Coherence, ReadsExact
  <2>2. HasRead(d) => SameRows(call[d].user)
    BY <1>2, CallFields DEF HasRead, TypeOK
  <2>. QED  BY <1>1, <2>1, <2>2 DEF ReadExact, HasRead, SameRows, Granted
<1>4. ASSUME NEW v \in User
      PROVE  (Pending(v) \/ v \in exposed \/ EntryExact(v))'
  <2>1. SameRows(v)  BY <1>2
  <2>2. CASE Pending(v)
    <3>1. PICK d \in Call : PendingBy(d, v)  BY <2>2 DEF Pending
    <3>2. call[d] \in CallState  BY DEF TypeOK
    <3>3. PendingBy(d, v)'  BY <1>1, <2>1, <3>1, <3>2, CallFields DEF PendingBy, SameRows
    <3>. QED  BY <3>3 DEF Pending
  <2>3. CASE v \in exposed
    BY <2>3, <1>1
  <2>4. CASE EntryExact(v)
    BY <2>4, <2>1, <1>1 DEF EntryExact, SameRows, Granted
  <2>. QED  BY <2>2, <2>3, <2>4 DEF Coherence, CacheCoherent
<1>. QED  BY <1>3, <1>4 DEF Coherence, ReadsExact, CacheCoherent

LEMMA CoherenceInvariant == Spec => []Coherence
<1>1. Init => Coherence
  BY DEF Init, Coherence, ReadsExact, ReadExact, CacheCoherent, EntryExact, NoEntry, Idle
<1>2. TypeOK /\ Coherence /\ [Next]_vars => Coherence'
  <2>. SUFFICES ASSUME TypeOK, Coherence, [Next]_vars PROVE Coherence'
    OBVIOUS
  <2>1. CASE \/ \E r \in Role : createRole(r)
             \/ \E p \in Perm : createPermission(p)
             \/ UNCHANGED vars
    BY <2>1, QuietCoherent DEF createRole, createPermission, vars, tables
  <2>2. ASSUME NEW c \in Call, NEW u \in User, NEW at \in {"rolesMiss", "permsMiss"},
               Miss(c, u, at)
        PROVE  Coherence'
    <3>1. \A d \in Call \ {c} : call'[d] = call[d]  BY <2>2 DEF Miss, TypeOK
    <3>2. UNCHANGED <<userRoles, userPermissions, rolePermissions, permissionCache,
                      overtaken, exposed>>
      BY <2>2 DEF Miss, tables
    <3>3. ReadsExact'
      BY <2>2, <3>1, <3>2, OtherReadsExact DEF Miss, ReadExact, TypeOK
    <3>4. \A v \in User : (Pending(v) \/ v \in exposed \/ EntryExact(v))'
      BY <2>2, <3>1, <3>2, EntryCoherent DEF Miss, PendingBy
    <3>. QED  BY <3>3, <3>4 DEF Coherence, CacheCoherent
  <2>3. CASE Tick
    BY <2>3, QuietCoherent DEF Tick, tables, TypeOK, Entry
  <2>4. CASE Restart
    BY <2>4 DEF Restart, Coherence, ReadsExact, ReadExact, CacheCoherent, EntryExact,
                NoEntry, Idle
  <2>. QED  BY <2>1, <2>2, <2>3, <2>4, ChangeCoherent, ResumeCoherent, LapseCoherent
            DEF Next, getUserRoles, getUserPermissions
<1>. QED  BY <1>1, <1>2, TypeCorrect, PTL DEF Spec

(* A read that no write has overtaken holds exactly what the tables hold,   *)
(* however its queries interleave with the handlers of other requests.      *)
THEOREM ReadsAreExact == Spec => []ReadsExact
BY CoherenceInvariant, PTL DEF Coherence

(* invalidateCache after every change keeps each user's entry coherent with *)
(* the tables, but for the three holes that CacheCoherent names.            *)
THEOREM CacheIsCoherent == Spec => []CacheCoherent
BY CoherenceInvariant, PTL DEF Coherence

(* updateCache creates no live entry without content.                       *)
THEOREM NoEmptinessIsCached == Spec => []NoCachedEmptiness
<1>1. Init => NoCachedEmptiness
  BY DEF Init, NoCachedEmptiness, Live, NoEntry
<1>2. TypeOK /\ NoCachedEmptiness /\ [Next]_vars => NoCachedEmptiness'
  <2>. SUFFICES ASSUME TypeOK, NoCachedEmptiness, [Next]_vars,
                       NEW u \in User, Live(u)'
                PROVE  permissionCache'[u].roles # {} \/ permissionCache'[u].permissions # {}
    BY DEF NoCachedEmptiness
  <2>1. CASE permissionCache' = permissionCache
    BY <2>1 DEF NoCachedEmptiness, Live
  <2>2. ASSUME NEW us, invalidateCache(us)
        PROVE  permissionCache'[u].roles # {} \/ permissionCache'[u].permissions # {}
    BY <2>2 DEF invalidateCache, NoEntry, NoCachedEmptiness, Live
  <2>3. ASSUME NEW v \in User, NEW rs, NEW ps, updateCache(v, rs, ps)
        PROVE  permissionCache'[u].roles # {} \/ permissionCache'[u].permissions # {}
    <3>1. CASE rs = {} /\ ps = {}
      BY <3>1, <2>1, <2>3 DEF updateCache
    <3>2. CASE ~(rs = {} /\ ps = {}) /\ v # u
      BY <3>2, <2>3 DEF updateCache, NoCachedEmptiness, Live, TypeOK
    <3>3. CASE ~(rs = {} /\ ps = {}) /\ v = u
      BY <3>3, <2>3 DEF updateCache, Updated, TypeOK
    <3>. QED  BY <3>1, <3>2, <3>3
  <2>4. CASE Tick
    <3>1. /\ permissionCache'[u].roles = permissionCache[u].roles
          /\ permissionCache'[u].permissions = permissionCache[u].permissions
          /\ permissionCache'[u].left = IF permissionCache[u].left > 0
                                        THEN permissionCache[u].left - 1 ELSE 0
      BY <2>4 DEF Tick, TypeOK, Entry
    <3>. QED  BY <3>1 DEF Live, NoCachedEmptiness
  <2>5. CASE Restart
    BY <2>5 DEF Restart, NoEntry, Live
  <2>6. ASSUME NEW c \in Call, Resume(c)
        PROVE  permissionCache'[u].roles # {} \/ permissionCache'[u].permissions # {}
    <3>1. call[c] \in CallState  BY DEF TypeOK
    <3>2. CASE FillRoles(c) \/ FillPermissions(c)
      <4>1. call[c].user \in User
        BY <3>1, <3>2, CallFields DEF FillRoles, FillPermissions
      <4>. QED  BY <3>2, <4>1, <2>3 DEF FillRoles, FillPermissions
    <3>3. CASE InvalidateUser(c) \/ InvalidateHolders(c)
      BY <3>3, <2>2 DEF InvalidateUser, InvalidateHolders
    <3>4. CASE permissionCache' = permissionCache
      BY <3>4, <2>1
    <3>. QED  BY <2>6, <3>2, <3>3, <3>4
              DEF Resume, AnswerLost, ReadHolders, ReadHoldersFails, ReadRoles,
                  ReadViaRoles, ReadDirect, ReadFails
  <2>7. ASSUME NEW c \in Call, Change(c)
        PROVE  permissionCache' = permissionCache
    BY <2>7 DEF Change, assignRoleToUser, removeRoleFromUser, assignPermissionToUser,
           removePermissionFromUser, assignPermissionToRole, removePermissionFromRole,
           SetUserRole, SetUserPermission, SetRolePermissions, Written
  <2>. QED  BY <2>1, <2>4, <2>5, <2>6, <2>7
            DEF Next, vars, createRole, createPermission, getUserRoles, getUserPermissions,
                Miss, LapseRole, LapsePermission
<1>. QED  BY <1>1, <1>2, TypeCorrect, PTL DEF Spec

(* Each half of a live, coherent entry is empty or what the tables hold,    *)
(* and they are not both empty: so no guard lets through too much, and one  *)
(* kind of guard lets through all that is granted.                          *)
THEOREM GuardsAreSound == Spec => []GuardsFollowTables
<1>1. CacheCoherent /\ NoCachedEmptiness => GuardsFollowTables
  <2>. SUFFICES ASSUME CacheCoherent, NoCachedEmptiness, NEW u \in User, Live(u),
                       ~(Pending(u) \/ u \in exposed)
                PROVE
         /\ \A r, admin \in Role :
              requireRole(permissionCache[u].roles, permissionCache[u].roles, r, admin) =>
                requireRole(HeldRoles(u), HeldRoles(u), r, admin)
         /\ \A p \in Perm : requirePermission(permissionCache[u].permissions, p) =>
              requirePermission(Granted(u), p)
         /\ \/ /\ permissionCache[u].roles # {}
               /\ \A r \in HeldRoles(u) : userHasRole(permissionCache[u].roles, r)
            \/ /\ permissionCache[u].permissions # {}
               /\ \A p \in Granted(u) : userHasPermission(permissionCache[u].permissions, p)
    BY DEF GuardsFollowTables
  <2>1. EntryExact(u)
    BY DEF CacheCoherent
  <2>2. permissionCache[u].roles # {} \/ permissionCache[u].permissions # {}
    BY DEF NoCachedEmptiness
  <2>. QED
    BY <2>1, <2>2 DEF EntryExact, requireRole, requirePermission, userHasRole,
                      userHasPermission
<1>. QED  BY <1>1, CacheIsCoherent, NoEmptinessIsCached, PTL
=============================================================================
