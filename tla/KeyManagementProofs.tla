------------------------- MODULE KeyManagementProofs -------------------------
(* Proofs about KeyManagement for any number of keys and of calls.          *)
EXTENDS KeyManagement, TLAPS

-----------------------------------------------------------------------------
(* Type correctness.                                                        *)

WithKey == {"get", "rotate", "delete", "evict", "ask", "retire", "replace"}
WithSeen == {"fill", "loaded", "list", "refill"}

LEMMA CallFields ==
  ASSUME NEW s \in CallState
  PROVE  /\ s.at \in WithKey => s.key \in Key
         /\ s.at \in {"retire", "replace"} => s.new \in Key
         /\ s.at = "create" => s.kind \in Kind
         /\ s.at \in WithSeen => s.seen \in Entries
         /\ s.at = "ask" => s.tried \in SUBSET Key
BY DEF CallState, WithKey, WithSeen

LEMMA CallStates ==
  /\ Idle \in CallState
  /\ [at |-> "load"] \in CallState
  /\ [at |-> "findDefault"] \in CallState
  /\ \A k \in Key, a \in {"get", "rotate", "delete", "evict"} :
       [at |-> a, key |-> k] \in CallState
  /\ \A kd \in Kind : [at |-> "create", kind |-> kd] \in CallState
  /\ \A e \in Entries, a \in WithSeen : [at |-> a, seen |-> e] \in CallState
  /\ \A k \in Key, S \in SUBSET Key : [at |-> "ask", key |-> k, tried |-> S] \in CallState
  /\ \A k, n \in Key, a \in {"retire", "replace"} :
       [at |-> a, key |-> k, new |-> n] \in CallState
BY DEF CallState, Idle, WithSeen

LEMMA Moves ==
  ASSUME call \in [Call -> CallState], NEW c \in Call, NEW s \in CallState, Goes(c, s)
  PROVE  /\ call' \in [Call -> CallState]
         /\ call'[c] = s
         /\ \A d \in Call \ {c} : call'[d] = call[d]
BY DEF Goes

(* The operators that build the contents of a cache do so.                  *)
LEMMA EntriesTypes ==
  /\ NoEntries \in Entries
  /\ \A k \in Key : Fresh(k) \in Entries
  /\ \A S : dbKeyToKeyPair(S) \in Entries
BY DEF Entries, NoEntries, Fresh, dbKeyToKeyPair

(* What one statement does to the table.                                    *)
Inserts(k, kd, prev) ==
  /\ row[k] = "none"
  /\ row' = [row EXCEPT ![k] = "active"]
  /\ kind' = [kind EXCEPT ![k] = kd]
  /\ previous' = [previous EXCEPT ![k] = prev]
  /\ latest' = IF kd = "default" THEN k ELSE latest

Retires(c) ==
  /\ call[c].at = "retire"
  /\ row' = [row EXCEPT ![call[c].key] = IF @ = "active" THEN "retired" ELSE @]
  /\ UNCHANGED <<kind, previous, latest>>

Revokes(k) ==
  /\ row[k] # "none"
  /\ row' = [row EXCEPT ![k] = "revoked"]
  /\ UNCHANGED <<kind, previous, latest>>

RowStep ==
  \/ UNCHANGED rows
  \/ \E k \in Key, kd \in Kind, prev \in Key \cup {None} : Inserts(k, kd, prev)
  \/ \E c \in Call : Retires(c)
  \/ \E k \in Key : Revokes(k)

-----------------------------------------------------------------------------
(* The inductive invariant.  It speaks of the table as a parameter, so that *)
(* it can be said of the table before and after a statement.                *)

(* Rows read earlier, or cached, are at worst too favourable.               *)
Favourable(e, r) ==
  \A k \in Key : /\ e[k] # "none" => r[k] # "none"
                 /\ e[k] = "revoked" => r[k] # "active"

(* What a handler may rely on between two statements.                       *)
HasFound == {"rotate", "delete", "evict", "retire", "replace"}

Promise(s, r, kd, pv, lt) ==
  /\ s.at \in WithSeen => Favourable(s.seen, r)
  /\ s.at \in HasFound => r[s.key] # "none"
  /\ s.at \in {"retire", "replace"} =>
       r[s.new] # "none" /\ s.new # s.key /\ pv[s.new] = s.key /\ kd[s.new] = kd[s.key]
  /\ s.at = "retire" => s.key # lt

(* The default key that was inserted last is never retired.                 *)
LatestLives ==
  /\ latest = None => \A k \in Key : kind[k] # "default"
  /\ latest # None => kind[latest] = "default" /\ row[latest] \in {"active", "revoked"}

KeyInv ==
  /\ TypeOK
  /\ Favourable(cache, row)
  /\ \A c \in Call : Promise(call[c], row, kind, previous, latest)
  /\ LatestLives
  /\ RetiredHasSuccessor

TableType(r, kd, pv, lt) ==
  /\ r \in [Key -> Row]
  /\ kd \in [Key -> Kind \cup {None}]
  /\ \A k \in Key : kd[k] = None <=> r[k] = "none"
  /\ pv \in [Key -> Key \cup {None}]
  /\ lt \in Key \cup {None}

(* Rows come to stay and are never activated again.                         *)
Grows(r, rr) ==
  \A k \in Key : r[k] # "none" => rr[k] # "none" /\ (r[k] # "active" => rr[k] # "active")

LEMMA InsertKeeps ==
  ASSUME KeyInv, NEW k \in Key, NEW t \in Kind, NEW prev \in Key \cup {None},
         Inserts(k, t, prev)
  PROVE  /\ TableType(row', kind', previous', latest')
         /\ Grows(row, row')
         /\ \A s \in CallState : Promise(s, row, kind, previous, latest)
              => (s.at \in HasFound => s.key # k /\ (s.at \in {"retire", "replace"} => s.new # k))
         /\ LatestLives'
         /\ RetiredHasSuccessor'
<1>. USE NoneAssumption DEF KeyInv, TypeOK, Inserts
<1>1. TableType(row', kind', previous', latest')
  BY DEF TableType, Row, Kind
<1>2. Grows(row, row')  BY DEF Grows
<1>3. \A s \in CallState : Promise(s, row, kind, previous, latest)
        => (s.at \in HasFound => s.key # k /\ (s.at \in {"retire", "replace"} => s.new # k))
  BY DEF Promise
<1>4. LatestLives'
  BY DEF LatestLives, Kind
<1>5. RetiredHasSuccessor'
  <2>. SUFFICES ASSUME NEW j \in Key, row'[j] = "retired"
                PROVE  \E i \in Key : previous'[i] = j /\ kind'[i] = kind'[j]
    BY DEF RetiredHasSuccessor
  <2>1. j # k /\ row[j] = "retired"  OBVIOUS
  <2>2. PICK i \in Key : previous[i] = j /\ kind[i] = kind[j]
    BY <2>1 DEF RetiredHasSuccessor
  <2>3. kind[j] # None  BY <2>1
  <2>4. i # k  BY <2>2, <2>3
  <2>. QED  BY <2>1, <2>2, <2>4
<1>. QED  BY <1>1, <1>2, <1>3, <1>4, <1>5

LEMMA RowStepKeeps ==
  ASSUME KeyInv, RowStep
  PROVE  /\ TableType(row', kind', previous', latest')
         /\ Grows(row, row')
         /\ \A s \in CallState : Promise(s, row, kind, previous, latest)
                                   => Promise(s, row', kind', previous', latest')
         /\ LatestLives'
         /\ RetiredHasSuccessor'
<1>1. CASE UNCHANGED rows
  BY <1>1 DEF rows, KeyInv, TypeOK, TableType, Grows, LatestLives, RetiredHasSuccessor
<1>2. ASSUME NEW k \in Key, NEW t \in Kind, NEW prev \in Key \cup {None}, Inserts(k, t, prev)
      PROVE  /\ TableType(row', kind', previous', latest')
             /\ Grows(row, row')
             /\ \A s \in CallState : Promise(s, row, kind, previous, latest)
                                       => Promise(s, row', kind', previous', latest')
             /\ LatestLives'
             /\ RetiredHasSuccessor'
  <2>1. ASSUME NEW s \in CallState, Promise(s, row, kind, previous, latest)
        PROVE  Promise(s, row', kind', previous', latest')
    <3>1. s.at \in WithSeen => Favourable(s.seen, row')
      BY <1>2, <2>1 DEF Promise, Favourable, Inserts, KeyInv, TypeOK
    <3>2. s.at \in HasFound => s.key \in Key
      BY CallFields DEF HasFound, WithKey
    <3>3. s.at \in {"retire", "replace"} => s.new \in Key /\ s.at \in HasFound
      BY CallFields DEF HasFound
    <3>4. s.at \in HasFound => s.key # k /\ (s.at \in {"retire", "replace"} => s.new # k)
      BY <1>2, <2>1, InsertKeeps
    <3>. QED  BY <1>2, <2>1, <3>1, <3>2, <3>3, <3>4 DEF Promise, Inserts, KeyInv, TypeOK
  <2>. QED  BY <1>2, <2>1, InsertKeeps
<1>3. ASSUME NEW c \in Call, Retires(c)
      PROVE  /\ TableType(row', kind', previous', latest')
             /\ Grows(row, row')
             /\ \A s \in CallState : Promise(s, row, kind, previous, latest)
                                       => Promise(s, row', kind', previous', latest')
             /\ LatestLives'
             /\ RetiredHasSuccessor'
  <2>. DEFINE k == call[c].key  n == call[c].new
  <2>1. /\ k \in Key /\ n \in Key /\ row[k] # "none" /\ k # latest
        /\ previous[n] = k /\ kind[n] = kind[k]
    BY <1>3, CallFields DEF Retires, WithKey, KeyInv, TypeOK, Promise, HasFound
  <2>2. /\ \A j \in Key : row'[j] = row[j] \/ (j = k /\ row[j] = "active" /\ row'[j] = "retired")
        /\ row' \in [Key -> Row]
        /\ UNCHANGED <<kind, previous, latest>>
    BY <1>3, <2>1 DEF Retires, KeyInv, TypeOK, Row
  <2>. HIDE DEF k, n
  <2>3. TableType(row', kind', previous', latest') /\ Grows(row, row')
    BY <2>2 DEF KeyInv, TypeOK, TableType, Grows
  <2>4. \A s \in CallState : Promise(s, row, kind, previous, latest)
                               => Promise(s, row', kind', previous', latest')
    BY <2>2, CallFields DEF Promise, Favourable, HasFound, WithKey
  <2>5. LatestLives'  BY <2>1, <2>2 DEF KeyInv, TypeOK, LatestLives
  <2>6. RetiredHasSuccessor'  BY <2>1, <2>2 DEF KeyInv, RetiredHasSuccessor
  <2>. QED  BY <2>3, <2>4, <2>5, <2>6
<1>4. ASSUME NEW k \in Key, Revokes(k)
      PROVE  /\ TableType(row', kind', previous', latest')
             /\ Grows(row, row')
             /\ \A s \in CallState : Promise(s, row, kind, previous, latest)
                                       => Promise(s, row', kind', previous', latest')
             /\ LatestLives'
             /\ RetiredHasSuccessor'
  <2>2. /\ \A j \in Key : row'[j] = row[j] \/ (j = k /\ row[j] # "none" /\ row'[j] = "revoked")
        /\ row' \in [Key -> Row]
        /\ UNCHANGED <<kind, previous, latest>>
    BY <1>4 DEF Revokes, KeyInv, TypeOK, Row
  <2>3. TableType(row', kind', previous', latest') /\ Grows(row, row')
    BY <2>2 DEF KeyInv, TypeOK, TableType, Grows
  <2>4. \A s \in CallState : Promise(s, row, kind, previous, latest)
                               => Promise(s, row', kind', previous', latest')
    BY <2>2, CallFields DEF Promise, Favourable, HasFound, WithKey
  <2>5. LatestLives'  BY <2>2 DEF KeyInv, TypeOK, LatestLives
  <2>6. RetiredHasSuccessor'  BY <2>2 DEF KeyInv, RetiredHasSuccessor
  <2>. QED  BY <2>3, <2>4, <2>5, <2>6
<1>. QED  BY <1>1, <1>2, <1>3, <1>4 DEF RowStep

-----------------------------------------------------------------------------
(* The steps of a handler.                                                  *)

(* What each of them does: a statement or none, an update of the cache with *)
(* rows that are at worst too favourable, and a next state of the handler   *)
(* that may rely on what it relies on.                                      *)
Outcome(c) ==
  /\ RowStep
  /\ cache' \in Entries /\ Favourable(cache', row')
  /\ \E s \in CallState : Goes(c, s) /\ Promise(s, row', kind', previous', latest')

LEMMA AgesType == Ages => outdated' \in SUBSET (Call \X Key)
BY DEF Ages

LEMMA OutcomeKeeps == ASSUME KeyInv, NEW c \in Call, Outcome(c), Ages  PROVE KeyInv'
<1>. PICK s \in CallState : Goes(c, s) /\ Promise(s, row', kind', previous', latest')
  BY DEF Outcome
<1>1. /\ TableType(row', kind', previous', latest')
      /\ \A t \in CallState : Promise(t, row, kind, previous, latest)
                                => Promise(t, row', kind', previous', latest')
      /\ LatestLives' /\ RetiredHasSuccessor'
  BY RowStepKeeps DEF Outcome
<1>2. /\ call' \in [Call -> CallState] /\ call'[c] = s
      /\ \A d \in Call \ {c} : call'[d] = call[d] /\ call[d] \in CallState
  BY Moves DEF KeyInv, TypeOK
<1>3. \A d \in Call : Promise(call'[d], row', kind', previous', latest')
  BY <1>1, <1>2 DEF KeyInv
<1>4. TypeOK'  BY <1>1, <1>2, AgesType DEF TypeOK, TableType, Outcome
<1>. QED  BY <1>1, <1>3, <1>4 DEF KeyInv, Outcome

(* States of a handler that rely on nothing.                                *)
LEMMA NothingPromised ==
  \A s : s.at \notin WithSeen \cup HasFound => Promise(s, row', kind', previous', latest')
BY DEF Promise, HasFound

LEMMA ReadRows ==
  ASSUME NEW S \in SUBSET Key, \A k \in S : Exists(k)
  PROVE  dbKeyToKeyPair(S) \in Entries /\ Favourable(dbKeyToKeyPair(S), row)
BY DEF dbKeyToKeyPair, Entries, Favourable, Exists

LEMMA CacheUpdated ==
  ASSUME KeyInv, NEW seen \in Entries, Favourable(seen, row), updateCache(seen)
  PROVE  cache' \in Entries /\ Favourable(cache', row)
BY DEF KeyInv, TypeOK, updateCache, Entries, Favourable

LEMMA AskNextGoes ==
  ASSUME NEW c \in Call, NEW tried \in SUBSET Key, AskNext(c, tried)
  PROVE  \E s \in CallState : Goes(c, s) /\ s.at \in {"findDefault", "ask"}
<1>1. CASE Goes(c, [at |-> "findDefault"])  BY <1>1, CallStates
<1>2. ASSUME NEW k \in Key, Goes(c, [at |-> "ask", key |-> k, tried |-> tried \cup {k}])
      PROVE  \E s \in CallState : Goes(c, s) /\ s.at \in {"findDefault", "ask"}
  BY <1>2, CallStates
<1>. QED  BY <1>1, <1>2 DEF AskNext, Signing

(* Steps after which the handler relies on nothing and nothing has changed. *)
LEMMA QuietOutcome ==
  ASSUME KeyInv, NEW c \in Call, UNCHANGED <<rows, cache>>,
         \E s \in CallState : Goes(c, s) /\ s.at \notin WithSeen \cup HasFound
  PROVE  Outcome(c)
BY NothingPromised DEF Outcome, RowStep, KeyInv, TypeOK, rows

LEMMA QuietSteps ==
  ASSUME KeyInv, NEW c \in Call,
         \/ \E kd \in Kind : generateKey(c, kd)
         \/ \E k \in Key : getKey(c, k)
         \/ getDefaultSigningKey(c)
         \/ AskName(c)
         \/ Fails(c)
  PROVE  Outcome(c)
<1>. USE DEF WithSeen, HasFound
<1>1. ASSUME NEW kd \in Kind, generateKey(c, kd)  PROVE  Outcome(c)
  BY <1>1, CallStates, QuietOutcome DEF generateKey
<1>2. ASSUME NEW k \in Key, getKey(c, k)  PROVE  Outcome(c)
  BY <1>2, CallStates, QuietOutcome DEF getKey
<1>3. CASE getDefaultSigningKey(c)
  BY <1>3, AskNextGoes, QuietOutcome DEF getDefaultSigningKey
<1>4. CASE AskName(c)
  <2>1. call[c].tried \in SUBSET Key  BY <1>4, CallFields DEF AskName, At, KeyInv, TypeOK
  <2>2. CASE Ends(c)  BY <1>4, <2>2, CallStates, QuietOutcome DEF AskName, Ends, Idle
  <2>3. CASE AskNext(c, call[c].tried)
    BY <1>4, <2>1, <2>3, AskNextGoes, QuietOutcome DEF AskName
  <2>. QED  BY <1>4, <2>2, <2>3 DEF AskName
<1>5. CASE Fails(c)  BY <1>5, CallStates, QuietOutcome DEF Fails, Ends, Idle
<1>. QED  BY <1>1, <1>2, <1>3, <1>4, <1>5

(* Steps that read rows.                                                    *)
LEMMA ReadOutcome ==
  ASSUME KeyInv, NEW c \in Call, UNCHANGED <<rows, cache>>,
         NEW e \in Entries, Favourable(e, row), NEW a \in WithSeen,
         Goes(c, [at |-> a, seen |-> e])
  PROVE  Outcome(c)
<1>1. [at |-> a, seen |-> e] \in CallState  BY CallStates
<1>2. Promise([at |-> a, seen |-> e], row', kind', previous', latest')
  BY DEF Promise, HasFound, WithSeen, rows
<1>. QED  BY <1>1, <1>2 DEF Outcome, RowStep, KeyInv, TypeOK, rows

LEMMA ReadingSteps ==
  ASSUME KeyInv, NEW c \in Call,
         LoadKeys(c) \/ getKeyById(c) \/ FindDefault(c) \/ listKeys(c) \/ ListVerification(c)
  PROVE  Outcome(c)
<1>1. CASE LoadKeys(c)
  BY <1>1, ReadRows, ReadOutcome DEF LoadKeys, Signing, WithSeen
<1>2. CASE getKeyById(c)
  <2>1. call[c].key \in Key  BY <1>2, CallFields DEF getKeyById, At, WithKey, KeyInv, TypeOK
  <2>2. CASE Exists(call[c].key)
    BY <1>2, <2>1, <2>2, ReadRows, ReadOutcome DEF getKeyById, WithSeen
  <2>3. CASE ~Exists(call[c].key)
    BY <1>2, <2>3, CallStates, QuietOutcome DEF getKeyById, Ends, Idle, WithSeen, HasFound
  <2>. QED  BY <2>2, <2>3
<1>3. CASE FindDefault(c)
  <2>1. CASE ActiveDefault = {}
    BY <1>3, <2>1, CallStates, QuietOutcome DEF FindDefault, WithSeen, HasFound, Kind
  <2>2. ASSUME NEW k \in ActiveDefault, Goes(c, [at |-> "fill", seen |-> dbKeyToKeyPair({k})])
        PROVE  Outcome(c)
    BY <1>3, <2>2, ReadRows, ReadOutcome DEF FindDefault, ActiveDefault, Exists, WithSeen
  <2>. QED  BY <1>3, <2>1, <2>2 DEF FindDefault
<1>4. CASE listKeys(c)
  BY <1>4, ReadRows, ReadOutcome DEF listKeys, Signing, WithSeen
<1>5. CASE ListVerification(c)
  <2>. DEFINE more == dbKeyToKeyPair(Verification)  first == call[c].seen
              both == [k \in Key |-> IF more[k] = "none" THEN first[k] ELSE more[k]]
  <2>1. more \in Entries /\ Favourable(more, row)  BY ReadRows DEF Verification
  <2>2. first \in Entries /\ Favourable(first, row)
    BY <1>5, CallFields DEF ListVerification, At, WithSeen, KeyInv, TypeOK, Promise
  <2>3. Goes(c, [at |-> "refill", seen |-> both]) /\ UNCHANGED <<rows, cache>>
    BY <1>5 DEF ListVerification
  <2>. HIDE DEF more, first
  <2>4. both \in Entries /\ Favourable(both, row)  BY <2>1, <2>2 DEF Entries, Favourable
  <2>. HIDE DEF both
  <2>. QED  BY <2>3, <2>4, ReadOutcome DEF WithSeen
<1>. QED  BY <1>1, <1>2, <1>3, <1>4, <1>5

(* Steps that change the cache.                                             *)
LEMMA CachingSteps ==
  ASSUME KeyInv, NEW c \in Call,
         LoadCache(c) \/ FillCache(c) \/ RefillCache(c) \/ ReplaceEntry(c) \/ EvictEntry(c)
  PROVE  Outcome(c)
<1>1. UNCHANGED rows
  BY DEF LoadCache, FillCache, RefillCache, ReplaceEntry, EvictEntry
<1>2. \E s \in CallState : Goes(c, s) /\ s.at \notin WithSeen \cup HasFound
  <2>1. CASE Ends(c)  BY <2>1, CallStates DEF Ends, Idle, WithSeen, HasFound
  <2>2. CASE Goes(c, [at |-> "create", kind |-> "default"])
    BY <2>2, CallStates DEF WithSeen, HasFound, Kind
  <2>. QED  BY <2>1, <2>2 DEF LoadCache, FillCache, RefillCache, ReplaceEntry, EvictEntry
<1>3. \E s \in CallState : Goes(c, s) /\ Promise(s, row', kind', previous', latest')
  BY <1>2, NothingPromised
<1>4. cache' \in Entries /\ Favourable(cache', row)
  <2>1. CASE call[c].at \in WithSeen
    <3>1. call[c].seen \in Entries /\ Favourable(call[c].seen, row)
      BY <2>1, CallFields DEF KeyInv, TypeOK, Promise
    <3>2. updateCache(call[c].seen) \/ cache' = call[c].seen
      BY <2>1 DEF LoadCache, FillCache, RefillCache, ReplaceEntry, EvictEntry, At, WithSeen
    <3>. QED  BY <3>1, <3>2, CacheUpdated
  <2>2. CASE ReplaceEntry(c)
    <3>1. call[c].key \in Key /\ call[c].new \in Key /\ row[call[c].new] # "none"
      BY <2>2, CallFields DEF ReplaceEntry, At, WithKey, KeyInv, TypeOK, Promise
    <3>. QED  BY <2>2, <3>1 DEF ReplaceEntry, KeyInv, TypeOK, Entries, Favourable
  <2>3. CASE EvictEntry(c)
    BY <2>3 DEF EvictEntry, KeyInv, TypeOK, Entries, Favourable
  <2>. QED
    BY <2>1, <2>2, <2>3 DEF LoadCache, FillCache, RefillCache, At, WithSeen
<1>. QED  BY <1>1, <1>3, <1>4 DEF Outcome, RowStep, rows

(* Steps that change the table.                                             *)
LEMMA Inserting ==
  ASSUME KeyInv, NEW k \in Key, NEW t \in Kind, NEW prev \in Key \cup {None},
         Insert(k, t, prev), UNCHANGED cache
  PROVE  /\ Inserts(k, t, prev) /\ RowStep
         /\ cache' \in Entries /\ Favourable(cache', row')
         /\ row'[k] = "active" /\ kind'[k] = t /\ previous'[k] = prev
         /\ \A j \in Key : row[j] # "none" => j # k /\ row'[j] = row[j] /\ kind'[j] = kind[j]
         /\ latest' = IF t = "default" THEN k ELSE latest
<1>1. Inserts(k, t, prev)  BY DEF Insert, Inserts, Exists
<1>2. RowStep  BY <1>1 DEF RowStep
<1>3. \A j \in Key : row[j] # "none" => j # k /\ row'[j] = row[j] /\ kind'[j] = kind[j]
  BY <1>1 DEF Inserts, KeyInv, TypeOK
<1>4. cache' \in Entries /\ Favourable(cache', row')
  BY <1>3 DEF KeyInv, TypeOK, Favourable, Entries
<1>. QED  BY <1>1, <1>2, <1>3, <1>4 DEF Inserts, KeyInv, TypeOK

LEMMA CreatingSteps ==
  ASSUME KeyInv, NEW c \in Call, createKey(c) \/ CreateSuccessor(c)  PROVE Outcome(c)
<1>1. CASE createKey(c)
  <2>1. call[c].kind \in Kind  BY <1>1, CallFields DEF createKey, At, KeyInv, TypeOK
  <2>2. PICK k \in Key : /\ Insert(k, call[c].kind, None)
                         /\ Goes(c, [at |-> "fill", seen |-> Fresh(k)])
    BY <1>1 DEF createKey
  <2>3. /\ RowStep /\ cache' \in Entries /\ Favourable(cache', row')
        /\ row'[k] = "active"
    BY <1>1, <2>1, <2>2, Inserting DEF createKey
  <2>4. Favourable(Fresh(k), row')  BY <2>3 DEF Favourable, Fresh, NoEntries
  <2>5. [at |-> "fill", seen |-> Fresh(k)] \in CallState
    BY CallStates, EntriesTypes DEF WithSeen
  <2>6. Promise([at |-> "fill", seen |-> Fresh(k)], row', kind', previous', latest')
    BY <2>4 DEF Promise, HasFound, WithSeen
  <2>. QED  BY <2>2, <2>3, <2>5, <2>6 DEF Outcome
<1>2. CASE CreateSuccessor(c)
  <2>. DEFINE old == call[c].key
  <2>1. old \in Key /\ row[old] # "none" /\ kind[old] \in Kind
    BY <1>2, CallFields DEF CreateSuccessor, At, WithKey, HasFound, KeyInv, TypeOK, Promise
  <2>2. PICK new \in Key : /\ Insert(new, kind[old], old)
                           /\ Goes(c, [at |-> "retire", key |-> old, new |-> new])
    BY <1>2 DEF CreateSuccessor
  <2>. HIDE DEF old
  <2>3. /\ RowStep /\ cache' \in Entries /\ Favourable(cache', row')
        /\ row'[new] = "active" /\ kind'[new] = kind[old] /\ previous'[new] = old
        /\ new # old /\ row'[old] = row[old] /\ kind'[old] = kind[old]
        /\ latest' = IF kind[old] = "default" THEN new ELSE latest
    BY <1>2, <2>1, <2>2, Inserting DEF CreateSuccessor
  <2>4. old # latest'
    BY <2>1, <2>3, NoneAssumption DEF KeyInv, LatestLives
  <2>5. [at |-> "retire", key |-> old, new |-> new] \in CallState  BY <2>1, CallStates
  <2>6. Promise([at |-> "retire", key |-> old, new |-> new], row', kind', previous', latest')
    BY <2>1, <2>3, <2>4 DEF Promise, WithSeen
  <2>. QED  BY <2>2, <2>3, <2>5, <2>6 DEF Outcome
<1>. QED  BY <1>1, <1>2

LEMMA ChangingSteps ==
  ASSUME KeyInv, NEW c \in Call,
         \/ \E k \in Key : rotateKey(c, k)
         \/ RetireKey(c)
         \/ \E k \in Key : deleteKey(c, k)
         \/ revokeKey(c)
  PROVE  Outcome(c)
<1>1. ASSUME NEW k \in Key, NEW a \in {"rotate", "delete"}, Exists(k),
             Goes(c, [at |-> a, key |-> k]), UNCHANGED <<rows, cache>>
      PROVE  Outcome(c)
  <2>1. [at |-> a, key |-> k] \in CallState  BY CallStates
  <2>2. Promise([at |-> a, key |-> k], row', kind', previous', latest')
    BY <1>1 DEF Promise, WithSeen, rows, Exists
  <2>. QED  BY <1>1, <2>1, <2>2 DEF Outcome, RowStep, KeyInv, TypeOK, rows
<1>2. CASE \E k \in Key : rotateKey(c, k)  BY <1>1, <1>2 DEF rotateKey
<1>3. CASE \E k \in Key : deleteKey(c, k)  BY <1>1, <1>3 DEF deleteKey
<1>4. CASE RetireKey(c)
  <2>. DEFINE s == [at |-> "replace", key |-> call[c].key, new |-> call[c].new]
  <2>1. call[c].key \in Key /\ call[c].new \in Key /\ call[c] \in CallState
    BY <1>4, CallFields DEF RetireKey, At, WithKey, KeyInv, TypeOK
  <2>2. RowStep  BY <1>4 DEF RetireKey, RowStep, Retires, At
  <2>3. Promise(call[c], row', kind', previous', latest')
    BY <2>1, <2>2, RowStepKeeps DEF KeyInv
  <2>4. s \in CallState /\ Promise(s, row', kind', previous', latest')
    BY <1>4, <2>1, <2>3, CallStates DEF Promise, RetireKey, At, WithSeen, HasFound
  <2>5. cache' \in Entries /\ Favourable(cache', row')
    BY <1>4, <2>2, RowStepKeeps DEF RetireKey, KeyInv, TypeOK, Favourable, Grows
  <2>. QED  BY <1>4, <2>2, <2>4, <2>5 DEF Outcome, RetireKey
<1>5. CASE revokeKey(c)
  <2>. DEFINE s == [at |-> "evict", key |-> call[c].key]
  <2>1. call[c].key \in Key /\ call[c] \in CallState /\ row[call[c].key] # "none"
    BY <1>5, CallFields DEF revokeKey, At, WithKey, HasFound, KeyInv, TypeOK, Promise
  <2>2. RowStep  BY <1>5, <2>1 DEF revokeKey, RowStep, Revokes
  <2>3. Promise(call[c], row', kind', previous', latest')
    BY <2>1, <2>2, RowStepKeeps DEF KeyInv
  <2>4. s \in CallState /\ Promise(s, row', kind', previous', latest')
    BY <1>5, <2>1, <2>3, CallStates DEF Promise, revokeKey, At, WithSeen, HasFound
  <2>5. cache' \in Entries /\ Favourable(cache', row')
    BY <1>5, <2>2, RowStepKeeps DEF revokeKey, KeyInv, TypeOK, Favourable, Grows
  <2>. QED  BY <1>5, <2>2, <2>4, <2>5 DEF Outcome, revokeKey
<1>. QED  BY <1>2, <1>3, <1>4, <1>5

-----------------------------------------------------------------------------
LEMMA InitInv == Init => KeyInv
<1>. SUFFICES ASSUME Init PROVE KeyInv
  OBVIOUS
<1>1. call \in [Call -> CallState] /\ \A c \in Call : call[c].at \notin WithSeen \cup HasFound
  BY CallStates DEF Init, Idle, WithSeen, HasFound
<1>2. TypeOK  BY <1>1, EntriesTypes DEF Init, TypeOK, Row
<1>3. Favourable(cache, row)  BY DEF Init, Favourable, NoEntries
<1>4. \A c \in Call : Promise(call[c], row, kind, previous, latest)
  BY <1>1 DEF Promise, HasFound
<1>5. LatestLives /\ RetiredHasSuccessor
  BY NoneAssumption DEF Init, LatestLives, RetiredHasSuccessor, Kind
<1>. QED  BY <1>2, <1>3, <1>4, <1>5 DEF KeyInv

LEMMA NextInv == KeyInv /\ [Next]_vars => KeyInv'
<1>. SUFFICES ASSUME KeyInv, [Next]_vars  PROVE KeyInv'
  OBVIOUS
<1>1. ASSUME NEW c \in Call, Request(c) \/ Resume(c) \/ Fails(c), Ages  PROVE KeyInv'
  <2>1. Outcome(c)
    BY <1>1, QuietSteps, ReadingSteps, CachingSteps, CreatingSteps, ChangingSteps
       DEF Request, Resume
  <2>. QED  BY <1>1, <2>1, OutcomeKeeps
<1>2. CASE Restart /\ Ages
  <2>1. call' \in [Call -> CallState] /\ \A c \in Call : call'[c].at \notin WithSeen \cup HasFound
    BY <1>2, CallStates DEF Restart, Idle, WithSeen, HasFound
  <2>2. \A c \in Call : Promise(call'[c], row', kind', previous', latest')
    BY <2>1, NothingPromised
  <2>3. cache' \in Entries /\ Favourable(cache', row')
    BY <1>2, EntriesTypes DEF Restart, Favourable, NoEntries
  <2>4. UNCHANGED rows  BY <1>2 DEF Restart
  <2>. QED
    BY <1>2, <2>1, <2>2, <2>3, <2>4, AgesType
    DEF KeyInv, TypeOK, rows, LatestLives, RetiredHasSuccessor
<1>3. CASE UNCHANGED vars
  BY <1>3 DEF vars, rows, KeyInv, TypeOK, LatestLives, RetiredHasSuccessor, Favourable, Promise
<1>. QED  BY <1>1, <1>2, <1>3 DEF Next

LEMMA Invariance == Spec => []KeyInv
BY InitInv, NextInv, PTL DEF Spec

(* The table, the cache and the calls in progress have their types.         *)
THEOREM TypeCorrect == Spec => []TypeOK
<1>1. KeyInv => TypeOK  BY DEF KeyInv
<1>. QED  BY <1>1, Invariance, PTL

(* The cache never calls an active key revoked: every row in it, or in the  *)
(* hands of a handler, was read at a time when it was at least as usable.   *)
THEOREM CacheIsFavourable == Spec => []NeverFalselyRevoked
<1>1. KeyInv => NeverFalselyRevoked
  BY DEF KeyInv, Favourable, NeverFalselyRevoked, Exists
<1>. QED  BY <1>1, Invariance, PTL

(* Unless a default signing key is deleted, one is active: the one that was *)
(* inserted last, since only a handler that inserted a later one retires a  *)
(* default key.                                                             *)
THEOREM RotationKeepsDefault == Spec => []DefaultSurvives
<1>1. KeyInv => DefaultSurvives
  <2>. SUFFICES ASSUME KeyInv, \E k \in Key : kind[k] = "default",
                       \A k \in Key : kind[k] = "default" => row[k] # "revoked"
                PROVE  ActiveDefault # {}
    BY DEF DefaultSurvives
  <2>1. latest \in Key /\ kind[latest] = "default" /\ row[latest] = "active"
    BY DEF KeyInv, TypeOK, LatestLives
  <2>. QED  BY <2>1 DEF ActiveDefault
<1>. QED  BY <1>1, Invariance, PTL

(* A retired key has a successor of its kind: it was inserted before.       *)
THEOREM RetiredAreTraced == Spec => []RetiredHasSuccessor
<1>1. KeyInv => RetiredHasSuccessor  BY DEF KeyInv
<1>. QED  BY <1>1, Invariance, PTL

-----------------------------------------------------------------------------
(* How stale entries come to stay.                                          *)

(* What a handler holds as usable is active, or has ceased to be since.     *)
HeldIsKnown ==
  \A c \in Call, k \in Key : Holds(c, k) => row[k] = "active" \/ <<c, k>> \in outdated

(* A handler gets hold of an active row only.                               *)
LEMMA TakesActive ==
  ASSUME KeyInv, Next, NEW c \in Call, NEW k \in Key, ~Holds(c, k), Holds(c, k)'
  PROVE  row'[k] = "active"
<1>1. \A S : dbKeyToKeyPair(S)[k] = "usable" => row[k] = "active"
  BY DEF dbKeyToKeyPair
<1>2. PICK d \in Call : Request(d) \/ Resume(d) \/ Fails(d)
  <2>1. ~Restart  BY DEF Restart, Holds, Idle
  <2>. QED  BY <2>1 DEF Next
<1>3. d = c
  <2>1. PICK s \in CallState : Goes(d, s)
    BY <1>2, QuietSteps, ReadingSteps, CachingSteps, CreatingSteps, ChangingSteps
       DEF Request, Resume, Outcome
  <2>. QED  BY <2>1 DEF Goes, Holds, KeyInv, TypeOK
<1>. USE DEF Goes, Ends, Idle, At, Holds
<1>4. CASE LoadKeys(c) \/ listKeys(c) \/ getKeyById(c) \/ FindDefault(c)
  <2>1. ASSUME NEW a \in WithSeen, NEW S, row' = row,
               Goes(c, [at |-> a, seen |-> dbKeyToKeyPair(S)])
        PROVE  row'[k] = "active"
    <3>1. call'[c] = [at |-> a, seen |-> dbKeyToKeyPair(S)]
      BY <2>1 DEF KeyInv, TypeOK
    <3>2. call'[c].at = a /\ call'[c].seen = dbKeyToKeyPair(S)  BY <3>1
    <3>. HIDE DEF Holds
    <3>3. call'[c].seen[k] = "usable"  BY <2>1, <3>2 DEF Holds, WithSeen
    <3>. QED  BY <1>1, <2>1, <3>2, <3>3
  <2>2. ~Ends(c) /\ ~Goes(c, [at |-> "create", kind |-> "default"])
    BY DEF KeyInv, TypeOK
  <2>. HIDE DEF Holds, Goes
  <2>. USE DEF WithSeen
  <2>3. CASE LoadKeys(c)  BY <2>1, <2>3 DEF LoadKeys, rows
  <2>4. CASE listKeys(c)  BY <2>1, <2>4 DEF listKeys, rows
  <2>5. CASE getKeyById(c)  BY <2>1, <2>2, <2>5 DEF getKeyById, rows
  <2>6. CASE FindDefault(c)  BY <2>1, <2>2, <2>6 DEF FindDefault, rows
  <2>. QED  BY <1>4, <2>3, <2>4, <2>5, <2>6
<1>5. CASE ListVerification(c)
  <2>. DEFINE more == dbKeyToKeyPair(Verification)
  <2>1. /\ row' = row /\ call[c].at = "list"
        /\ call'[c] = [at |-> "refill", seen |-> [j \in Key |->
              IF more[j] = "none" THEN call[c].seen[j] ELSE more[j]]]
    BY <1>5 DEF ListVerification, rows, KeyInv, TypeOK
  <2>2. more[k] = "usable" => row[k] = "active"  BY <1>1
  <2>. HIDE DEF more
  <2>3. more[k] = "usable" \/ call[c].seen[k] = "usable"  BY <2>1
  <2>4. call[c].seen \in Entries  BY <2>1, CallFields DEF WithSeen, KeyInv, TypeOK
  <2>. QED  BY <2>1, <2>2, <2>3
<1>6. CASE createKey(c)
  BY <1>6 DEF createKey, Insert, Fresh, NoEntries, KeyInv, TypeOK
<1>7. CASE CreateSuccessor(c)
  BY <1>7 DEF CreateSuccessor, Insert, KeyInv, TypeOK
<1>8. ~ \/ \E kd \in Kind : generateKey(c, kd)
        \/ \E j \in Key : getKey(c, j) \/ rotateKey(c, j) \/ deleteKey(c, j)
        \/ LoadCache(c) \/ FillCache(c) \/ RefillCache(c) \/ ReplaceEntry(c)
        \/ EvictEntry(c) \/ revokeKey(c) \/ RetireKey(c) \/ Fails(c)
  BY DEF generateKey, getKey, rotateKey, deleteKey, LoadCache, FillCache, RefillCache,
         ReplaceEntry, EvictEntry, revokeKey, RetireKey, Fails, KeyInv, TypeOK
<1>9. ~getDefaultSigningKey(c) /\ ~AskName(c)
  <2>1. ASSUME NEW tried, AskNext(c, tried)  PROVE FALSE
    BY <2>1 DEF AskNext, KeyInv, TypeOK
  <2>. QED  BY <2>1 DEF getDefaultSigningKey, AskName, KeyInv, TypeOK
<1>. QED  BY <1>2, <1>3, <1>4, <1>5, <1>6, <1>7, <1>8, <1>9 DEF Request, Resume

LEMMA HeldInv == Spec => []HeldIsKnown
<1>1. Init => HeldIsKnown  BY DEF Init, HeldIsKnown, Holds, Idle
<1>2. KeyInv /\ HeldIsKnown /\ [Next]_vars => HeldIsKnown'
  <2>. SUFFICES ASSUME KeyInv, HeldIsKnown, [Next]_vars,
                       NEW c \in Call, NEW k \in Key, Holds(c, k)', row'[k] # "active"
                PROVE  <<c, k>> \in outdated'
    BY DEF HeldIsKnown
  <2>1. CASE UNCHANGED vars
    BY <2>1 DEF vars, rows, Holds, HeldIsKnown
  <2>2. CASE Next
    <3>1. Holds(c, k)  BY <2>2, TakesActive
    <3>. QED  BY <2>2, <3>1 DEF Next, Ages, HeldIsKnown
  <2>. QED  BY <2>1, <2>2
<1>. QED  BY <1>1, <1>2, Invariance, PTL DEF Spec

(* An entry becomes usable by a handler that holds the key.                 *)
LEMMA FillsHeld ==
  ASSUME KeyInv, Next, NEW k \in Key, cache[k] # "usable", cache'[k] = "usable"
  PROVE  row' = row /\ \E c \in Call : Holds(c, k) /\ Resume(c)
<1>1. ~Restart  BY DEF Restart, NoEntries
<1>2. PICK c \in Call : Request(c) \/ Resume(c) \/ Fails(c)  BY <1>1 DEF Next
<1>3. LoadCache(c) \/ FillCache(c) \/ RefillCache(c) \/ ReplaceEntry(c)
  <2>1. cache' # cache  OBVIOUS
  <2>2. ~EvictEntry(c)  BY DEF EvictEntry, KeyInv, TypeOK, Entries
  <2>. QED
    BY <1>2, <2>1, <2>2
       DEF Request, Resume, Fails, generateKey, getKey, getDefaultSigningKey, rotateKey,
           listKeys, deleteKey, LoadKeys, createKey, getKeyById, AskName, FindDefault,
           CreateSuccessor, RetireKey, ListVerification, revokeKey
<1>4. Resume(c)  BY <1>3 DEF Resume
<1>5. row' = row  BY <1>3 DEF LoadCache, FillCache, RefillCache, ReplaceEntry, rows
<1>6. Holds(c, k)
  BY <1>3 DEF LoadCache, FillCache, RefillCache, ReplaceEntry, updateCache, At, Holds,
              KeyInv, TypeOK, Entries
<1>. QED  BY <1>4, <1>5, <1>6

(* A handler that makes a key inactive is about to delete its entry.        *)
LEMMA InactiveIsEvicted ==
  ASSUME KeyInv, Next, NEW k \in Key, row[k] = "active", row'[k] # "active"
  PROVE  \E c \in Call : Evicting(c, k)'
<1>1. ASSUME NEW c \in Call, RetireKey(c) \/ revokeKey(c), call[c].key = k
      PROVE  \E d \in Call : Evicting(d, k)'
  BY <1>1 DEF RetireKey, revokeKey, Goes, Evicting, KeyInv, TypeOK
<1>2. ASSUME NEW c \in Call, RetireKey(c) \/ revokeKey(c), call[c].key # k
      PROVE  row'[k] = row[k]
  BY <1>2, CallFields DEF RetireKey, revokeKey, At, WithKey, KeyInv, TypeOK
<1>3. ASSUME NEW c \in Call, createKey(c) \/ CreateSuccessor(c)  PROVE row'[k] = "active"
  BY <1>3 DEF createKey, CreateSuccessor, Insert, KeyInv, TypeOK
<1>4. ASSUME NEW c \in Call, Request(c) \/ Resume(c) \/ Fails(c),
             ~ (RetireKey(c) \/ revokeKey(c) \/ createKey(c) \/ CreateSuccessor(c))
      PROVE  row' = row
  BY <1>4 DEF Request, Resume, Fails, generateKey, getKey, getDefaultSigningKey, rotateKey,
         listKeys, deleteKey, LoadKeys, LoadCache, getKeyById, FillCache, AskName,
         FindDefault, ReplaceEntry, ListVerification, RefillCache, EvictEntry, rows
<1>5. CASE Restart  BY <1>5 DEF Restart, rows
<1>. QED  BY <1>1, <1>2, <1>3, <1>4, <1>5 DEF Next

(* A handler about to delete an entry does so, or fails.                    *)
LEMMA EvictingEnds ==
  ASSUME KeyInv, Next, NEW k \in Key, NEW c \in Call, Evicting(c, k), ~ Evicting(c, k)'
  PROVE  cache'[k] # "usable" \/ Fails(c)
<1>1. k = call[c].key /\ call[c].at \in {"evict", "replace"}  BY DEF Evicting
<1>2. CASE Restart  BY <1>2 DEF Restart, NoEntries
<1>3. ASSUME NEW d \in Call, Request(d) \/ Resume(d) \/ Fails(d)  PROVE d = c
  <2>. SUFFICES ASSUME d # c PROVE FALSE
    OBVIOUS
  <2>1. PICK s \in CallState : Goes(d, s)
    BY <1>3, QuietSteps, ReadingSteps, CachingSteps, CreatingSteps, ChangingSteps
       DEF Request, Resume, Outcome
  <2>2. call'[c] = call[c]  BY <2>1 DEF Goes, KeyInv, TypeOK
  <2>. QED  BY <2>2 DEF Evicting
<1>4. CASE Request(c) \/ Resume(c)
  <2>1. ReplaceEntry(c) \/ EvictEntry(c)
    BY <1>1, <1>4
       DEF Request, Resume, At, generateKey, getKey, getDefaultSigningKey, rotateKey,
           listKeys, deleteKey, LoadKeys, LoadCache, createKey, getKeyById, FillCache,
           AskName, FindDefault, CreateSuccessor, RetireKey, ListVerification,
           RefillCache, revokeKey
  <2>2. call[c].at = "replace" => call[c].new # call[c].key
    BY DEF KeyInv, Promise
  <2>. QED  BY <1>1, <2>1, <2>2 DEF ReplaceEntry, EvictEntry, At, KeyInv, TypeOK, Entries
<1>. QED  BY <1>2, <1>3, <1>4 DEF Next

(* A key that is no longer active stays in the cache as usable only if a    *)
(* handler that read it while it was active resumes afterwards, or the      *)
(* handler that made it inactive fails before it deletes the entry.         *)
THEOREM StaleEntriesExplained == Spec => OnlyLateFillsAreStale
<1>1. ASSUME KeyInv, HeldIsKnown, Next, NEW k \in Key, LeftStale(k)', ~LeftStale(k)
      PROVE  \E c \in Call : \/ <<c, k>> \in outdated /\ Resume(c)
                             \/ Evicting(c, k) /\ Fails(c)
  <2>1. /\ cache'[k] = "usable" /\ row'[k] # "active"
        /\ ~ \E c \in Call : Evicting(c, k)'
    BY <1>1 DEF LeftStale
  <2>2. CASE cache[k] # "usable"
    <3>1. row' = row /\ \E c \in Call : Holds(c, k) /\ Resume(c)
      BY <1>1, <2>1, <2>2, FillsHeld
    <3>. QED  BY <1>1, <2>1, <3>1 DEF HeldIsKnown
  <2>3. CASE cache[k] = "usable"
    <3>1. row[k] # "active"  BY <1>1, <2>1, InactiveIsEvicted
    <3>2. PICK c \in Call : Evicting(c, k)  BY <1>1, <2>3, <3>1 DEF LeftStale
    <3>. QED  BY <1>1, <2>1, <3>2, EvictingEnds
  <2>. QED  BY <2>2, <2>3
<1>2. KeyInv /\ HeldIsKnown /\ [Next]_vars =>
        [\A k \in Key : LeftStale(k)' /\ ~LeftStale(k)
           => \E c \in Call : \/ <<c, k>> \in outdated /\ Resume(c)
                              \/ Evicting(c, k) /\ Fails(c)]_vars
  BY <1>1
<1>. QED  BY <1>2, Invariance, HeldInv, PTL DEF Spec, OnlyLateFillsAreStale
=============================================================================
