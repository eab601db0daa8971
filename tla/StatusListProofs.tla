--------------------------- MODULE StatusListProofs ---------------------------
(* Proofs about StatusList, for every value of its constants. *)
EXTENDS StatusList, TLAPS

-----------------------------------------------------------------------------
(* The fields of a call, by where it is.                                    *)

Getting == {"getCreate", "getInsert"}
Updating == {"updCreate", "updInsert", "updWrite", "updMark"}

LEMMA CallFields ==
  ASSUME NEW s \in CallState
  PROVE  /\ s.at \in {"idle"} \cup Getting \cup Updating
         /\ s.at \in Getting => s.issuer \in Issuer
         /\ s.at \in Updating => s.assertion \in Assertion /\ s.rev \in BOOLEAN
         /\ s.at = "updWrite" => s.bits \in SUBSET Index
<1>1. CASE s \in [at : {"idle"}]  BY <1>1 DEF Getting, Updating
<1>2. CASE s \in [at : {"getCreate", "getInsert"}, issuer : Issuer]
  BY <1>2 DEF Getting, Updating
<1>3. CASE s \in [at : {"updCreate", "updInsert", "updMark"}, assertion : Assertion,
                  rev : BOOLEAN]
  BY <1>3 DEF Getting, Updating
<1>4. CASE s \in [at : {"updWrite"}, assertion : Assertion, rev : BOOLEAN,
                  bits : SUBSET Index]
  BY <1>4 DEF Getting, Updating
<1>. QED  BY <1>1, <1>2, <1>3, <1>4 DEF CallState

LEMMA CallStates ==
  /\ Idle \in CallState
  /\ \A i \in Issuer, at \in Getting : [at |-> at, issuer |-> i] \in CallState
  /\ \A a \in Assertion, rev \in BOOLEAN, at \in {"updCreate", "updInsert", "updMark"} :
       [at |-> at, assertion |-> a, rev |-> rev] \in CallState
  /\ \A a \in Assertion, rev \in BOOLEAN, bits \in SUBSET Index :
       [at |-> "updWrite", assertion |-> a, rev |-> rev, bits |-> bits] \in CallState
BY DEF CallState, Idle, Getting

(* Changing a list that was read leaves a call that is about to write it.   *)
LEMMA ChangingType ==
  ASSUME NEW s, s.assertion \in Assertion, s.rev \in BOOLEAN, NEW bits \in SUBSET Index
  PROVE  /\ Changing(s, bits) \in CallState
         /\ Changing(s, bits).at = "updWrite"
         /\ Changing(s, bits).assertion = s.assertion
         /\ Changing(s, bits).rev = s.rev
         /\ Changing(s, bits).bits
              = updateCredentialStatus(bits, IndexOf[s.assertion], s.rev)
<1>1. updateCredentialStatus(bits, IndexOf[s.assertion], s.rev) \in SUBSET Index
  BY ConstantsAssumption DEF updateCredentialStatus
<1>. QED  BY <1>1, CallStates DEF Changing

LEMMA ListTypes ==
  /\ NewList \in List /\ NewList.bits = {}
  /\ \A bits \in SUBSET Index : Resigned(bits) \in List /\ Resigned(bits).bits = bits
BY DEF NewList, Resigned, List

(* Where a call stands moves to updInsert with the same change to make.     *)
LEMMA InsertNext ==
  ASSUME NEW s \in CallState, s.at = "updCreate"
  PROVE  [s EXCEPT !.at = "updInsert"]
           = [at |-> "updInsert", assertion |-> s.assertion, rev |-> s.rev]
<1>1. s \in [at : {"updCreate", "updInsert", "updMark"}, assertion : Assertion, rev : BOOLEAN]
  BY DEF CallState
<1>. QED  BY <1>1

-----------------------------------------------------------------------------
(* Type correctness *)

LEMMA CallUpdateType ==
  ASSUME call \in [Call -> CallState], NEW c \in Call, NEW s \in CallState,
         call' = [call EXCEPT ![c] = s]
  PROVE  call' \in [Call -> CallState]
OBVIOUS

LEMMA GettingType ==
  ASSUME TypeOK, NEW c \in Call,
         (\E i \in Issuer : getStatusList(c, i)) \/ GetSelects(c) \/ GetInserts(c)
  PROVE  TypeOK'
<1>1. ASSUME NEW i \in Issuer, getStatusList(c, i)  PROVE  TypeOK'
  <2>1. [at |-> "getCreate", issuer |-> i] \in CallState  BY CallStates DEF Getting
  <2>. QED  BY <1>1, <2>1, CallUpdateType DEF getStatusList, TypeOK
<1>2. CASE GetSelects(c)
  <2>1. call[c].issuer \in Issuer  BY <1>2, CallFields DEF GetSelects, TypeOK, Getting
  <2>2. [at |-> "getInsert", issuer |-> call[c].issuer] \in CallState
    BY <2>1, CallStates DEF Getting
  <2>3. call' \in [Call -> CallState]
    BY <1>2, <2>2, CallStates, CallUpdateType DEF GetSelects, TypeOK
  <2>4. overlapped' \subseteq Issuer  BY <1>2, <2>1 DEF GetSelects, Takes, TypeOK
  <2>. QED  BY <1>2, <2>3, <2>4 DEF GetSelects, TypeOK
<1>3. CASE GetInserts(c)
  <2>1. lists' \in [Issuer -> SUBSET List]  BY <1>3, ListTypes DEF GetInserts, TypeOK
  <2>. QED  BY <1>3, <2>1, CallStates, CallUpdateType DEF GetInserts, TypeOK
<1>. QED  BY <1>1, <1>2, <1>3

LEMMA UpdateBeginsType ==
  ASSUME TypeOK, NEW c \in Call, NEW a \in Assertion, NEW rev \in BOOLEAN,
         updateCredentialRevocationStatus(c, a, rev)
  PROVE  TypeOK'
<1>. DEFINE s == [at |-> "updCreate", assertion |-> a, rev |-> rev]
<1>1. s \in CallState  BY CallStates
<1>2. \A list \in lists[IssuerOf[a]] : list.bits \in SUBSET Index
  BY ConstantsAssumption DEF TypeOK, List
<1>3. \A list \in lists[IssuerOf[a]] : Changing(s, list.bits) \in CallState
  BY <1>2, ChangingType
<1>4. call' \in [Call -> CallState]
  BY <1>1, <1>3, CallUpdateType DEF updateCredentialRevocationStatus, TypeOK
<1>5. history' \in [Assertion -> SUBSET Event]
  BY DEF updateCredentialRevocationStatus, TypeOK, Event
<1>6. updates' \in 0 .. MaxUpdates
  BY ConstantsAssumption DEF updateCredentialRevocationStatus, TypeOK
<1>7. overlapped' \subseteq Issuer
  <2>1. UNCHANGED overlapped \/ Takes(c, IssuerOf[a])  BY DEF updateCredentialRevocationStatus
  <2>. QED  BY <2>1, ConstantsAssumption DEF Takes, TypeOK
<1>. QED  BY <1>4, <1>5, <1>6, <1>7 DEF updateCredentialRevocationStatus, TypeOK

LEMMA UpdateGoesOnType ==
  ASSUME TypeOK, NEW c \in Call,
         UpdateSelects(c) \/ UpdateInserts(c) \/ WriteList(c) \/ MarkAssertion(c)
  PROVE  TypeOK'
<1>. DEFINE s == call[c]
<1>0. s \in CallState /\ s.at \in Updating
  BY DEF TypeOK, UpdateSelects, UpdateInserts, WriteList, MarkAssertion, Updating
<1>1. s.assertion \in Assertion /\ s.rev \in BOOLEAN  BY <1>0, CallFields
<1>2. \A at \in {"updCreate", "updInsert", "updMark"} :
        [at |-> at, assertion |-> s.assertion, rev |-> s.rev] \in CallState
  BY <1>1, CallStates
<1>3. CASE UpdateSelects(c)
  <2>1. \A list \in lists[IssuerOf[s.assertion]] : list.bits \in SUBSET Index
    BY <1>1, ConstantsAssumption DEF TypeOK, List
  <2>2. \A list \in lists[IssuerOf[s.assertion]] : Changing(s, list.bits) \in CallState
    BY <1>1, <2>1, ChangingType
  <2>3. [s EXCEPT !.at = "updInsert"] \in CallState
    BY <1>0, <1>2, <1>3, InsertNext DEF UpdateSelects
  <2>4. call' \in [Call -> CallState]
    BY <1>3, <2>2, <2>3, CallUpdateType DEF UpdateSelects, TypeOK
  <2>5. overlapped' \subseteq Issuer
    BY <1>1, <1>3, ConstantsAssumption DEF UpdateSelects, Takes, TypeOK
  <2>. QED  BY <1>3, <2>4, <2>5 DEF UpdateSelects, TypeOK
<1>4. CASE UpdateInserts(c)
  <2>1. Changing(s, {}) \in CallState  BY <1>1, ChangingType
  <2>2. call' \in [Call -> CallState]
    BY <1>4, <2>1, CallUpdateType DEF UpdateInserts, TypeOK
  <2>3. lists' \in [Issuer -> SUBSET List]
    BY <1>4, ListTypes DEF UpdateInserts, TypeOK
  <2>. QED  BY <1>4, <2>2, <2>3 DEF UpdateInserts, TypeOK
<1>5. CASE WriteList(c)
  <2>1. s.at = "updWrite"  BY <1>5 DEF WriteList
  <2>2. Resigned(s.bits) \in List  BY <1>0, <2>1, CallFields, ListTypes
  <2>3. lists' \in [Issuer -> SUBSET List]  BY <1>5, <2>2 DEF WriteList, TypeOK
  <2>4. call' \in [Call -> CallState]
    BY <1>5, <1>2, CallUpdateType DEF WriteList, TypeOK
  <2>5. history' \in [Assertion -> SUBSET Event]
    BY <1>5 DEF WriteList, TypeOK, Event
  <2>. QED  BY <1>5, <2>3, <2>4, <2>5 DEF WriteList, TypeOK
<1>6. CASE MarkAssertion(c)
  <2>1. call' \in [Call -> CallState]
    BY <1>6, CallStates, CallUpdateType DEF MarkAssertion, TypeOK
  <2>2. revoked' \in [Assertion -> BOOLEAN]  BY <1>6, <1>1 DEF MarkAssertion, TypeOK
  <2>. QED  BY <1>6, <2>1, <2>2 DEF MarkAssertion, TypeOK
<1>. QED  BY <1>3, <1>4, <1>5, <1>6

LEMMA OtherType ==
  ASSUME TypeOK,
         \/ \E a \in Assertion : createAssertion(a) \/ revokeAssertion(a)
         \/ \E c \in Call : Fails(c)
         \/ Restart
  PROVE  TypeOK'
<1>1. ASSUME NEW a \in Assertion, createAssertion(a)  PROVE  TypeOK'
  BY <1>1 DEF createAssertion, TypeOK
<1>2. ASSUME NEW a \in Assertion, revokeAssertion(a)  PROVE  TypeOK'
  BY <1>2 DEF revokeAssertion, TypeOK, Event
<1>3. ASSUME NEW c \in Call, Fails(c)  PROVE  TypeOK'
  BY <1>3, CallStates, CallUpdateType DEF Fails, TypeOK
<1>4. CASE Restart  BY <1>4, CallStates DEF Restart, TypeOK
<1>. QED  BY <1>1, <1>2, <1>3, <1>4

LEMMA InitType == Init => TypeOK
BY ConstantsAssumption, CallStates DEF Init, TypeOK

(* Every variable keeps its type, whatever the calls in progress, the       *)
(* failures and the restarts.                                               *)
THEOREM TypeCorrect == Spec => []TypeOK
<1>1. TypeOK /\ [Next]_vars => TypeOK'
  <2>. SUFFICES ASSUME TypeOK, [Next]_vars  PROVE  TypeOK'
    OBVIOUS
  <2>1. CASE UNCHANGED vars  BY <2>1 DEF vars, TypeOK
  <2>2. CASE \E a \in Assertion : createAssertion(a) \/ revokeAssertion(a)
    BY <2>2, OtherType
  <2>3. CASE Restart  BY <2>3, OtherType
  <2>4. ASSUME NEW c \in Call, Step(c)  PROVE  TypeOK'
    BY <2>4, GettingType, UpdateBeginsType, UpdateGoesOnType, OtherType DEF Step
  <2>. QED  BY <2>1, <2>2, <2>3, <2>4 DEF Next
<1>. QED  BY <1>1, InitType, PTL DEF Spec

-----------------------------------------------------------------------------
(* What has happened is never forgotten.                                    *)

LEMMA HistoryGrows ==
  ASSUME TypeOK, [Next]_vars, NEW a \in Assertion
  PROVE  history[a] \subseteq history'[a]
<1>1. CASE UNCHANGED vars  BY <1>1 DEF vars
<1>2. ASSUME NEW b \in Assertion, createAssertion(b) \/ revokeAssertion(b)
      PROVE  history[a] \subseteq history'[a]
  BY <1>2 DEF createAssertion, revokeAssertion, TypeOK
<1>3. CASE Restart  BY <1>3 DEF Restart
<1>4. ASSUME NEW c \in Call, Step(c)  PROVE  history[a] \subseteq history'[a]
  <2>1. CASE \E b \in Assertion, rev \in BOOLEAN : updateCredentialRevocationStatus(c, b, rev)
    BY <2>1 DEF updateCredentialRevocationStatus, TypeOK
  <2>2. CASE WriteList(c)  BY <2>2 DEF WriteList, TypeOK
  <2>3. CASE ~ WriteList(c) /\ ~ \E b \in Assertion, rev \in BOOLEAN :
                                    updateCredentialRevocationStatus(c, b, rev)
    BY <1>4, <2>3 DEF Step, getStatusList, GetSelects, GetInserts, UpdateSelects,
                      UpdateInserts, MarkAssertion, Fails
  <2>. QED  BY <2>1, <2>2, <2>3
<1>. QED  BY <1>1, <1>2, <1>3, <1>4 DEF Next

-----------------------------------------------------------------------------
(* Nothing is listed that was not asked.  The bits that a call is about to  *)
(* write must have been asked for too, and so must its own change.          *)

AskedAt(i, n, h) ==
  \E a \in Assertion : IssuerOf[a] = i /\ IndexOf[a] = n /\ "asked" \in h[a]

CallAsked(s, h) ==
  /\ s.at \in Updating /\ s.rev => "asked" \in h[s.assertion]
  /\ s.at = "updWrite" => \A n \in s.bits : AskedAt(IssuerOf[s.assertion], n, h)

CallsAsked == \A c \in Call : CallAsked(call[c], history)

AskedInv == TypeOK /\ ListedWasAsked /\ CallsAsked

LEMMA AskedStays ==
  ASSUME TypeOK, [Next]_vars
  PROVE  /\ \A i, n : AskedAt(i, n, history) => AskedAt(i, n, history')
         /\ \A s \in CallState : CallAsked(s, history) => CallAsked(s, history')
<1>1. \A i, n : AskedAt(i, n, history) => AskedAt(i, n, history')
  BY HistoryGrows DEF AskedAt
<1>2. ASSUME NEW s \in CallState, CallAsked(s, history)  PROVE  CallAsked(s, history')
  <2>1. s.at \in Updating => s.assertion \in Assertion  BY CallFields
  <2>2. s.at \in Updating /\ s.rev => "asked" \in history'[s.assertion]
    BY <1>2, <2>1, HistoryGrows DEF CallAsked
  <2>3. s.at = "updWrite" => \A n \in s.bits : AskedAt(IssuerOf[s.assertion], n, history')
    BY <1>1, <1>2 DEF CallAsked
  <2>. QED  BY <2>2, <2>3 DEF CallAsked
<1>. QED  BY <1>1, <1>2

(* A call that changes a list in which every bit was asked for.             *)
LEMMA ChangingAsked ==
  ASSUME NEW h, NEW s, s.assertion \in Assertion, s.rev \in BOOLEAN,
         s.rev => "asked" \in h[s.assertion],
         NEW bits \in SUBSET Index,
         \A n \in bits : AskedAt(IssuerOf[s.assertion], n, h)
  PROVE  CallAsked(Changing(s, bits), h)
<1>. DEFINE t == Changing(s, bits)
<1>1. t.bits = IF s.rev THEN bits \cup {IndexOf[s.assertion]}
                        ELSE bits \ {IndexOf[s.assertion]}
  BY ChangingType DEF updateCredentialStatus
<1>2. s.rev => AskedAt(IssuerOf[s.assertion], IndexOf[s.assertion], h)  BY DEF AskedAt
<1>. HIDE DEF t
<1>3. \A n \in t.bits : AskedAt(IssuerOf[s.assertion], n, h)  BY <1>1, <1>2
<1>4. t.at = "updWrite" /\ t.assertion = s.assertion /\ t.rev = s.rev
  BY ChangingType DEF t
<1>5. CallAsked(t, h)  BY <1>3, <1>4 DEF CallAsked
<1>. QED  BY <1>5 DEF t

(* A step that replaces the state of one call.                              *)
LEMMA AskedCalls ==
  ASSUME TypeOK, CallsAsked, [Next]_vars, NEW c \in Call, NEW s,
         call' = [call EXCEPT ![c] = s], CallAsked(s, history')
  PROVE  CallsAsked'
<1>1. ASSUME NEW d \in Call  PROVE CallAsked(call'[d], history')
  <2>1. CASE d = c  BY <2>1 DEF TypeOK
  <2>2. CASE d # c
    <3>1. call'[d] = call[d]  BY <2>2 DEF TypeOK
    <3>2. call[d] \in CallState /\ CallAsked(call[d], history)
      BY DEF CallsAsked, TypeOK
    <3>. QED  BY <3>1, <3>2, AskedStays
  <2>. QED  BY <2>1, <2>2
<1>. QED  BY <1>1 DEF CallsAsked

(* A step that writes no list.                                              *)
LEMMA AskedLists ==
  ASSUME TypeOK, ListedWasAsked, [Next]_vars, UNCHANGED lists
  PROVE  ListedWasAsked'
<1>1. \A i \in Issuer : \A list \in lists[i] : \A n \in list.bits : AskedAt(i, n, history)
  BY DEF ListedWasAsked, AskedAt
<1>2. \A i \in Issuer : \A list \in lists'[i] : \A n \in list.bits : AskedAt(i, n, history')
  BY <1>1, AskedStays
<1>. QED  BY <1>2 DEF ListedWasAsked, AskedAt

LEMMA SameCallsAsked ==
  ASSUME TypeOK, CallsAsked, [Next]_vars, UNCHANGED call
  PROVE  CallsAsked'
<1>1. \A c \in Call : call[c] \in CallState /\ CallAsked(call[c], history)
  BY DEF TypeOK, CallsAsked
<1>. QED  BY <1>1, AskedStays DEF CallsAsked

(* A call that is not updating, or is done with its bits, asks for nothing  *)
(* new.                                                                     *)
LEMMA NothingAsked ==
  ASSUME NEW s, NEW h, s.at \notin Updating
  PROVE  CallAsked(s, h)
BY DEF CallAsked, Updating

LEMMA GettingAsked ==
  ASSUME AskedInv, [Next]_vars, NEW c \in Call,
         (\E i \in Issuer : getStatusList(c, i)) \/ GetSelects(c) \/ GetInserts(c)
  PROVE  ListedWasAsked' /\ CallsAsked'
<1>. DEFINE Harmless(s) == s.at \notin Updating
<1>0. /\ Harmless(Idle)
      /\ \A i, at : at \in Getting => Harmless([at |-> at, issuer |-> i])
  BY DEF Idle, Updating, Getting
<1>1. ASSUME NEW i \in Issuer, getStatusList(c, i)
      PROVE  ListedWasAsked' /\ CallsAsked'
  <2>1. CallAsked([at |-> "getCreate", issuer |-> i], history')
    BY <1>0, NothingAsked DEF Getting
  <2>. QED  BY <1>1, <2>1, AskedCalls, AskedLists DEF getStatusList, AskedInv
<1>2. CASE GetSelects(c)
  <2>1. \A i : CallAsked([at |-> "getInsert", issuer |-> i], history')
    BY <1>0, NothingAsked DEF Getting
  <2>2. CallAsked(Idle, history')  BY <1>0, NothingAsked
  <2>3. CallsAsked'  BY <1>2, <2>1, <2>2, AskedCalls DEF GetSelects, AskedInv
  <2>. QED  BY <1>2, <2>3, AskedLists DEF GetSelects, AskedInv
<1>3. CASE GetInserts(c)
  <2>1. CallAsked(Idle, history')  BY <1>0, NothingAsked
  <2>2. CallsAsked'  BY <1>3, <2>1, AskedCalls DEF GetInserts, AskedInv
  <2>3. \A i \in Issuer : lists'[i] \subseteq lists[i] \cup {NewList}
    BY <1>3 DEF GetInserts, AskedInv, TypeOK
  <2>4. ListedWasAsked'
    BY <1>3, <2>3, ListTypes DEF GetInserts, AskedInv, ListedWasAsked
  <2>. QED  BY <2>2, <2>4
<1>. QED  BY <1>1, <1>2, <1>3

(* What a list in the database holds, a call may take over.                 *)
LEMMA ListsAsked ==
  ASSUME AskedInv, [Next]_vars, NEW i \in Issuer, NEW list \in lists[i]
  PROVE  list.bits \in SUBSET Index /\ \A n \in list.bits : AskedAt(i, n, history')
<1>1. list.bits \in SUBSET Index  BY DEF AskedInv, TypeOK, List
<1>2. \A n \in list.bits : AskedAt(i, n, history)
  BY DEF AskedInv, ListedWasAsked, AskedAt
<1>. QED  BY <1>1, <1>2, AskedStays DEF AskedInv

LEMMA UpdateBeginsAsked ==
  ASSUME AskedInv, [Next]_vars, NEW c \in Call, NEW a \in Assertion, NEW rev \in BOOLEAN,
         updateCredentialRevocationStatus(c, a, rev)
  PROVE  ListedWasAsked' /\ CallsAsked'
<1>. DEFINE s == [at |-> "updCreate", assertion |-> a, rev |-> rev]
<1>1. s.assertion = a /\ s.rev = rev /\ IssuerOf[a] \in Issuer
  BY ConstantsAssumption
<1>2. rev => "asked" \in history'[a]
  BY DEF updateCredentialRevocationStatus, AskedInv, TypeOK
<1>3. CallAsked(s, history')  BY <1>2 DEF CallAsked
<1>. HIDE DEF s
<1>4. \A list \in lists[IssuerOf[a]] : CallAsked(Changing(s, list.bits), history')
  BY <1>1, <1>2, ListsAsked, ChangingAsked
<1>5. \/ call' = [call EXCEPT ![c] = s]
      \/ \E list \in lists[IssuerOf[a]] : call' = [call EXCEPT ![c] = Changing(s, list.bits)]
  BY DEF updateCredentialRevocationStatus, s
<1>6. CallsAsked'  BY <1>3, <1>4, <1>5, AskedCalls DEF AskedInv
<1>. QED  BY <1>6, AskedLists DEF updateCredentialRevocationStatus, AskedInv

LEMMA UpdateGoesOnAsked ==
  ASSUME AskedInv, [Next]_vars, NEW c \in Call,
         UpdateSelects(c) \/ UpdateInserts(c) \/ WriteList(c) \/ MarkAssertion(c)
  PROVE  ListedWasAsked' /\ CallsAsked'
<1>. DEFINE s == call[c]
            a == s.assertion
<1>0. s \in CallState /\ s.at \in Updating /\ CallAsked(s, history)
  BY DEF AskedInv, TypeOK, CallsAsked, UpdateSelects, UpdateInserts, WriteList,
         MarkAssertion, Updating
<1>1. a \in Assertion /\ s.rev \in BOOLEAN /\ IssuerOf[a] \in Issuer
  BY <1>0, CallFields, ConstantsAssumption
<1>2. CallAsked(s, history')  BY <1>0, AskedStays DEF AskedInv
<1>3. s.rev => "asked" \in history'[a]  BY <1>0, <1>2 DEF CallAsked
<1>4. \A at \in {"updInsert", "updMark"} :
        CallAsked([at |-> at, assertion |-> a, rev |-> s.rev], history')
  BY <1>3 DEF CallAsked
<1>5. CASE UpdateSelects(c)
  <2>1. CallAsked([s EXCEPT !.at = "updInsert"], history')
    BY <1>0, <1>4, <1>5, InsertNext DEF UpdateSelects
  <2>2. \A list \in lists[IssuerOf[a]] : CallAsked(Changing(s, list.bits), history')
    BY <1>1, <1>3, ListsAsked, ChangingAsked
  <2>3. CallsAsked'  BY <1>5, <2>1, <2>2, AskedCalls DEF UpdateSelects, AskedInv
  <2>. QED  BY <1>5, <2>3, AskedLists DEF UpdateSelects, AskedInv
<1>6. CASE UpdateInserts(c)
  <2>1. CallAsked(Changing(s, {}), history')  BY <1>1, <1>3, ChangingAsked
  <2>2. call' = [call EXCEPT ![c] = Changing(s, {})]
    BY <1>6 DEF UpdateInserts, AskedInv, TypeOK
  <2>3. CallsAsked'  BY <2>1, <2>2, AskedCalls DEF AskedInv
  <2>4. \A i \in Issuer : lists'[i] \subseteq lists[i] \cup {NewList}
    BY <1>6 DEF UpdateInserts, AskedInv, TypeOK
  <2>5. ListedWasAsked'
    BY <1>6, <2>4, ListTypes DEF UpdateInserts, AskedInv, ListedWasAsked
  <2>. QED  BY <2>3, <2>5
<1>7. CASE WriteList(c)
  <2>1. CallsAsked'  BY <1>4, <1>7, AskedCalls DEF WriteList, AskedInv
  <2>2. s.bits \in SUBSET Index /\ \A n \in s.bits : AskedAt(IssuerOf[a], n, history')
    BY <1>0, <1>2, <1>7, CallFields DEF WriteList, CallAsked
  <2>3. \A i \in Issuer : \A list \in lists'[i] :
          list \in lists[i] \/ (i = IssuerOf[a] /\ list.bits = s.bits)
    BY <1>7, <2>2, ListTypes DEF WriteList, AskedInv, TypeOK
  <2>4. \A i \in Issuer : \A list \in lists'[i] : \A n \in list.bits : AskedAt(i, n, history')
    BY <2>2, <2>3, ListsAsked
  <2>5. ListedWasAsked'  BY <2>4 DEF ListedWasAsked, AskedAt
  <2>. QED  BY <2>1, <2>5
<1>8. CASE MarkAssertion(c)
  <2>1. CallAsked(Idle, history')  BY NothingAsked DEF Idle, Updating
  <2>. QED  BY <1>8, <2>1, AskedCalls, AskedLists DEF MarkAssertion, AskedInv
<1>. QED  BY <1>5, <1>6, <1>7, <1>8

(* A position of a status list is set only for a credential whose           *)
(* revocation was asked for, however updates interleave or fail.            *)
THEOREM NothingElseIsSet == Spec => []ListedWasAsked
<1>1. Init => AskedInv
  <2>1. Init => ListedWasAsked  BY DEF Init, ListedWasAsked
  <2>2. Init => CallsAsked  BY NothingAsked DEF Init, CallsAsked, Idle, Updating
  <2>. QED  BY <2>1, <2>2, InitType DEF AskedInv
<1>2. AskedInv /\ TypeOK' /\ [Next]_vars => AskedInv'
  <2>. SUFFICES ASSUME AskedInv, TypeOK', [Next]_vars
                PROVE  ListedWasAsked' /\ CallsAsked'
    BY DEF AskedInv
  <2>1. CASE UNCHANGED vars
    BY <2>1, AskedLists, SameCallsAsked DEF vars, AskedInv
  <2>2. CASE \E a \in Assertion : createAssertion(a) \/ revokeAssertion(a)
    BY <2>2, AskedLists, SameCallsAsked DEF createAssertion, revokeAssertion, AskedInv
  <2>3. CASE Restart
    <3>1. CallsAsked'  BY <2>3, NothingAsked DEF Restart, CallsAsked, Idle, Updating
    <3>. QED  BY <2>3, <3>1, AskedLists DEF Restart, AskedInv
  <2>4. ASSUME NEW c \in Call, Step(c)  PROVE  ListedWasAsked' /\ CallsAsked'
    <3>1. CASE Fails(c)
      <4>1. CallAsked(Idle, history')  BY NothingAsked DEF Idle, Updating
      <4>. QED  BY <3>1, <4>1, AskedCalls, AskedLists DEF Fails, AskedInv
    <3>. QED  BY <2>4, <3>1, GettingAsked, UpdateBeginsAsked, UpdateGoesOnAsked DEF Step
  <2>. QED  BY <2>1, <2>2, <2>3, <2>4 DEF Next
<1>3. AskedInv => ListedWasAsked  BY DEF AskedInv
<1>. QED  BY <1>1, <1>2, <1>3, TypeCorrect, PTL DEF Spec

-----------------------------------------------------------------------------
(* The column follows the list: a call that is about to mark the assertion  *)
(* has published the list.                                                  *)

Marked(s, h) == s.at = "updMark" /\ s.rev => "published" \in h[s.assertion]

MarksPublished == \A c \in Call : Marked(call[c], history)

LEMMA ColumnStays ==
  ASSUME TypeOK, ColumnFollowsList, [Next]_vars, UNCHANGED revoked
  PROVE  ColumnFollowsList'
BY HistoryGrows DEF ColumnFollowsList, checkCredentialRevocationStatus

(* A step that replaces the state of at most one call.                      *)
LEMMA MarkedCalls ==
  ASSUME TypeOK, MarksPublished, [Next]_vars, NEW c \in Call,
         \A d \in Call \ {c} : call'[d] = call[d],
         Marked(call'[c], history')
  PROVE  MarksPublished'
<1>1. ASSUME NEW d \in Call, d # c  PROVE Marked(call'[d], history')
  <2>1. call'[d] = call[d] /\ call[d] \in CallState /\ Marked(call[d], history)
    BY <1>1 DEF TypeOK, MarksPublished
  <2>2. call[d].at = "updMark" => call[d].assertion \in Assertion
    BY <2>1, CallFields DEF Updating
  <2>. QED  BY <2>1, <2>2, HistoryGrows DEF Marked
<1>. QED  BY <1>1 DEF MarksPublished

(* The steps of a call that neither begin nor end at updMark.               *)
LEMMA UnmarkedSteps ==
  ASSUME TypeOK, NEW c \in Call, Step(c), ~ WriteList(c), ~ MarkAssertion(c)
  PROVE  /\ UNCHANGED revoked
         /\ \A d \in Call \ {c} : call'[d] = call[d]
         /\ call'[c].at # "updMark"
<1>1. call[c] \in CallState  BY DEF TypeOK
<1>2. ASSUME NEW s, NEW bits  PROVE Changing(s, bits).at = "updWrite"
  BY DEF Changing
<1>3. Idle.at = "idle"  BY DEF Idle
<1>4. ASSUME NEW i \in Issuer, getStatusList(c, i)
      PROVE  UNCHANGED revoked /\ (\A d \in Call \ {c} : call'[d] = call[d])
             /\ call'[c].at # "updMark"
  BY <1>4 DEF getStatusList, TypeOK
<1>5. CASE GetSelects(c)  BY <1>3, <1>5 DEF GetSelects, TypeOK
<1>6. CASE GetInserts(c)  BY <1>3, <1>6 DEF GetInserts, TypeOK
<1>7. ASSUME NEW a \in Assertion, NEW rev \in BOOLEAN,
             updateCredentialRevocationStatus(c, a, rev)
      PROVE  UNCHANGED revoked /\ (\A d \in Call \ {c} : call'[d] = call[d])
             /\ call'[c].at # "updMark"
  BY <1>2, <1>7 DEF updateCredentialRevocationStatus, TypeOK
<1>8. CASE UpdateSelects(c)
  <2>1. call' = [call EXCEPT ![c] = [at |-> "updInsert", assertion |-> call[c].assertion,
                                     rev |-> call[c].rev]]
        \/ \E list \in lists[IssuerOf[call[c].assertion]] :
              call' = [call EXCEPT ![c] = Changing(call[c], list.bits)]
    BY <1>1, <1>8, InsertNext DEF UpdateSelects
  <2>. QED  BY <1>2, <1>8, <2>1 DEF UpdateSelects, TypeOK
<1>9. CASE UpdateInserts(c)  BY <1>2, <1>9 DEF UpdateInserts, TypeOK
<1>10. CASE Fails(c)  BY <1>3, <1>10 DEF Fails, TypeOK
<1>. QED  BY <1>4, <1>5, <1>6, <1>7, <1>8, <1>9, <1>10 DEF Step

(* A reader of the revoked column never sees a revocation that neither the  *)
(* API route made nor a written list published.                             *)
THEOREM ColumnIsBehindList == Spec => []ColumnFollowsList
<1>. DEFINE Inv == ColumnFollowsList /\ MarksPublished
<1>1. Init => Inv
  BY DEF Init, ColumnFollowsList, checkCredentialRevocationStatus, MarksPublished, Marked, Idle
<1>2. TypeOK /\ Inv /\ [Next]_vars => Inv'
  <2>. SUFFICES ASSUME TypeOK, Inv, [Next]_vars  PROVE  Inv'
    OBVIOUS
  <2>1. CASE UNCHANGED vars
    BY <2>1 DEF vars, ColumnFollowsList, checkCredentialRevocationStatus, MarksPublished
  <2>2. ASSUME NEW a \in Assertion, createAssertion(a)  PROVE  Inv'
    BY <2>2 DEF createAssertion, ColumnFollowsList, checkCredentialRevocationStatus, MarksPublished
  <2>3. ASSUME NEW a \in Assertion, revokeAssertion(a)  PROVE  Inv'
    <3>1. ColumnFollowsList'  BY <2>3, HistoryGrows DEF revokeAssertion, ColumnFollowsList, checkCredentialRevocationStatus, TypeOK
    <3>2. CASE Call = {}  BY <3>1, <3>2 DEF MarksPublished
    <3>3. ASSUME NEW c \in Call  PROVE  MarksPublished'
      <4>1. Marked(call[c], history)  BY DEF MarksPublished
      <4>2. call[c].at = "updMark" => call[c].assertion \in Assertion
        BY CallFields DEF Updating, TypeOK
      <4>3. Marked(call[c], history')  BY <4>1, <4>2, HistoryGrows DEF Marked
      <4>. QED  BY <2>3, <4>3, MarkedCalls DEF revokeAssertion
    <3>. QED  BY <3>1, <3>2, <3>3
  <2>4. CASE Restart
    BY <2>4 DEF Restart, ColumnFollowsList, checkCredentialRevocationStatus, MarksPublished, Marked, Idle
  <2>5. ASSUME NEW c \in Call, Step(c)  PROVE  Inv'
    <3>1. CASE WriteList(c)
      <4>1. call[c].at = "updWrite" /\ call[c] \in CallState  BY <3>1 DEF WriteList, TypeOK
      <4>2. call[c].assertion \in Assertion  BY <4>1, CallFields DEF Updating
      <4>3. Marked(call'[c], history')
        BY <3>1, <4>2 DEF WriteList, TypeOK, Marked
      <4>4. \A d \in Call \ {c} : call'[d] = call[d]  BY <3>1 DEF WriteList, TypeOK
      <4>. QED  BY <3>1, <4>3, <4>4, MarkedCalls, ColumnStays DEF WriteList
    <3>2. CASE MarkAssertion(c)
      <4>1. Marked(call[c], history)  BY DEF MarksPublished
      <4>2. \A a \in Assertion : revoked'[a] =>
              revoked[a] \/ (a = call[c].assertion /\ call[c].rev)
        BY <3>2 DEF MarkAssertion, TypeOK
      <4>3. ColumnFollowsList'
        BY <3>2, <4>1, <4>2, HistoryGrows DEF ColumnFollowsList, checkCredentialRevocationStatus, MarkAssertion, Marked
      <4>4. Marked(call'[c], history')
        BY <3>2 DEF MarkAssertion, TypeOK, Marked, Idle
      <4>5. \A d \in Call \ {c} : call'[d] = call[d]  BY <3>2 DEF MarkAssertion, TypeOK
      <4>. QED  BY <4>3, <4>4, <4>5, MarkedCalls
    <3>3. CASE ~ WriteList(c) /\ ~ MarkAssertion(c)
      <4>1. Marked(call'[c], history')  BY <2>5, <3>3, UnmarkedSteps DEF Marked
      <4>. QED  BY <2>5, <3>3, <4>1, UnmarkedSteps, MarkedCalls, ColumnStays
    <3>. QED  BY <3>1, <3>2, <3>3
  <2>. QED  BY <2>1, <2>2, <2>3, <2>4, <2>5 DEF Next
<1>3. Inv => ColumnFollowsList  OBVIOUS
<1>. QED  BY <1>1, <1>2, <1>3, TypeCorrect, PTL DEF Spec

(* Nobody is told "revoked" unless a revocation was asked for, of the       *)
(* credential or of one that shares its position.                           *)
THEOREM NothingElseIsListed == Spec => []OnlyAskedIsListed
<1>1. TypeOK /\ ListedWasAsked /\ ColumnFollowsList => OnlyAskedIsListed
  <2>. SUFFICES ASSUME TypeOK, ListedWasAsked, ColumnFollowsList,
                       NEW a \in Assertion, TRUE \in Answers(a)
                PROVE  \E b \in Assertion :
                         /\ IssuerOf[b] = IssuerOf[a] /\ IndexOf[b] = IndexOf[a]
                         /\ history[b] \cap {"asked", "published", "revokedByApi"} # {}
    BY DEF OnlyAskedIsListed
  <2>1. CASE lists[IssuerOf[a]] = {}
    <3>1. revoked[a] = TRUE  BY <2>1 DEF Answers
    <3>. QED  BY <3>1 DEF ColumnFollowsList, checkCredentialRevocationStatus
  <2>2. CASE lists[IssuerOf[a]] # {}
    <3>1. PICK list \in lists[IssuerOf[a]] : IndexOf[a] \in list.bits  BY <2>2 DEF Answers
    <3>. QED  BY <3>1, ConstantsAssumption DEF ListedWasAsked
  <2>. QED  BY <2>1, <2>2
<1>. QED  BY <1>1, TypeCorrect, NothingElseIsSet, ColumnIsBehindList, PTL

-----------------------------------------------------------------------------
(* The rest is about issuers whose list no two handlers have had in hand at *)
(* once; what handlers of other issuers do meanwhile makes no difference.   *)
(* Where two overlap, a published revocation can be lost: the second write  *)
(* restores the bits that were read before the first.                       *)

LEMMA OverlapGrows ==
  ASSUME [Next]_vars
  PROVE  overlapped \subseteq overlapped'
BY DEF Next, vars, createAssertion, revokeAssertion, Restart, Step, getStatusList, GetSelects,
       GetInserts, updateCredentialRevocationStatus, UpdateSelects, UpdateInserts, WriteList,
       MarkAssertion, Fails, Takes

(* The inductive invariant.  Such a list is in one hand at a time, what the *)
(* handler has read is what the database still holds, and a list that was   *)
(* published exists.                                                        *)
InHand(s, ls, h, ov) ==
  /\ s.at = "getInsert" /\ s.issuer \notin ov => ls[s.issuer] = {}
  /\ s.at = "updInsert" /\ IssuerOf[s.assertion] \notin ov => ls[IssuerOf[s.assertion]] = {}
  /\ s.at = "updWrite" /\ IssuerOf[s.assertion] \notin ov =>
       /\ ls[IssuerOf[s.assertion]] # {}
       /\ \A list \in ls[IssuerOf[s.assertion]] :
            s.bits = updateCredentialStatus(list.bits, IndexOf[s.assertion], s.rev)
  /\ s.at \in Updating /\ ~ s.rev => "reinstated" \in h[s.assertion]

CallsInHand == \A c \in Call : InHand(call[c], lists, history, overlapped)

OneHolder ==
  \A i \in Issuer \ overlapped : \A c, d \in Call : Holds(c, i) /\ Holds(d, i) => c = d

PublishedExists ==
  \A a \in Assertion :
    "published" \in history[a] /\ IssuerOf[a] \notin overlapped => lists[IssuerOf[a]] # {}

QuietInv ==
  /\ TypeOK
  /\ OneHolder
  /\ CallsInHand
  /\ OneListPerIssuer
  /\ PublishedExists
  /\ PublishedStaysListed

LEMMA InitQuiet == Init => QuietInv
BY InitType DEF Init, QuietInv, OneHolder, Holds, OneListPerIssuer, CallsInHand, InHand, Idle,
                Updating, PublishedExists, PublishedStaysListed

(* A step that changes no list keeps what is said of the lists, provided    *)
(* that nothing is published by it.                                         *)
LEMMA SameLists ==
  ASSUME QuietInv, [Next]_vars, UNCHANGED lists,
         \A a \in Assertion : "published" \in history'[a] => "published" \in history[a]
  PROVE  OneListPerIssuer' /\ PublishedExists' /\ PublishedStaysListed'
<1>1. TypeOK  BY DEF QuietInv
<1>2. OneListPerIssuer'  BY OverlapGrows DEF QuietInv, OneListPerIssuer
<1>3. PublishedExists'  BY OverlapGrows DEF QuietInv, PublishedExists
<1>4. PublishedStaysListed'
  BY <1>1, HistoryGrows, OverlapGrows DEF QuietInv, PublishedStaysListed, SamePosition
<1>. QED  BY <1>2, <1>3, <1>4

(* A step of one call, which writes at most the list that it holds: it does *)
(* not disturb the others.                                                  *)
LEMMA OneCallMoves ==
  ASSUME QuietInv, [Next]_vars, NEW c \in Call, NEW i \in Issuer,
         \A d \in Call \ {c} : call'[d] = call[d],
         \A j \in Issuer \ {i} : lists'[j] = lists[j],
         lists' = lists \/ Holds(c, i),
         InHand(call'[c], lists', history', overlapped'),
         \A j \in Issuer \ overlapped' :
           Holds(c, j)' => Holds(c, j) \/ \A d \in Call \ {c} : ~ Holds(d, j)
  PROVE  CallsInHand' /\ OneHolder'
<1>1. ASSUME NEW d \in Call \ {c}  PROVE  InHand(call[d], lists', history', overlapped')
  <2>. DEFINE s == call[d]
  <2>1. /\ s \in CallState /\ InHand(s, lists, history, overlapped)
        /\ s.at \in Updating => s.assertion \in Assertion /\ IssuerOf[s.assertion] \in Issuer
        /\ s.at \in Getting => s.issuer \in Issuer
    BY CallFields, ConstantsAssumption DEF QuietInv, TypeOK, CallsInHand
  <2>2. \A j \in Issuer \ overlapped' : Holds(d, j) => lists'[j] = lists[j]
    BY OverlapGrows DEF QuietInv, OneHolder
  <2>3. /\ s.at = "getInsert" => Holds(d, s.issuer)
        /\ s.at \in {"updInsert", "updWrite"} => Holds(d, IssuerOf[s.assertion])
    BY DEF Holds
  <2>4. s.at \in Updating /\ ~ s.rev => "reinstated" \in history'[s.assertion]
    BY <2>1, HistoryGrows DEF InHand, QuietInv
  <2>5. s.at = "getInsert" /\ s.issuer \notin overlapped' => lists'[s.issuer] = {}
    BY <2>1, <2>2, <2>3, OverlapGrows DEF InHand, Getting
  <2>6. s.at \in {"updInsert", "updWrite"} /\ IssuerOf[s.assertion] \notin overlapped' =>
          /\ lists'[IssuerOf[s.assertion]] = lists[IssuerOf[s.assertion]]
          /\ IssuerOf[s.assertion] \notin overlapped
    BY <2>1, <2>2, <2>3, OverlapGrows DEF Updating
  <2>. HIDE DEF s
  <2>7. InHand(s, lists', history', overlapped')
    BY <2>1, <2>4, <2>5, <2>6 DEF InHand
  <2>. QED  BY <2>7 DEF s
<1>2. CallsInHand'  BY <1>1 DEF CallsInHand
<1>3. ASSUME NEW j \in Issuer \ overlapped', NEW d \in Call \ {c}, NEW e \in Call,
             Holds(d, j)', Holds(e, j)'
      PROVE  d = e
  <2>1. j \in Issuer \ overlapped  BY OverlapGrows
  <2>2. Holds(d, j)  BY <1>3 DEF Holds
  <2>3. CASE e = c
    BY <1>3, <2>1, <2>2, <2>3 DEF QuietInv, OneHolder
  <2>4. CASE e # c
    <3>1. Holds(e, j)  BY <1>3, <2>4 DEF Holds
    <3>. QED  BY <2>1, <2>2, <3>1 DEF QuietInv, OneHolder
  <2>. QED  BY <2>3, <2>4
<1>4. OneHolder'
  <2>. SUFFICES ASSUME NEW j \in Issuer \ overlapped', NEW d \in Call, NEW e \in Call,
                       Holds(d, j)', Holds(e, j)'
                PROVE  d = e
    BY DEF OneHolder
  <2>1. CASE d # c  BY <1>3, <2>1
  <2>2. CASE e # c  BY <1>3, <2>2
  <2>. QED  BY <2>1, <2>2
<1>. QED  BY <1>2, <1>4

(* A change made to a list that was read: it is in hand if the lists of the *)
(* issuer do not differ.                                                    *)
LEMMA ChangingInHand ==
  ASSUME NEW ls, NEW h, NEW ov, NEW s, s.assertion \in Assertion, s.rev \in BOOLEAN,
         ~ s.rev => "reinstated" \in h[s.assertion],
         NEW list \in ls[IssuerOf[s.assertion]], list.bits \in SUBSET Index,
         IssuerOf[s.assertion] \notin ov => \A l, m \in ls[IssuerOf[s.assertion]] : l = m
  PROVE  InHand(Changing(s, list.bits), ls, h, ov)
<1>. DEFINE t == Changing(s, list.bits)
<1>1. /\ t.at = "updWrite" /\ t.assertion = s.assertion /\ t.rev = s.rev
      /\ t.bits = updateCredentialStatus(list.bits, IndexOf[s.assertion], s.rev)
  BY ChangingType
<1>2. IssuerOf[s.assertion] \notin ov => \A l \in ls[IssuerOf[s.assertion]] : l = list
  OBVIOUS
<1>. HIDE DEF t
<1>3. InHand(t, ls, h, ov)  BY <1>1, <1>2 DEF InHand
<1>. QED  BY <1>3 DEF t

(* A new list for an issuer that has none, or that handlers contend for.    *)
LEMMA NewListQuiet ==
  ASSUME QuietInv, NEW i \in Issuer, i \notin overlapped => lists[i] = {},
         lists' = [lists EXCEPT ![i] = @ \cup {NewList}], UNCHANGED <<history, overlapped>>
  PROVE  OneListPerIssuer' /\ PublishedExists' /\ PublishedStaysListed'
<1>1. /\ lists'[i] = lists[i] \cup {NewList}
      /\ \A j \in Issuer \ {i} : lists'[j] = lists[j]
  BY DEF QuietInv, TypeOK
<1>2. OneListPerIssuer'
  <2>. SUFFICES ASSUME NEW j \in Issuer \ overlapped, NEW l \in lists'[j], NEW m \in lists'[j]
                PROVE  l = m
    BY DEF OneListPerIssuer
  <2>. QED  BY <1>1 DEF QuietInv, OneListPerIssuer
<1>3. \A a \in Assertion : "published" \in history[a] /\ IssuerOf[a] \notin overlapped =>
        IssuerOf[a] \in Issuer \ {i}
  BY ConstantsAssumption DEF QuietInv, PublishedExists
<1>4. PublishedExists'  BY <1>1, <1>3 DEF QuietInv, PublishedExists
<1>5. PublishedStaysListed'
  BY <1>1, <1>3 DEF QuietInv, PublishedStaysListed, SamePosition
<1>. QED  BY <1>2, <1>4, <1>5

LEMMA GettingQuiet ==
  ASSUME QuietInv, [Next]_vars, NEW c \in Call,
         (\E i \in Issuer : getStatusList(c, i)) \/ GetSelects(c) \/ GetInserts(c)
  PROVE  QuietInv'
<1>. DEFINE Lists == OneListPerIssuer /\ PublishedExists /\ PublishedStaysListed
<1>0. TypeOK' /\ TypeOK  BY GettingType DEF QuietInv
<1>1. ASSUME NEW i \in Issuer, getStatusList(c, i)  PROVE  QuietInv'
  <2>1. call'[c] = [at |-> "getCreate", issuer |-> i] /\ \A d \in Call \ {c} : call'[d] = call[d]
    BY <1>0, <1>1 DEF getStatusList, TypeOK
  <2>2. InHand(call'[c], lists', history', overlapped')
    BY <2>1 DEF InHand, Updating
  <2>3. \A j \in Issuer : ~ Holds(c, j)'  BY <2>1 DEF Holds
  <2>4. UNCHANGED lists /\ UNCHANGED history  BY <1>1 DEF getStatusList
  <2>5. CallsInHand' /\ OneHolder'  BY <2>1, <2>2, <2>3, <2>4, OneCallMoves
  <2>6. Lists'  BY <2>4, SameLists
  <2>. QED  BY <1>0, <2>5, <2>6 DEF QuietInv
<1>2. CASE GetSelects(c)
  <2>. DEFINE i == call[c].issuer
  <2>1. /\ call'[c] = IF lists[i] = {} THEN [at |-> "getInsert", issuer |-> i] ELSE Idle
        /\ \A d \in Call \ {c} : call'[d] = call[d]
    BY <1>0, <1>2 DEF GetSelects, TypeOK
  <2>2. i \in Issuer  BY <1>0, <1>2, CallFields DEF GetSelects, TypeOK, Getting
  <2>3. UNCHANGED lists /\ UNCHANGED history  BY <1>2 DEF GetSelects
  <2>4. InHand(call'[c], lists', history', overlapped')
    BY <2>1, <2>3 DEF InHand, Idle, Updating
  <2>5. \A j \in Issuer \ overlapped' : Holds(c, j)' => \A d \in Call \ {c} : ~ Holds(d, j)
    BY <1>2, <2>1 DEF Holds, GetSelects, Takes, Idle
  <2>6. CallsInHand' /\ OneHolder'  BY <2>1, <2>2, <2>3, <2>4, <2>5, OneCallMoves
  <2>7. Lists'  BY <2>3, SameLists
  <2>. QED  BY <1>0, <2>6, <2>7 DEF QuietInv
<1>3. CASE GetInserts(c)
  <2>. DEFINE i == call[c].issuer
  <2>1. i \in Issuer  BY <1>0, <1>3, CallFields DEF GetInserts, TypeOK, Getting
  <2>2. i \notin overlapped => lists[i] = {}
    BY <1>3 DEF GetInserts, QuietInv, CallsInHand, InHand
  <2>3. Lists'  BY <1>3, <2>1, <2>2, NewListQuiet DEF GetInserts
  <2>4. call'[c] = Idle /\ \A d \in Call \ {c} : call'[d] = call[d]
    BY <1>0, <1>3 DEF GetInserts, TypeOK
  <2>5. InHand(call'[c], lists', history', overlapped')  BY <2>4 DEF InHand, Idle, Updating
  <2>6. \A j \in Issuer : ~ Holds(c, j)'  BY <2>4 DEF Holds, Idle
  <2>7. Holds(c, i) /\ \A j \in Issuer \ {i} : lists'[j] = lists[j]
    BY <1>0, <1>3, <2>1 DEF Holds, GetInserts, TypeOK
  <2>8. CallsInHand' /\ OneHolder'  BY <2>1, <2>4, <2>5, <2>6, <2>7, OneCallMoves
  <2>. QED  BY <1>0, <2>3, <2>8 DEF QuietInv
<1>. QED  BY <1>1, <1>2, <1>3

LEMMA ListBits ==
  ASSUME TypeOK, NEW i \in Issuer, NEW list \in lists[i]
  PROVE  list.bits \in SUBSET Index
BY DEF TypeOK, List

LEMMA UpdateBeginsQuiet ==
  ASSUME QuietInv, [Next]_vars, NEW c \in Call,
         NEW a \in Assertion, NEW rev \in BOOLEAN,
         updateCredentialRevocationStatus(c, a, rev)
  PROVE  QuietInv'
<1>. DEFINE s == [at |-> "updCreate", assertion |-> a, rev |-> rev]
            i == IssuerOf[a]
<1>0. TypeOK' /\ TypeOK  BY UpdateBeginsType DEF QuietInv
<1>1. s.at = "updCreate" /\ s.assertion = a /\ s.rev = rev /\ i \in Issuer
  BY ConstantsAssumption
<1>2. ~ rev => "reinstated" \in history'[a]
  BY <1>0 DEF updateCredentialRevocationStatus, TypeOK
<1>3. /\ \/ call'[c] = s
         \/ Takes(c, i) /\ \E list \in lists[i] : call'[c] = Changing(s, list.bits)
      /\ \A d \in Call \ {c} : call'[d] = call[d]
  BY <1>0 DEF updateCredentialRevocationStatus, TypeOK
<1>4. UNCHANGED lists  BY DEF updateCredentialRevocationStatus
<1>. HIDE DEF s
<1>5. InHand(s, lists, history', overlapped')  BY <1>1, <1>2 DEF InHand
<1>6. i \notin overlapped' => \A l, m \in lists[i] : l = m
  BY <1>1, OverlapGrows DEF QuietInv, OneListPerIssuer
<1>7. \A list \in lists[i] : InHand(Changing(s, list.bits), lists, history', overlapped')
  BY <1>0, <1>1, <1>2, <1>6, ListBits, ChangingInHand
<1>8. InHand(call'[c], lists', history', overlapped')  BY <1>3, <1>4, <1>5, <1>7
<1>9. \/ call'[c].at = "updCreate"
      \/ call'[c].at = "updWrite" /\ call'[c].assertion = a /\ Takes(c, i)
  BY <1>0, <1>1, <1>3, ListBits, ChangingType
<1>10. \A j \in Issuer \ overlapped' : Holds(c, j)' => \A d \in Call \ {c} : ~ Holds(d, j)
  BY <1>9 DEF Holds, Takes
<1>11. CallsInHand' /\ OneHolder'  BY <1>1, <1>3, <1>4, <1>8, <1>10, OneCallMoves
<1>12. \A b \in Assertion : "published" \in history'[b] => "published" \in history[b]
  BY <1>0 DEF updateCredentialRevocationStatus, TypeOK
<1>. QED  BY <1>0, <1>4, <1>11, <1>12, SameLists DEF QuietInv

(* What a call that is updating knows about itself.                         *)
LEMMA UpdatingQuiet ==
  ASSUME QuietInv, NEW c \in Call, call[c].at \in Updating
  PROVE  /\ call[c] \in CallState
         /\ call[c].assertion \in Assertion
         /\ call[c].rev \in BOOLEAN
         /\ IssuerOf[call[c].assertion] \in Issuer
         /\ InHand(call[c], lists, history, overlapped)
         /\ ~ call[c].rev => "reinstated" \in history[call[c].assertion]
<1>1. call[c] \in CallState /\ InHand(call[c], lists, history, overlapped)
  BY DEF QuietInv, TypeOK, CallsInHand
<1>. QED  BY <1>1, CallFields, ConstantsAssumption DEF InHand

LEMMA UpdateSelectsQuiet ==
  ASSUME QuietInv, [Next]_vars, NEW c \in Call, UpdateSelects(c)
  PROVE  QuietInv'
<1>. DEFINE s == call[c]
            i == IssuerOf[s.assertion]
            t == [at |-> "updInsert", assertion |-> s.assertion, rev |-> s.rev]
<1>0. TypeOK' /\ TypeOK  BY UpdateGoesOnType DEF QuietInv
<1>1. s.at = "updCreate" /\ UNCHANGED <<lists, history>> /\ Takes(c, i)  BY DEF UpdateSelects
<1>2. /\ s \in CallState /\ s.assertion \in Assertion /\ s.rev \in BOOLEAN /\ i \in Issuer
      /\ ~ s.rev => "reinstated" \in history[s.assertion]
  BY <1>1, UpdatingQuiet DEF Updating
<1>3. \/ lists[i] = {} /\ call' = [call EXCEPT ![c] = t]
      \/ \E list \in lists[i] : call' = [call EXCEPT ![c] = Changing(s, list.bits)]
  BY <1>1, <1>2, InsertNext DEF UpdateSelects
<1>4. lists[i] = {} => InHand(t, lists, history, overlapped')  BY <1>2 DEF InHand
<1>5. \A list \in lists[i] : InHand(Changing(s, list.bits), lists, history, overlapped')
  BY <1>0, <1>2, ListBits, ChangingInHand, OverlapGrows DEF QuietInv, OneListPerIssuer
<1>6. /\ t.at = "updInsert" /\ t.assertion = s.assertion
      /\ \A list \in lists[i] : /\ Changing(s, list.bits).at = "updWrite"
                                /\ Changing(s, list.bits).assertion = s.assertion
  BY <1>0, <1>2, ListBits, ChangingType
<1>. HIDE DEF t
<1>7. InHand(call'[c], lists, history, overlapped')  BY <1>0, <1>3, <1>4, <1>5 DEF TypeOK
<1>8. call'[c].at \in {"updInsert", "updWrite"} /\ call'[c].assertion = s.assertion
  BY <1>0, <1>3, <1>6 DEF TypeOK
<1>9. \A d \in Call \ {c} : call'[d] = call[d]  BY <1>0, <1>3 DEF TypeOK
<1>10. \A j \in Issuer \ overlapped' : Holds(c, j)' => \A d \in Call \ {c} : ~ Holds(d, j)
  BY <1>1, <1>8 DEF Holds, Takes
<1>11. CallsInHand' /\ OneHolder'  BY <1>1, <1>2, <1>7, <1>9, <1>10, OneCallMoves
<1>. QED  BY <1>0, <1>1, <1>11, SameLists DEF QuietInv

LEMMA UpdateInsertsQuiet ==
  ASSUME QuietInv, [Next]_vars, NEW c \in Call, UpdateInserts(c)
  PROVE  QuietInv'
<1>. DEFINE s == call[c]
            i == IssuerOf[s.assertion]
<1>0. TypeOK' /\ TypeOK  BY UpdateGoesOnType DEF QuietInv
<1>1. /\ s.at = "updInsert" /\ UNCHANGED <<history, overlapped>>
      /\ lists' = [lists EXCEPT ![i] = @ \cup {NewList}]
      /\ call' = [call EXCEPT ![c] = Changing(s, {})]
  BY <1>0 DEF UpdateInserts, TypeOK
<1>2. /\ s.assertion \in Assertion /\ s.rev \in BOOLEAN /\ i \in Issuer
      /\ ~ s.rev => "reinstated" \in history[s.assertion]
      /\ InHand(s, lists, history, overlapped)
  BY <1>1, UpdatingQuiet DEF Updating
<1>3. i \notin overlapped => lists[i] = {}  BY <1>1, <1>2 DEF InHand
<1>4. lists'[i] = lists[i] \cup {NewList} /\ \A j \in Issuer \ {i} : lists'[j] = lists[j]
  BY <1>0, <1>1, <1>2 DEF TypeOK
<1>5. NewList.bits = {} /\ {} \in SUBSET Index  BY ListTypes
<1>6. InHand(Changing(s, NewList.bits), lists', history', overlapped')
  BY <1>1, <1>2, <1>3, <1>4, <1>5, ChangingInHand
<1>7. call'[c] = Changing(s, {}) /\ \A d \in Call \ {c} : call'[d] = call[d]
  BY <1>0, <1>1 DEF TypeOK
<1>8. call'[c].at = "updWrite" /\ call'[c].assertion = s.assertion
  BY <1>2, <1>5, <1>7, ChangingType
<1>9. Holds(c, i) /\ \A j \in Issuer : Holds(c, j)' => Holds(c, j)
  BY <1>1, <1>8 DEF Holds
<1>10. CallsInHand' /\ OneHolder'
  BY <1>2, <1>4, <1>5, <1>6, <1>7, <1>9, OneCallMoves
<1>. QED  BY <1>0, <1>1, <1>2, <1>3, <1>10, NewListQuiet DEF QuietInv

(* What writing a list does when the call's view of it is not stale, and    *)
(* what it leaves alone in any case.                                        *)
LEMMA WriteListQuiet ==
  ASSUME QuietInv, NEW c \in Call, WriteList(c)
  PROVE  LET a == call[c].assertion  i == IssuerOf[a] IN
         /\ i \notin overlapped =>
              \E list \in lists[i] :
                lists'[i] = {Resigned(updateCredentialStatus(list.bits, IndexOf[a], call[c].rev))}
         /\ \A j \in Issuer \ {i} : lists'[j] = lists[j]
<1>. DEFINE s == call[c]
            i == IssuerOf[s.assertion]
<1>1. s.at = "updWrite"  BY DEF WriteList
<1>2. s.assertion \in Assertion /\ i \in Issuer /\ InHand(s, lists, history, overlapped)
  BY <1>1, UpdatingQuiet DEF Updating
<1>3. lists' = [lists EXCEPT ![i] = IF lists[i] = {} THEN {} ELSE {Resigned(s.bits)}]
  BY <1>2 DEF WriteList, QuietInv, TypeOK
<1>4. /\ lists'[i] = IF lists[i] = {} THEN {} ELSE {Resigned(s.bits)}
      /\ \A j \in Issuer \ {i} : lists'[j] = lists[j]
  BY <1>2, <1>3 DEF QuietInv, TypeOK
<1>5. i \notin overlapped =>
        /\ lists[i] # {}
        /\ \A list \in lists[i] :
             s.bits = updateCredentialStatus(list.bits, IndexOf[s.assertion], s.rev)
  BY <1>1, <1>2 DEF InHand
<1>. QED  BY <1>4, <1>5

LEMMA WritingQuiet ==
  ASSUME QuietInv, [Next]_vars, NEW c \in Call, WriteList(c)
  PROVE  QuietInv'
<1>. DEFINE s == call[c]
            a == s.assertion
            i == IssuerOf[a]
            written(bits) == updateCredentialStatus(bits, IndexOf[a], s.rev)
<1>0. TypeOK' /\ TypeOK  BY UpdateGoesOnType DEF QuietInv
<1>1. s.at = "updWrite" /\ UNCHANGED overlapped  BY DEF WriteList
<1>2. /\ s \in CallState /\ a \in Assertion /\ s.rev \in BOOLEAN /\ i \in Issuer
      /\ ~ s.rev => "reinstated" \in history[a]
  BY <1>1, UpdatingQuiet DEF Updating
<1>3. i \notin overlapped => \E list \in lists[i] : lists'[i] = {Resigned(written(list.bits))}
  BY WriteListQuiet
<1>4. \A j \in Issuer \ {i} : lists'[j] = lists[j]  BY WriteListQuiet
<1>5. \A b \in Assertion : "published" \in history'[b] =>
        "published" \in history[b] \/ (b = a /\ s.rev)
  BY <1>0, <1>2 DEF WriteList, TypeOK
<1>6. \A b \in Assertion : IssuerOf[b] \in Issuer  BY ConstantsAssumption
<1>7. OneListPerIssuer'
  <2>. SUFFICES ASSUME NEW j \in Issuer \ overlapped, NEW l \in lists'[j], NEW m \in lists'[j]
                PROVE  l = m
    BY <1>1 DEF OneListPerIssuer
  <2>1. CASE j = i  BY <1>3, <2>1
  <2>2. CASE j # i  BY <1>4, <2>2 DEF QuietInv, OneListPerIssuer
  <2>. QED  BY <2>1, <2>2
<1>8. PublishedExists'
  <2>. SUFFICES ASSUME NEW b \in Assertion, "published" \in history'[b],
                       IssuerOf[b] \notin overlapped
                PROVE  lists'[IssuerOf[b]] # {}
    BY <1>1 DEF PublishedExists
  <2>1. CASE IssuerOf[b] = i  BY <1>3, <2>1
  <2>2. CASE IssuerOf[b] # i  BY <1>4, <1>5, <1>6, <2>2 DEF QuietInv, PublishedExists
  <2>. QED  BY <2>1, <2>2
(* A published revocation of b: the write is not the reinstatement of a     *)
(* credential in its position, so it leaves the position 1 or makes it 1.   *)
<1>9. ASSUME NEW b \in Assertion, IssuerOf[b] \notin overlapped, "published" \in history'[b],
             \A d \in Assertion : SamePosition(b, d) => "reinstated" \notin history'[d],
             NEW l \in lists'[IssuerOf[b]]
      PROVE  IndexOf[b] \in l.bits
  <2>1. \A d \in Assertion : SamePosition(b, d) => "reinstated" \notin history[d]
    BY <1>0, <1>9, HistoryGrows
  <2>2. CASE IssuerOf[b] # i
    BY <1>4, <1>5, <1>6, <1>9, <2>1, <2>2 DEF QuietInv, PublishedStaysListed
  <2>3. CASE IssuerOf[b] = i
    <3>1. PICK list \in lists[i] : lists'[i] = {Resigned(written(list.bits))}
      BY <1>3, <1>9, <2>3
    <3>2. l.bits = written(list.bits)  BY <1>9, <2>3, <3>1 DEF Resigned
    <3>3. CASE IndexOf[b] = IndexOf[a]
      <4>1. s.rev  BY <1>2, <2>1, <2>3, <3>3 DEF SamePosition
      <4>. QED  BY <3>2, <3>3, <4>1 DEF updateCredentialStatus
    <3>4. CASE IndexOf[b] # IndexOf[a]
      <4>1. "published" \in history[b]  BY <1>5, <1>9, <3>4
      <4>2. IndexOf[b] \in list.bits
        BY <1>9, <2>1, <2>3, <4>1 DEF QuietInv, PublishedStaysListed
      <4>. QED  BY <3>2, <3>4, <4>2 DEF updateCredentialStatus
    <3>. QED  BY <3>3, <3>4
  <2>. QED  BY <2>2, <2>3
<1>10. PublishedStaysListed'
  BY <1>1, <1>9 DEF PublishedStaysListed, SamePosition
<1>11. /\ call'[c] = [at |-> "updMark", assertion |-> a, rev |-> s.rev]
       /\ \A d \in Call \ {c} : call'[d] = call[d]
  BY <1>0 DEF WriteList, TypeOK
<1>12. ~ s.rev => "reinstated" \in history'[a]  BY <1>0, <1>2, HistoryGrows
<1>13. InHand(call'[c], lists', history', overlapped')  BY <1>11, <1>12 DEF InHand
<1>14. Holds(c, i) /\ \A j \in Issuer : ~ Holds(c, j)'  BY <1>1, <1>11 DEF Holds
<1>15. CallsInHand' /\ OneHolder'
  BY <1>2, <1>4, <1>11, <1>13, <1>14, OneCallMoves
<1>. QED  BY <1>0, <1>7, <1>8, <1>10, <1>15 DEF QuietInv

(* A step after which every call that moved is idle.                        *)
LEMMA EndingQuiet ==
  ASSUME QuietInv, [Next]_vars, TypeOK', UNCHANGED lists,
         \A a \in Assertion : "published" \in history'[a] => "published" \in history[a],
         \A c \in Call : call'[c] = call[c] \/ call'[c] = Idle
  PROVE  QuietInv'
<1>1. ASSUME NEW c \in Call  PROVE  InHand(call'[c], lists', history', overlapped')
  <2>1. CASE call'[c] = Idle  BY <2>1 DEF InHand, Idle, Updating
  <2>2. CASE call'[c] = call[c]
    <3>1. InHand(call[c], lists, history, overlapped)  BY DEF QuietInv, CallsInHand
    <3>2. call[c].at \in Updating => call[c].assertion \in Assertion
      BY UpdatingQuiet
    <3>3. InHand(call[c], lists, history', overlapped')
      BY <3>1, <3>2, HistoryGrows, OverlapGrows DEF InHand, QuietInv
    <3>. QED  BY <2>2, <3>3
  <2>. QED  BY <2>1, <2>2
<1>2. \A c \in Call, i \in Issuer : Holds(c, i)' => Holds(c, i)
  BY DEF Holds, Idle
<1>3. OneHolder'  BY <1>2, OverlapGrows DEF QuietInv, OneHolder
<1>. QED  BY <1>1, <1>3, SameLists DEF QuietInv, CallsInHand

LEMMA NextQuiet ==
  ASSUME QuietInv, [Next]_vars
  PROVE  QuietInv'
<1>0. TypeOK  BY DEF QuietInv
<1>1. CASE UNCHANGED vars
  <2>1. TypeOK'  BY <1>0, <1>1 DEF vars, TypeOK
  <2>. QED  BY <1>1, <2>1, EndingQuiet DEF vars
<1>2. ASSUME NEW a \in Assertion, createAssertion(a) \/ revokeAssertion(a)
      PROVE  QuietInv'
  BY <1>0, <1>2, OtherType, EndingQuiet DEF createAssertion, revokeAssertion, TypeOK
<1>3. CASE Restart
  <2>1. \A c \in Call : call'[c] = Idle  BY <1>3 DEF Restart
  <2>. QED  BY <1>0, <1>3, <2>1, OtherType, EndingQuiet DEF Restart
<1>4. ASSUME NEW c \in Call, Step(c)  PROVE  QuietInv'
  <2>1. CASE Fails(c) \/ MarkAssertion(c)
    <3>1. TypeOK'  BY <1>0, <2>1, OtherType, UpdateGoesOnType
    <3>2. UNCHANGED <<lists, history>> /\ call' = [call EXCEPT ![c] = Idle]
      BY <2>1 DEF Fails, MarkAssertion
    <3>3. \A d \in Call : call'[d] = call[d] \/ call'[d] = Idle
      BY <1>0, <3>2 DEF TypeOK
    <3>. QED  BY <3>1, <3>2, <3>3, EndingQuiet
  <2>. QED
    BY <1>4, <2>1, GettingQuiet, UpdateBeginsQuiet, UpdateSelectsQuiet,
       UpdateInsertsQuiet, WritingQuiet DEF Step
<1>. QED  BY <1>1, <1>2, <1>3, <1>4 DEF Next

(* An issuer never has two lists that differ, unless two handlers have had  *)
(* its list in hand at once.                                                *)
THEOREM OneList == Spec => []OneListPerIssuer
<1>1. QuietInv /\ [Next]_vars => QuietInv'  BY NextQuiet
<1>2. QuietInv => OneListPerIssuer  BY DEF QuietInv
<1>. QED  BY <1>1, <1>2, InitQuiet, PTL DEF Spec

(* A published revocation stays in every list of the issuer until somebody  *)
(* asks to reinstate a credential in its position, unless two handlers have *)
(* had the list in hand at once.                                            *)
THEOREM PublishedStays == Spec => []PublishedStaysListed
<1>1. QuietInv /\ [Next]_vars => QuietInv'  BY NextQuiet
<1>2. QuietInv => PublishedStaysListed  BY DEF QuietInv
<1>. QED  BY <1>1, <1>2, InitQuiet, PTL DEF Spec

-----------------------------------------------------------------------------
(* Refinement: lists that no two handlers have in hand at once, of          *)
(* credentials with positions of their own, implement RevocationRegistry.   *)

OwnPositions == \A a, b \in Assertion : SamePosition(a, b) => a = b

(* The change that a call has still to make, and those of the other calls.  *)
PendingAt == {"updCreate", "updInsert", "updWrite"}
Change(c, s) == IF s.at \in PendingAt THEN {<<c, s.assertion, s.rev>>} ELSE {}
Others(c) ==
  {<<d, call[d].assertion, call[d].rev>> : d \in {e \in Call \ {c} : call[e].at \in PendingAt}}

LEMMA PendingMoves ==
  ASSUME NEW c \in Call, \A d \in Call \ {c} : call'[d] = call[d]
  PROVE  /\ Pending = Others(c) \cup Change(c, call[c])
         /\ Pending' = Others(c) \cup Change(c, call'[c])
         /\ \A change \in Others(c) : change[1] # c
<1>1. Pending = Others(c) \cup Change(c, call[c])
  BY DEF Pending, Others, Change, PendingAt
<1>2. Pending' = Others(c)' \cup Change(c, call'[c])
  BY DEF Pending, Others, Change, PendingAt
<1>3. Others(c)' = Others(c)  BY DEF Others
<1>4. \A change \in Others(c) : change[1] # c  BY DEF Others
<1>. QED  BY <1>1, <1>2, <1>3, <1>4

LEMMA SameStatus ==
  ASSUME UNCHANGED lists
  PROVE  UNCHANGED Status
BY DEF Status, Listed

LEMMA NewListStatus ==
  ASSUME QuietInv, NEW i \in Issuer, lists' = [lists EXCEPT ![i] = @ \cup {NewList}]
  PROVE  UNCHANGED Status
<1>1. \A j \in Issuer : lists'[j] = IF j = i THEN lists[j] \cup {NewList} ELSE lists[j]
  BY DEF QuietInv, TypeOK
<1>2. \A a \in Assertion : Listed(a)' <=> Listed(a)
  BY <1>1, ListTypes, ConstantsAssumption DEF Listed
<1>3. \A a \in Assertion : Listed(a)' = Listed(a)  BY <1>2 DEF Listed
<1>. QED  BY <1>3 DEF Status

(* Writing the list is the step at which the change takes effect, for the   *)
(* credential it was asked for and no other.                                *)
LEMMA WriteApplies ==
  ASSUME OwnPositions, QuietInv, overlapped = {}, NEW c \in Call, WriteList(c)
  PROVE  Registry!Apply(c, call[c].assertion, call[c].rev)
<1>. DEFINE a == call[c].assertion
            rev == call[c].rev
            i == IssuerOf[a]
<1>1. /\ call[c].at = "updWrite" /\ call'[c].at = "updMark"
      /\ \A d \in Call \ {c} : call'[d] = call[d]
  BY DEF WriteList, QuietInv, TypeOK
<1>2. a \in Assertion /\ rev \in BOOLEAN /\ i \in Issuer
  BY <1>1, UpdatingQuiet DEF Updating
<1>3. <<c, a, rev>> \in Pending /\ Pending' = Pending \ {<<c, a, rev>>}
  <2>1. <<c, a, rev>> \notin Others(c)  BY <1>1, PendingMoves
  <2>. QED  BY <1>1, <2>1, PendingMoves DEF Change, PendingAt
<1>4. PICK list \in lists[i] :
        lists'[i] = {Resigned(updateCredentialStatus(list.bits, IndexOf[a], rev))}
  BY WriteListQuiet
<1>5. \A j \in Issuer \ {i} : lists'[j] = lists[j]  BY WriteListQuiet
<1>6. \A l \in lists[i] : l = list  BY <1>2 DEF QuietInv, OneListPerIssuer
<1>7. ASSUME NEW b \in Assertion  PROVE Listed(b)' = IF b = a THEN rev ELSE Listed(b)
  <2>1. IssuerOf[b] \in Issuer  BY ConstantsAssumption
  <2>2. CASE IssuerOf[b] # i
    <3>1. lists'[IssuerOf[b]] = lists[IssuerOf[b]]  BY <1>5, <2>1, <2>2
    <3>. QED  BY <2>2, <3>1 DEF Listed
  <2>3. CASE IssuerOf[b] = i
    <3>1. /\ Listed(b) <=> IndexOf[b] \in list.bits
          /\ Listed(b)' <=> IndexOf[b] \in updateCredentialStatus(list.bits, IndexOf[a], rev)
      <4>1. Listed(b) <=> \E l \in lists[i] : IndexOf[b] \in l.bits
        BY <2>3 DEF Listed
      <4>2. Listed(b)' <=> \E l \in lists'[i] : IndexOf[b] \in l.bits
        BY <2>3 DEF Listed
      <4>3. \A l \in lists'[i] : l.bits = updateCredentialStatus(list.bits, IndexOf[a], rev)
        BY <1>4 DEF Resigned
      <4>4. lists'[i] # {}  BY <1>4
      <4>. QED  BY <1>6, <4>1, <4>2, <4>3, <4>4
    <3>2. b = a \/ IndexOf[b] # IndexOf[a]
      BY <1>2, <2>3 DEF OwnPositions, SamePosition
    <3>3. Listed(b)' <=> (IF b = a THEN rev ELSE Listed(b))
      BY <1>2, <3>1, <3>2 DEF updateCredentialStatus
    <3>. QED  BY <1>2, <3>3 DEF Listed
  <2>. QED  BY <2>2, <2>3
<1>8. Status' = [Status EXCEPT ![a] = rev]  BY <1>2, <1>7 DEF Status
<1>. QED  BY <1>3, <1>8 DEF Registry!Apply

LEMMA StepRefines ==
  ASSUME OwnPositions, QuietInv, overlapped = {}, NEW c \in Call, Step(c)
  PROVE  Registry!Next \/ UNCHANGED Registry!registry
<1>0. TypeOK /\ call[c] \in CallState  BY DEF QuietInv, TypeOK
<1>a. Idle.at = "idle"  BY DEF Idle
<1>b. \A d \in Call \ {c} : call'[d] = call[d]
  BY <1>0 DEF Step, getStatusList, GetSelects, GetInserts, updateCredentialRevocationStatus,
              UpdateSelects, UpdateInserts, WriteList, MarkAssertion, Fails, TypeOK
<1>1. ASSUME NEW i \in Issuer, getStatusList(c, i)
      PROVE  UNCHANGED Registry!registry
  <2>1. call[c].at = "idle" /\ call'[c].at = "getCreate"
    BY <1>0, <1>1 DEF getStatusList, TypeOK
  <2>2. Pending' = Pending  BY <1>b, <2>1, PendingMoves DEF Change, PendingAt
  <2>. QED  BY <1>1, <2>2, SameStatus DEF getStatusList, Registry!registry
<1>2. CASE GetSelects(c)
  <2>1. call[c].at = "getCreate" /\ call'[c].at \in {"getInsert", "idle"}
    BY <1>0, <1>a, <1>2 DEF GetSelects, TypeOK
  <2>2. Pending' = Pending  BY <1>b, <2>1, PendingMoves DEF Change, PendingAt
  <2>. QED  BY <1>2, <2>2, SameStatus DEF GetSelects, Registry!registry
<1>3. CASE GetInserts(c)
  <2>1. call[c].at = "getInsert" /\ call'[c].at = "idle"
    BY <1>0, <1>a, <1>3 DEF GetInserts, TypeOK
  <2>2. Pending' = Pending  BY <1>b, <2>1, PendingMoves DEF Change, PendingAt
  <2>3. call[c].issuer \in Issuer  BY <1>0, <2>1, CallFields DEF Getting
  <2>. QED  BY <1>3, <2>2, <2>3, NewListStatus DEF GetInserts, Registry!registry
<1>4. ASSUME NEW a \in Assertion, NEW rev \in BOOLEAN,
             updateCredentialRevocationStatus(c, a, rev)
      PROVE  Registry!Ask(c, a, rev)
  <2>. DEFINE s == [at |-> "updCreate", assertion |-> a, rev |-> rev]
  <2>1. s.at = "updCreate" /\ s.assertion = a /\ s.rev = rev  OBVIOUS
  <2>2. \/ call'[c] = s
        \/ \E list \in lists[IssuerOf[a]] : call'[c] = Changing(s, list.bits)
    BY <1>0, <1>4 DEF updateCredentialRevocationStatus, TypeOK
  <2>. HIDE DEF s
  <2>3. \A list \in lists[IssuerOf[a]] :
          LET t == Changing(s, list.bits) IN
          t.at = "updWrite" /\ t.assertion = a /\ t.rev = rev
    BY <2>1, <1>0, ListBits, ChangingType, ConstantsAssumption
  <2>4. call'[c].at \in PendingAt /\ call'[c].assertion = a /\ call'[c].rev = rev
    BY <2>1, <2>2, <2>3 DEF PendingAt
  <2>5. call[c].at \notin PendingAt /\ UNCHANGED lists
    BY <1>4 DEF updateCredentialRevocationStatus, PendingAt
  <2>6. /\ Pending' = Pending \cup {<<c, a, rev>>}
        /\ \A change \in Pending : change[1] # c
    BY <1>b, <2>4, <2>5, PendingMoves DEF Change
  <2>. QED  BY <2>5, <2>6, SameStatus DEF Registry!Ask
<1>5. CASE UpdateSelects(c) \/ UpdateInserts(c)
  <2>1. call[c].at \in {"updCreate", "updInsert"}
    BY <1>5 DEF UpdateSelects, UpdateInserts
  <2>2. /\ call[c].assertion \in Assertion /\ call[c].rev \in BOOLEAN
        /\ IssuerOf[call[c].assertion] \in Issuer
    BY <2>1, UpdatingQuiet DEF Updating
  <2>. DEFINE t == [at |-> "updInsert", assertion |-> call[c].assertion, rev |-> call[c].rev]
              keeps(s) == s.at \in PendingAt /\ s.assertion = call[c].assertion
                            /\ s.rev = call[c].rev
  <2>3. keeps(t)  BY DEF PendingAt
  <2>4. \A list \in lists[IssuerOf[call[c].assertion]] : keeps(Changing(call[c], list.bits))
    BY <1>0, <2>2, ListBits, ChangingType DEF PendingAt
  <2>5. keeps(Changing(call[c], {}))
    BY <2>2, ChangingType DEF PendingAt
  <2>6. keeps(call'[c]) /\ UNCHANGED Status
    <3>1. CASE UpdateSelects(c)
      <4>1. \/ call'[c] = t
            \/ \E list \in lists[IssuerOf[call[c].assertion]] :
                 call'[c] = Changing(call[c], list.bits)
        BY <1>0, <3>1, InsertNext DEF UpdateSelects, TypeOK
      <4>2. keeps(call'[c])  BY <2>3, <2>4, <4>1
      <4>. QED  BY <3>1, <4>2, SameStatus DEF UpdateSelects
    <3>2. CASE UpdateInserts(c)
      <4>1. call'[c] = Changing(call[c], {})  BY <1>0, <3>2 DEF UpdateInserts, TypeOK
      <4>. QED  BY <2>2, <2>5, <3>2, <4>1, NewListStatus DEF UpdateInserts
    <3>. QED  BY <1>5, <3>1, <3>2
  <2>7. call[c].at \in PendingAt  BY <2>1 DEF PendingAt
  <2>8. Change(c, call'[c]) = Change(c, call[c])  BY <2>6, <2>7 DEF Change
  <2>9. Pending' = Pending  BY <1>b, <2>8, PendingMoves
  <2>. QED  BY <2>6, <2>9 DEF Registry!registry
<1>6. CASE WriteList(c)
  <2>1. call[c].assertion \in Assertion /\ call[c].rev \in BOOLEAN
    BY <1>6, UpdatingQuiet DEF WriteList, Updating
  <2>. QED  BY <1>6, <2>1, WriteApplies DEF Registry!Next
<1>7. CASE MarkAssertion(c)
  <2>1. call[c].at = "updMark" /\ call'[c].at = "idle"
    BY <1>0, <1>a, <1>7 DEF MarkAssertion, TypeOK
  <2>2. Pending' = Pending  BY <1>b, <2>1, PendingMoves DEF Change, PendingAt
  <2>. QED  BY <1>7, <2>2, SameStatus DEF MarkAssertion, Registry!registry
<1>8. CASE Fails(c)
  <2>1. call'[c].at = "idle"  BY <1>0, <1>a, <1>8 DEF Fails, TypeOK
  <2>2. Pending' \subseteq Pending  BY <1>b, <2>1, PendingMoves DEF Change, PendingAt
  <2>3. Registry!Abandon  BY <1>8, <2>2, SameStatus DEF Fails, Registry!Abandon
  <2>. QED  BY <2>3 DEF Registry!Next
<1>. QED  BY <1>1, <1>2, <1>3, <1>4, <1>5, <1>6, <1>7, <1>8 DEF Step, Registry!Next

LEMMA NextRefines ==
  ASSUME OwnPositions, QuietInv, overlapped = {}, [Next]_vars
  PROVE  Registry!Next \/ UNCHANGED Registry!registry
<1>1. CASE UNCHANGED <<lists, call>>
  <2>1. UNCHANGED Pending  BY <1>1 DEF Pending
  <2>. QED  BY <1>1, <2>1, SameStatus DEF Registry!registry
<1>2. CASE Restart
  <2>1. \A c \in Call : call'[c].at = "idle"  BY <1>2 DEF Restart, Idle
  <2>2. Pending' = {}  BY <2>1 DEF Pending
  <2>3. Registry!Abandon  BY <1>2, <2>2, SameStatus DEF Restart, Registry!Abandon
  <2>. QED  BY <2>3 DEF Registry!Next
<1>. QED
  BY <1>1, <1>2, StepRefines DEF Next, vars, createAssertion, revokeAssertion

LEMMA InitRefines == Init => Registry!Init
<1>. SUFFICES ASSUME Init  PROVE Registry!Init
  OBVIOUS
<1>1. Pending = {}  BY DEF Init, Pending, Idle
<1>2. \A a \in Assertion : Listed(a) = FALSE
  BY ConstantsAssumption DEF Init, Listed
<1>3. Status = [a \in Assertion |-> FALSE]  BY <1>2 DEF Status
<1>. QED  BY <1>1, <1>3 DEF Registry!Init

(* As long as no two handlers have had the list of an issuer in hand at     *)
(* once, and if no two credentials of an issuer share a position, the lists *)
(* are the registry that RevocationRegistry describes: a change takes       *)
(* effect at one step, for one credential.  Handlers of different issuers   *)
(* may interleave as they like.                                             *)
THEOREM QuietListsAreRegistry ==
  ASSUME OwnPositions
  PROVE  Spec /\ [](overlapped = {}) => RegistrySpec
<1>1. QuietInv /\ overlapped = {} /\ [Next]_vars => [Registry!Next]_(Registry!registry)
  BY NextRefines
<1>2. QuietInv /\ [Next]_vars => QuietInv'  BY NextQuiet
<1>. QED  BY <1>1, <1>2, InitRefines, InitQuiet, PTL DEF Spec, RegistrySpec, Registry!Spec

(* In particular when one handler runs at a time.                           *)
THEOREM ListsAreRegistry ==
  ASSUME OwnPositions, \A c, d \in Call : c = d
  PROVE  Spec => RegistrySpec
<1>1. Init => overlapped = {}  BY DEF Init
<1>2. overlapped = {} /\ [Next]_vars => (overlapped = {})'
  BY DEF Next, vars, createAssertion, revokeAssertion, Restart, Step, getStatusList, GetSelects,
         GetInserts, updateCredentialRevocationStatus, UpdateSelects, UpdateInserts, WriteList,
         MarkAssertion, Fails, Takes
<1>3. Spec => [](overlapped = {})  BY <1>1, <1>2, PTL DEF Spec
<1>. QED  BY <1>3, QuietListsAreRegistry, PTL
=============================================================================
