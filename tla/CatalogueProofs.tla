---------------------------- MODULE CatalogueProofs ----------------------------
(* Proofs about Catalogue, for every value of its constants. *)
EXTENDS Catalogue, TLAPS

-----------------------------------------------------------------------------
(* The fields of a call, by where it is.                                    *)

Holding == {"nameRow", "writeIssuer", "writeBadge"}
OfIssuer == {"countAssertions", "deleteIssuer", "insertBadge", "writeIssuer"}
OfBadge == {"countBadgeAssertions", "deleteBadge", "award", "writeBadge"}

LEMMA CallFields ==
  ASSUME NEW s \in CallState
  PROVE  /\ s.at \in {"idle"} \cup Holding \cup OfIssuer \cup OfBadge
         /\ s.at # "idle" => s.row \in Row
         /\ s.at \in OfIssuer => s.row \in Issuer
         /\ s.at \in OfBadge => s.row \in Badge
         /\ s.at \in {"nameRow", "writeIssuer", "insertBadge"} => s.data \in Data
         /\ s.at \in {"writeIssuer", "writeBadge"} => s.change \in Change
         /\ s.at = "writeBadge" => s.doc \in Document
<1>. USE DEF Holding, OfIssuer, OfBadge, Row
<1>1. CASE s \in [at : {"idle"}]  BY <1>1
<1>2. CASE s \in [at : {"nameRow"}, row : Row, data : Data]  BY <1>2
<1>3. CASE s \in [at : {"writeIssuer"}, row : Issuer, data : Data, change : Change]  BY <1>3
<1>4. CASE s \in [at : {"writeBadge"}, row : Badge, doc : Document, change : Change]  BY <1>4
<1>5. CASE s \in [at : {"countAssertions", "deleteIssuer"}, row : Issuer]  BY <1>5
<1>6. CASE s \in [at : {"countBadgeAssertions", "deleteBadge", "award"}, row : Badge]  BY <1>6
<1>7. CASE s \in [at : {"insertBadge"}, row : Issuer, data : Data]  BY <1>7
<1>. QED  BY <1>1, <1>2, <1>3, <1>4, <1>5, <1>6, <1>7 DEF CallState

LEMMA CallStates ==
  /\ Idle \in CallState
  /\ \A r \in Row, d \in Data : [at |-> "nameRow", row |-> r, data |-> d] \in CallState
  /\ \A i \in Issuer, d \in Data, h \in Change :
       [at |-> "writeIssuer", row |-> i, change |-> h, data |-> d] \in CallState
  /\ \A b \in Badge, d \in Document, h \in Change :
       [at |-> "writeBadge", row |-> b, change |-> h, doc |-> d] \in CallState
  /\ \A i \in Issuer, at \in {"countAssertions", "deleteIssuer"} :
       [at |-> at, row |-> i] \in CallState
  /\ \A b \in Badge, at \in {"countBadgeAssertions", "deleteBadge", "award"} :
       [at |-> at, row |-> b] \in CallState
  /\ \A i \in Issuer, d \in Data : [at |-> "insertBadge", row |-> i, data |-> d] \in CallState
BY DEF CallState, Idle

LEMMA Moves ==
  ASSUME call \in [Call -> CallState], NEW c \in Call, NEW s, Goes(c, s)
  PROVE  /\ call'[c] = s
         /\ \A d \in Call : d # c => call'[d] = call[d]
         /\ s \in CallState => call' \in [Call -> CallState]
BY DEF Goes

LEMMA NamedType ==
  ASSUME NEW h \in Host, NEW d \in Data
  PROVE  Named(h, d) \in Document /\ Named(h, d).id = h /\ Named(h, d).data = d
BY OriginsAssumption DEF Named, Document

LEMMA MergeType ==
  ASSUME NEW d \in Data, NEW h \in Change
  PROVE  Merge(d, h) \in Data
BY DEF Merge, Data, Change

-----------------------------------------------------------------------------
(* Type correctness *)

LEMMA InitType == Init => TypeOK
<1>. SUFFICES ASSUME Init  PROVE  TypeOK
  OBVIOUS
<1>1. (CHOOSE d \in Data : TRUE) \in Data
  <2>1. PICK v \in Value : TRUE  BY RowsAssumption
  <2>2. [f \in Field |-> v] \in Data  BY <2>1 DEF Data
  <2>. QED  BY <2>2
<1>2. (CHOOSE i \in Issuer : TRUE) \in Issuer  BY RowsAssumption
<1>3. (CHOOSE b \in Badge : TRUE) \in Badge  BY RowsAssumption
<1>4. columns \in [Row -> Data] /\ doc \in [Row -> Document]
  BY <1>1 DEF Init, Document
<1>5. call \in [Call -> CallState]  BY CallStates DEF Init
<1>. QED  BY <1>2, <1>3, <1>4, <1>5 DEF Init, TypeOK

LEMMA InsertsType ==
  ASSUME TypeOK, NEW c \in Call, NEW r \in Row, NEW d \in Data, Inserts(c, r, d),
         issuerOf' \in [Badge -> Issuer]
  PROVE  TypeOK'
<1>1. call' \in [Call -> CallState]  BY CallStates, Moves DEF Inserts, TypeOK
<1>2. doc' \in [Row -> Document] /\ columns' \in [Row -> Data] /\ asked' \in [Row -> Data]
  BY DEF Inserts, TypeOK, Document
<1>. QED  BY <1>1, <1>2 DEF Inserts, TypeOK

LEMMA WroteType ==
  ASSUME TypeOK, NEW c \in Call, NEW r \in Row, Wrote(c, r),
         columns' \in [Row -> Data], doc' \in [Row -> Document], asked' \in [Row -> Data],
         torn' \subseteq Row, broken' \subseteq Row
  PROVE  TypeOK'
<1>1. call' \in [Call -> CallState]  BY CallStates, Moves DEF Wrote, TypeOK
<1>2. overtaken' \subseteq Call /\ lost' \subseteq Row  BY DEF Wrote, TypeOK
<1>. QED  BY <1>1, <1>2 DEF Wrote, TypeOK

LEMMA NameRowType ==
  ASSUME TypeOK, NEW c \in Call, NameRow(c)  PROVE  TypeOK'
<1>1. call[c].row \in Row /\ call[c].data \in Data
  BY CallFields DEF NameRow, At, TypeOK
<1>2. doc' \in [Row -> Document]  BY <1>1, NamedType DEF NameRow, TypeOK
<1>3. torn' \subseteq Row  BY <1>1 DEF NameRow, TypeOK
<1>. QED  BY <1>1, <1>2, <1>3, WroteType DEF NameRow, TypeOK

LEMMA updateIssuerType ==
  ASSUME TypeOK, NEW c \in Call, updateIssuer(c)  PROVE  TypeOK'
<1>1. call[c].row \in Row /\ call[c].data \in Data /\ call[c].change \in Change
  BY CallFields DEF updateIssuer, At, TypeOK, OfIssuer
<1>2. Merge(asked[call[c].row], call[c].change) \in Data  BY <1>1, MergeType DEF TypeOK
<1>3. /\ doc' \in [Row -> Document]
      /\ columns' \in [Row -> Data] /\ asked' \in [Row -> Data]
  BY <1>1, <1>2, NamedType DEF updateIssuer, TypeOK
<1>4. torn' \subseteq Row /\ broken' \subseteq Row  BY DEF updateIssuer, TypeOK
<1>. QED  BY <1>1, <1>3, <1>4, WroteType DEF updateIssuer

LEMMA updateBadgeType ==
  ASSUME TypeOK, NEW c \in Call, updateBadge(c)  PROVE  TypeOK'
<1>1. call[c].row \in Row /\ call[c].doc \in Document /\ call[c].change \in Change
  BY CallFields DEF updateBadge, At, TypeOK, OfBadge
<1>2. /\ Merge(asked[call[c].row], call[c].change) \in Data
      /\ Merge(columns[call[c].row], call[c].change) \in Data
  BY <1>1, MergeType DEF TypeOK
<1>3. /\ doc' \in [Row -> Document]
      /\ columns' \in [Row -> Data] /\ asked' \in [Row -> Data]
  BY <1>1, <1>2 DEF updateBadge, TypeOK
<1>. QED  BY <1>1, <1>3, WroteType DEF updateBadge, TypeOK

(* The steps of a handler that write nothing, and the deletions.            *)
LEMMA ReadsType ==
  ASSUME TypeOK, NEW c \in Call, NEW s \in CallState, Goes(c, s), UNCHANGED <<tables, notes>>
  PROVE  TypeOK'
<1>1. call' \in [Call -> CallState]  BY Moves DEF TypeOK
<1>. QED  BY <1>1 DEF TypeOK, tables, notes

LEMMA DeletesType ==
  ASSUME TypeOK, NEW c \in Call, NEW r \in Row, Deletes(c, r)
  PROVE  TypeOK'
<1>1. call' \in [Call -> CallState]  BY CallStates, Moves DEF Deletes, Ends, TypeOK
<1>. QED  BY <1>1 DEF Deletes, Ends, TypeOK

LEMMA StepType ==
  ASSUME TypeOK, NEW c \in Call, Step(c)  PROVE  TypeOK'
<1>1. ASSUME NEW i \in Issuer, NEW d \in Data, createIssuer(c, i, d)  PROVE  TypeOK'
  BY <1>1, InsertsType DEF createIssuer, Row, TypeOK
<1>2. ASSUME NEW i \in Issuer, NEW d \in Data, FindIssuer(c, i, d)  PROVE  TypeOK'
  BY <1>2, ReadsType, CallStates DEF FindIssuer
<1>3. ASSUME NEW i \in Issuer, NEW h \in Change, ReadIssuer(c, i, h)  PROVE  TypeOK'
  <2>1. Merge(columns[i], h) \in Data  BY MergeType DEF TypeOK, Row
  <2>. QED  BY <1>3, <2>1, ReadsType, CallStates DEF ReadIssuer
<1>4. ASSUME NEW i \in Issuer, hasAssociatedBadges(c, i)  PROVE  TypeOK'
  BY <1>4, ReadsType, CallStates DEF hasAssociatedBadges
<1>5. CASE hasAssociatedAssertions(c)
  <2>1. call[c].row \in Issuer
    BY <1>5, CallFields DEF hasAssociatedAssertions, At, TypeOK, OfIssuer
  <2>. QED  BY <1>5, <2>1, ReadsType, CallStates DEF hasAssociatedAssertions
<1>6. CASE deleteIssuer(c) \/ deleteBadge(c)
  <2>1. call[c].row \in Row  BY <1>6, CallFields DEF deleteIssuer, deleteBadge, At, TypeOK
  <2>. QED  BY <1>6, <2>1, DeletesType DEF deleteIssuer, deleteBadge
<1>7. ASSUME NEW b \in Badge, createBadge(c, b)  PROVE  TypeOK'
  <2>1. call[c].row \in Issuer /\ call[c].data \in Data
    BY <1>7, CallFields DEF createBadge, At, TypeOK, OfIssuer
  <2>2. issuerOf' \in [Badge -> Issuer]  BY <1>7, <2>1 DEF createBadge, TypeOK
  <2>. QED  BY <1>7, <2>1, <2>2, InsertsType DEF createBadge, Row
<1>8. ASSUME NEW b \in Badge, FindBadge(c, b) \/ ReadAwardedBadge(c, b)  PROVE  TypeOK'
  BY <1>8, ReadsType, CallStates DEF FindBadge, ReadAwardedBadge
<1>9. ASSUME NEW b \in Badge, NEW h \in Change, ReadBadge(c, b, h)  PROVE  TypeOK'
  <2>1. doc[b] \in Document  BY DEF TypeOK, Row
  <2>2. Merge(doc[b].data, h) \in Data  BY <2>1, MergeType DEF Document
  <2>3. [doc[b] EXCEPT !.data = Merge(@, h)] \in Document  BY <2>1, <2>2 DEF Document
  <2>. QED  BY <1>9, <2>3, ReadsType, CallStates DEF ReadBadge
<1>10. CASE hasBadgeAssertions(c)
  <2>1. call[c].row \in Badge
    BY <1>10, CallFields DEF hasBadgeAssertions, At, TypeOK, OfBadge
  <2>. QED  BY <1>10, <2>1, ReadsType, CallStates DEF hasBadgeAssertions
<1>11. ASSUME NEW a \in Assertion, createAssertion(c, a)  PROVE  TypeOK'
  <2>1. call[c].row \in Badge
    BY <1>11, CallFields DEF createAssertion, At, TypeOK, OfBadge
  <2>2. call' \in [Call -> CallState]
    BY <1>11, CallStates, Moves DEF createAssertion, Ends, TypeOK
  <2>3. of' \in [Assertion -> Badge] /\ by' \in [Assertion -> Issuer]
    BY <1>11, <2>1 DEF createAssertion, TypeOK
  <2>. QED  BY <1>11, <2>2, <2>3 DEF createAssertion, Ends, TypeOK
<1>12. CASE Fails(c)
  <2>1. call' \in [Call -> CallState]
    BY <1>12, CallStates, Moves DEF Fails, Ends, TypeOK
  <2>2. broken' \subseteq Row  BY <1>12, CallFields DEF Fails, At, TypeOK
  <2>. QED  BY <1>12, <2>1, <2>2 DEF Fails, Ends, tables, TypeOK
<1>. QED
  BY <1>1, <1>2, <1>3, <1>4, <1>5, <1>6, <1>7, <1>8, <1>9, <1>10, <1>11, <1>12,
     NameRowType, updateIssuerType, updateBadgeType DEF Step

LEMMA NextType == TypeOK /\ [Next]_vars => TypeOK'
<1>. SUFFICES ASSUME TypeOK, [Next]_vars  PROVE  TypeOK'
  OBVIOUS
<1>1. CASE UNCHANGED vars  BY <1>1 DEF vars, tables, notes, TypeOK
<1>2. CASE Restart
  <2>1. call' \in [Call -> CallState]  BY <1>2, CallStates DEF Restart
  <2>. QED  BY <1>2, <2>1 DEF Restart, tables, TypeOK
<1>. QED  BY <1>1, <1>2, StepType DEF Next

(* Every variable keeps its type, whatever the handlers in progress, the    *)
(* failures and the restarts.                                               *)
THEOREM TypeCorrect == Spec => []TypeOK
BY InitType, NextType, PTL DEF Spec

-----------------------------------------------------------------------------
(* The inductive invariant.  A handler that holds a row and has not been    *)
(* overtaken still knows what is in it.                                     *)

Promise(s, there, cols, docs) ==
  s.row \in there =>
    /\ s.at = "nameRow" => cols[s.row] = s.data
    /\ s.at = "writeIssuer" => s.data = Merge(cols[s.row], s.change)
    /\ s.at = "writeBadge" =>
         s.doc = [docs[s.row] EXCEPT !.data = Merge(docs[s.row].data, s.change)]

(* What ProfileServedIsStored says of one profile.                          *)
Fits(i) ==
  /\ doc[i].data = columns[i]
  /\ \/ Creating(i) \/ i \in broken
     \/ doc[i].id \in Host
        /\ (Host = {columns[i][Url]} => doc[i] = Named(columns[i][Url], columns[i]))

LEMMA AllFit ==
  /\ ProfileServedIsStored <=> \A i \in (Issuer \cap stored) \ torn : Fits(i)
  /\ ProfileServedIsStored' <=> \A i \in (Issuer \cap stored') \ torn' : Fits(i)'
BY DEF ProfileServedIsStored, getIssuer, listIssuers, Fits, Named

LEMMA NamedFits ==
  ASSUME NEW i, doc'[i].data = columns'[i],
         Creating(i)' \/ i \in broken' \/ \E h \in Host : doc'[i] = Named(h, columns'[i])
  PROVE  Fits(i)'
<1>1. CASE Creating(i)' \/ i \in broken'  BY <1>1 DEF Fits
<1>2. ASSUME NEW h \in Host, doc'[i] = Named(h, columns'[i])
      PROVE  Fits(i)'
  <2>1. doc'[i].id \in Host  BY <1>2 DEF Named
  <2>2. ASSUME NEW u, Host = {u}  PROVE  doc'[i] = Named(u, columns'[i])
    <3>1. h = u  BY <1>2, <2>2
    <3>. QED  BY <1>2, <3>1
  <2>. QED  BY <2>1, <2>2 DEF Fits
<1>. QED  BY <1>1, <1>2

HeldIsUsed == \A c \in Call : call[c].at \in Holding => call[c].row \in used

StillAsRead ==
  \A c \in Call \ overtaken :
    call[c].at \in Holding => Promise(call[c], stored, columns, doc)

CatalogueInv ==
  /\ TypeOK
  /\ HeldIsUsed /\ StillAsRead
  /\ ProfileServedIsStored /\ ProfileUpdatesKept /\ BadgeUpdatesKept /\ NothingDangles

LEMMA InitInv == Init => CatalogueInv
BY InitType
   DEF Init, CatalogueInv, HeldIsUsed, StillAsRead, Idle, Holding, ProfileServedIsStored,
       ProfileUpdatesKept, BadgeUpdatesKept, NothingDangles

(* A handler moves, nothing is written: what it holds now it has just read. *)
LEMMA ReadsInv ==
  ASSUME CatalogueInv, TypeOK', NEW c \in Call, NEW s, Goes(c, s),
         UNCHANGED <<tables, asked, lost, torn>>,
         overtaken' \in {overtaken, overtaken \ {c}},
         broken \subseteq broken',
         s.at \in Holding => s.row \in used /\ Promise(s, stored, columns, doc),
         call[c].at = "nameRow" => call[c].row \in broken'
  PROVE  CatalogueInv'
<1>. USE DEF CatalogueInv, tables
<1>1. call'[c] = s /\ \A d \in Call : d # c => call'[d] = call[d]
  BY Moves DEF TypeOK
<1>2. HeldIsUsed'  BY <1>1 DEF HeldIsUsed
<1>3. StillAsRead'  BY <1>1 DEF StillAsRead
<1>4. \A r \in Row : Creating(r) => Creating(r)' \/ r \in broken'
  BY <1>1 DEF Creating, At
<1>5. ProfileServedIsStored'  BY <1>4 DEF ProfileServedIsStored, getIssuer, listIssuers, Named, Row
<1>6. BadgeUpdatesKept'  BY <1>4 DEF BadgeUpdatesKept, getBadge, listBadges, Row
<1>7. ProfileUpdatesKept' /\ NothingDangles'  BY DEF ProfileUpdatesKept, NothingDangles
<1>. QED  BY <1>2, <1>3, <1>5, <1>6, <1>7

(* A new row is held by nobody else and referred to by nothing.             *)
LEMMA InsertsInv ==
  ASSUME CatalogueInv, TypeOK', NEW c \in Call, NEW r \in Row, NEW d \in Data,
         Inserts(c, r, d),
         \A b \in Badge \ {r} : issuerOf'[b] = issuerOf[b],
         r \in Badge => issuerOf'[r] \in stored,
         call[c].at \notin Holding
  PROVE  CatalogueInv'
<1>. USE DEF CatalogueInv, Inserts
<1>. DEFINE s == [at |-> "nameRow", row |-> r, data |-> d]
<1>1. call'[c] = s /\ \A e \in Call : e # c => call'[e] = call[e]
  BY Moves DEF TypeOK
<1>2. s.at = "nameRow" /\ s.row = r /\ s.data = d
  OBVIOUS
<1>. HIDE DEF s
<1>3. /\ columns'[r] = d /\ asked'[r] = d /\ doc'[r] = [id |-> Placeholder, data |-> d]
      /\ \A q \in Row \ {r} : /\ columns'[q] = columns[q] /\ asked'[q] = asked[q]
                              /\ doc'[q] = doc[q]
  BY DEF TypeOK
<1>4. r \notin stored  BY DEF TypeOK
<1>5. HeldIsUsed'  BY <1>1, <1>2 DEF HeldIsUsed
<1>6. StillAsRead'
  <2>. SUFFICES ASSUME NEW e \in Call \ overtaken', call'[e].at \in Holding
                PROVE  Promise(call'[e], stored', columns', doc')
    BY DEF StillAsRead
  <2>1. CASE e = c  BY <1>1, <1>2, <1>3, <2>1 DEF Promise
  <2>2. CASE e # c
    <3>1. call'[e] = call[e] /\ call[e].row \in used  BY <1>1, <2>2 DEF HeldIsUsed
    <3>2. call[e].row \in Row \ {r}  BY <3>1 DEF TypeOK
    <3>3. Promise(call[e], stored, columns, doc)  BY <3>1 DEF StillAsRead
    <3>. QED  BY <1>3, <3>1, <3>2, <3>3 DEF Promise
  <2>. QED  BY <2>1, <2>2
<1>7. Creating(r)'  BY <1>1, <1>2 DEF Creating, At
<1>8. \A q \in Row \ {r} : Creating(q) => Creating(q)'
  BY <1>1 DEF Creating, At, Holding
<1>12. ProfileServedIsStored'
  <2>. SUFFICES ASSUME NEW i \in (Issuer \cap stored') \ torn'
                PROVE  Fits(i)'
    BY AllFit
  <2>1. CASE i = r  BY <1>3, <1>7, <2>1 DEF Fits
  <2>2. CASE i # r
    <3>1. Fits(i) /\ i \in Row  BY <2>2, AllFit DEF Row
    <3>. QED  BY <1>3, <1>8, <2>2, <3>1 DEF Fits
  <2>. QED  BY <2>1, <2>2
<1>9. ProfileUpdatesKept'
  BY <1>3 DEF ProfileUpdatesKept, Row
<1>10. BadgeUpdatesKept'
  BY <1>3, <1>7, <1>8 DEF BadgeUpdatesKept, getBadge, listBadges, Row
<1>11. NothingDangles'
  <2>1. \A b \in Badge \cap stored' : issuerOf'[b] \in stored'
    BY <1>4 DEF NothingDangles
  <2>2. ASSUME NEW a \in awarded  PROVE  of[a] \in stored' /\ by[a] = issuerOf'[of[a]]
    <3>1. of[a] \in Badge /\ of[a] \in stored /\ by[a] = issuerOf[of[a]]
      BY DEF NothingDangles, TypeOK
    <3>. QED  BY <1>4, <3>1
  <2>3. UNCHANGED <<awarded, of, by>>
    OBVIOUS
  <2>. HIDE DEF Inserts, CatalogueInv
  <2>. QED  BY <2>1, <2>2, <2>3 DEF NothingDangles
<1>. QED  BY <1>5, <1>6, <1>9, <1>10, <1>11, <1>12

(* A handler writes to the row it holds: the others that hold it are        *)
(* overtaken, and of the row only what the lemma's users know is left.      *)
LEMMA WroteInv ==
  ASSUME CatalogueInv, TypeOK', NEW c \in Call, call[c].at \in Holding,
         NEW r \in Row, call[c].row = r, Wrote(c, r),
         \A q \in Row \ {r} : /\ columns'[q] = columns[q] /\ asked'[q] = asked[q]
                              /\ doc'[q] = doc[q]
                              /\ q \in torn => q \in torn'
                              /\ q \in broken => q \in broken',
         r \in (Issuer \cap stored) \ torn' =>
           doc'[r].data = columns'[r]
             /\ (Creating(r)' \/ r \in broken' \/ \E h \in Host : doc'[r] = Named(h, columns'[r])),
         r \in (Issuer \cap stored) \ lost' => columns'[r] = asked'[r],
         r \in Badge \cap stored =>
           /\ columns'[r] = asked'[r]
           /\ r \notin lost' => /\ doc'[r].data = asked'[r]
                                /\ Creating(r)' \/ r \in broken' \/ doc'[r].id \in Host
  PROVE  CatalogueInv'
<1>. USE DEF CatalogueInv, Wrote
<1>1. call'[c] = Idle /\ \A d \in Call : d # c => call'[d] = call[d]
  BY Moves DEF TypeOK
<1>2. HeldIsUsed'  BY <1>1 DEF HeldIsUsed, Idle, Holding
<1>3. StillAsRead'
  <2>. SUFFICES ASSUME NEW d \in Call \ overtaken', call'[d].at \in Holding
                PROVE  Promise(call'[d], stored', columns', doc')
    BY DEF StillAsRead
  <2>1. d # c /\ call'[d] = call[d]  BY <1>1 DEF Idle, Holding
  <2>2. d \notin overtaken /\ call[d].row # r  BY <2>1 DEF Holds, Holding
  <2>3. Promise(call[d], stored, columns, doc)  BY <2>1, <2>2 DEF StillAsRead
  <2>4. call[d].row \in Row  BY <2>1 DEF HeldIsUsed, TypeOK
  <2>. QED  BY <2>1, <2>2, <2>3, <2>4 DEF Promise
<1>4. \A q \in Row \ {r} : Creating(q) => Creating(q)'  BY <1>1 DEF Creating, At
<1>5. lost \subseteq lost'
  OBVIOUS
<1>6. ProfileServedIsStored'
  <2>. SUFFICES ASSUME NEW i \in (Issuer \cap stored) \ torn'
                PROVE  Fits(i)'
    BY AllFit
  <2>1. CASE i = r  BY <2>1, NamedFits
  <2>2. CASE i # r
    <3>1. Fits(i)  BY <2>2, AllFit DEF Row
    <3>. QED  BY <1>4, <2>2, <3>1 DEF Fits, Row
  <2>. QED  BY <2>1, <2>2
<1>7. ProfileUpdatesKept'  BY <1>5 DEF ProfileUpdatesKept, Row
<1>8. BadgeUpdatesKept'  BY <1>4, <1>5 DEF BadgeUpdatesKept, getBadge, listBadges, Row
<1>9. NothingDangles'  BY DEF NothingDangles
<1>. QED  BY <1>2, <1>3, <1>6, <1>7, <1>8, <1>9

LEMMA NameRowInv ==
  ASSUME CatalogueInv, TypeOK', NEW c \in Call, NameRow(c)
  PROVE  CatalogueInv'
<1>. USE DEF CatalogueInv, NameRow
<1>. DEFINE r == call[c].row
<1>1. r \in Row /\ call[c].at \in Holding /\ r \in stored
  BY CallFields DEF At, TypeOK, Holding
<1>2. PICK h \in Host : doc'[r] = Named(h, call[c].data)
  BY <1>1 DEF TypeOK
<1>20. doc'[r].id \in Host /\ doc'[r].data = call[c].data
  BY <1>2 DEF Named
<1>3. \A q \in Row \ {r} : /\ columns'[q] = columns[q] /\ asked'[q] = asked[q]
                           /\ doc'[q] = doc[q]
                           /\ q \in torn => q \in torn'
                           /\ q \in broken => q \in broken'
  BY DEF TypeOK
<1>4. c \notin overtaken => columns[r] = call[c].data
  BY <1>1 DEF StillAsRead, Promise, At
<1>5. /\ c \in overtaken /\ r \in Issuer => r \in torn'
      /\ c \in overtaken => r \in lost'
      /\ lost \subseteq lost'
  BY DEF Wrote
<1>6. r \in (Issuer \cap stored) \ torn' =>
        doc'[r].data = columns'[r] /\ \E g \in Host : doc'[r] = Named(g, columns'[r])
  BY <1>2, <1>20, <1>4, <1>5
<1>7. r \in (Issuer \cap stored) \ lost' => columns'[r] = asked'[r]
  BY <1>5 DEF ProfileUpdatesKept
<1>8. r \in Badge \cap stored =>
        /\ columns'[r] = asked'[r]
        /\ r \notin lost' => doc'[r].data = asked'[r] /\ doc'[r].id \in Host
  <2>1. r \in Badge \cap stored => columns[r] = asked[r]
    BY DEF BadgeUpdatesKept, getBadge, listBadges
  <2>. QED  BY <2>1, <1>20, <1>4, <1>5
<1>9. Wrote(c, r)
  OBVIOUS
<1>. HIDE DEF r, NameRow
<1>10. call[c].row = r  BY DEF r
<1>. QED  BY <1>1, <1>3, <1>6, <1>7, <1>8, <1>9, <1>10, WroteInv

LEMMA updateIssuerInv ==
  ASSUME CatalogueInv, TypeOK', NEW c \in Call, updateIssuer(c)
  PROVE  CatalogueInv'
<1>. USE DEF CatalogueInv, updateIssuer
<1>. DEFINE r == call[c].row
<1>1. r \in Issuer /\ r \in Row /\ call[c].at \in Holding /\ r \in stored
  BY CallFields DEF At, TypeOK, Holding, OfIssuer
<1>2. /\ \E h \in Host : doc'[r] = Named(h, call[c].data)
      /\ columns'[r] = call[c].data
      /\ asked'[r] = Merge(asked[r], call[c].change)
  BY <1>1 DEF TypeOK
<1>3. \A q \in Row \ {r} : /\ columns'[q] = columns[q] /\ asked'[q] = asked[q]
                           /\ doc'[q] = doc[q]
                           /\ q \in torn => q \in torn'
                           /\ q \in broken => q \in broken'
  BY DEF TypeOK
<1>4. c \notin overtaken => call[c].data = Merge(columns[r], call[c].change)
  BY <1>1 DEF StillAsRead, Promise, At
<1>5. (c \in overtaken => r \in lost') /\ lost \subseteq lost'
  BY DEF Wrote
<1>6. r \notin lost' => columns'[r] = asked'[r]
  BY <1>1, <1>2, <1>4, <1>5 DEF ProfileUpdatesKept
<1>7. r \notin Badge  BY <1>1, RowsAssumption
<1>8. doc'[r].data = columns'[r] /\ \E h \in Host : doc'[r] = Named(h, columns'[r])
  BY <1>2 DEF Named
<1>9. Wrote(c, r)
  OBVIOUS
<1>. HIDE DEF r, updateIssuer
<1>10. call[c].row = r  BY DEF r
<1>. QED  BY <1>1, <1>3, <1>6, <1>7, <1>8, <1>9, <1>10, WroteInv

LEMMA updateBadgeInv ==
  ASSUME CatalogueInv, TypeOK', NEW c \in Call, updateBadge(c)
  PROVE  CatalogueInv'
<1>. USE DEF CatalogueInv, updateBadge
<1>. DEFINE change == call[c].change
<1>0. PICK r \in Row : call[c].row = r
  BY CallFields DEF At, TypeOK
<1>1. r \in Badge /\ r \in Row /\ call[c].at \in Holding /\ r \in stored
  BY <1>0, CallFields DEF At, TypeOK, Holding, OfBadge
<1>2. /\ doc'[r] = call[c].doc
      /\ columns'[r] = Merge(columns[r], change)
      /\ asked'[r] = Merge(asked[r], change)
  BY <1>0, <1>1 DEF TypeOK
<1>3. \A q \in Row \ {r} : /\ columns'[q] = columns[q] /\ asked'[q] = asked[q]
                           /\ doc'[q] = doc[q]
                           /\ q \in torn => q \in torn'
                           /\ q \in broken => q \in broken'
  BY <1>0 DEF TypeOK
<1>4. columns[r] = asked[r] /\ columns'[r] = asked'[r]
  BY <1>1, <1>2 DEF BadgeUpdatesKept, getBadge, listBadges
<1>5. (c \in overtaken => r \in lost') /\ lost \subseteq lost'
  BY <1>0 DEF Wrote
<1>6. ASSUME r \notin lost'
      PROVE  /\ doc'[r].data = asked'[r]
             /\ Creating(r)' \/ r \in broken' \/ doc'[r].id \in Host
  <2>1. call[c].doc = [doc[r] EXCEPT !.data = Merge(doc[r].data, change)]
    BY <1>0, <1>1, <1>5, <1>6 DEF StillAsRead, Promise, At
  <2>2. doc[r] \in Document  BY <1>1 DEF TypeOK
  <2>3. doc'[r].id = doc[r].id /\ doc'[r].data = Merge(doc[r].data, change)
    BY <1>2, <2>1, <2>2 DEF Document
  <2>4. doc[r].data = asked[r] /\ (Creating(r) \/ r \in broken \/ doc[r].id \in Host)
    BY <1>1, <1>5, <1>6 DEF BadgeUpdatesKept, getBadge, listBadges
  <2>5. Creating(r) => Creating(r)'
    <3>1. call[c].at # "nameRow"  BY DEF At
    <3>2. \A d \in Call : d # c => call'[d] = call[d]  BY Moves DEF Wrote, TypeOK
    <3>. QED  BY <3>1, <3>2 DEF Creating, At
  <2>. QED  BY <1>2, <2>3, <2>4, <2>5
<1>7. r \notin Issuer  BY <1>1, RowsAssumption
<1>8. Wrote(c, r)  BY <1>0
<1>. HIDE DEF change, updateBadge
<1>. QED  BY <1>0, <1>1, <1>3, <1>4, <1>6, <1>7, <1>8, WroteInv

(* What is deleted is referred to by nothing: the foreign keys.             *)
LEMMA DeletesInv ==
  ASSUME CatalogueInv, TypeOK', NEW c \in Call, NEW r \in Row, Deletes(c, r),
         call[c].at # "nameRow"
  PROVE  CatalogueInv'
<1>. USE DEF CatalogueInv, Deletes, Ends
<1>1. call'[c] = Idle /\ \A d \in Call : d # c => call'[d] = call[d]
  BY Moves DEF TypeOK
<1>2. HeldIsUsed'  BY <1>1 DEF HeldIsUsed, Idle, Holding
<1>3. StillAsRead'  BY <1>1 DEF StillAsRead, Promise, Idle, Holding
<1>4. \A q \in Row : Creating(q) => Creating(q)'  BY <1>1 DEF Creating, At
<1>5. ProfileServedIsStored'  BY <1>4 DEF ProfileServedIsStored, getIssuer, listIssuers, Named, Row
<1>6. BadgeUpdatesKept'  BY <1>4 DEF BadgeUpdatesKept, getBadge, listBadges, Row
<1>7. ProfileUpdatesKept'  BY DEF ProfileUpdatesKept
<1>8. NothingDangles'
  <2>1. \A b \in Badge \cap stored : issuerOf[b] # r  BY DEF Referenced
  <2>2. \A a \in awarded : of[a] # r  BY DEF Referenced
  <2>. QED  BY <2>1, <2>2 DEF NothingDangles
<1>. QED  BY <1>2, <1>3, <1>5, <1>6, <1>7, <1>8

LEMMA createAssertionInv ==
  ASSUME CatalogueInv, TypeOK', NEW c \in Call, NEW a \in Assertion, createAssertion(c, a)
  PROVE  CatalogueInv'
<1>. USE DEF CatalogueInv, createAssertion, Ends
<1>1. call'[c] = Idle /\ \A d \in Call : d # c => call'[d] = call[d]
  BY Moves DEF TypeOK
<1>2. HeldIsUsed' /\ StillAsRead'  BY <1>1 DEF HeldIsUsed, StillAsRead, Idle, Holding
<1>3. \A q \in Row : Creating(q) => Creating(q)'  BY <1>1 DEF Creating, At
<1>4. ProfileServedIsStored'  BY <1>3 DEF ProfileServedIsStored, getIssuer, listIssuers, Named, Row
<1>5. BadgeUpdatesKept'  BY <1>3 DEF BadgeUpdatesKept, getBadge, listBadges, Row
<1>6. ProfileUpdatesKept'  BY DEF ProfileUpdatesKept
<1>7. NothingDangles'
  <2>1. /\ of'[a] \in stored /\ by'[a] = issuerOf[of'[a]]
        /\ \A e \in awarded : of'[e] = of[e] /\ by'[e] = by[e]
    BY DEF TypeOK
  <2>. QED  BY <2>1 DEF NothingDangles
<1>. QED  BY <1>2, <1>4, <1>5, <1>6, <1>7

LEMMA StepInv ==
  ASSUME CatalogueInv, TypeOK', NEW c \in Call, Step(c)
  PROVE  CatalogueInv'
<1>. USE DEF CatalogueInv, At
<1>1. ASSUME NEW i \in Issuer, NEW d \in Data, createIssuer(c, i, d)  PROVE  CatalogueInv'
  <2>1. i \in Row /\ i \notin Badge  BY RowsAssumption DEF Row
  <2>. QED  BY <1>1, <2>1, InsertsInv DEF createIssuer, Holding
<1>2. ASSUME NEW i \in Issuer, NEW d \in Data, FindIssuer(c, i, d)  PROVE  CatalogueInv'
  BY <1>2, ReadsInv DEF FindIssuer, Holding, notes
<1>3. ASSUME NEW i \in Issuer, NEW h \in Change, ReadIssuer(c, i, h)  PROVE  CatalogueInv'
  <2>. DEFINE s == [at |-> "writeIssuer", row |-> i, change |-> h, data |-> Merge(columns[i], h)]
  <2>1. s.row \in used /\ Promise(s, stored, columns, doc)
    BY <1>3 DEF ReadIssuer, TypeOK, Promise
  <2>. QED  BY <1>3, <2>1, ReadsInv DEF ReadIssuer, notes
<1>4. ASSUME NEW i \in Issuer, hasAssociatedBadges(c, i)  PROVE  CatalogueInv'
  BY <1>4, ReadsInv DEF hasAssociatedBadges, Holding, notes
<1>5. CASE hasAssociatedAssertions(c)
  BY <1>5, ReadsInv DEF hasAssociatedAssertions, Holding, notes
<1>6. CASE deleteIssuer(c) \/ deleteBadge(c)
  <2>1. call[c].row \in Row  BY <1>6, CallFields DEF deleteIssuer, deleteBadge, TypeOK
  <2>. QED  BY <1>6, <2>1, DeletesInv DEF deleteIssuer, deleteBadge
<1>7. ASSUME NEW b \in Badge, createBadge(c, b)  PROVE  CatalogueInv'
  <2>1. call[c].row \in stored /\ call[c].data \in Data /\ b \in Row
    BY <1>7, CallFields DEF createBadge, TypeOK, Row
  <2>2. issuerOf' = [issuerOf EXCEPT ![b] = call[c].row]  BY <1>7 DEF createBadge
  <2>3. issuerOf'[b] = call[c].row /\ \A q \in Badge \ {b} : issuerOf'[q] = issuerOf[q]
    BY <2>2 DEF TypeOK
  <2>. QED  BY <1>7, <2>1, <2>3, InsertsInv DEF createBadge, Holding
<1>8. ASSUME NEW b \in Badge, FindBadge(c, b) \/ ReadAwardedBadge(c, b)  PROVE  CatalogueInv'
  BY <1>8, ReadsInv DEF FindBadge, ReadAwardedBadge, Holding, notes
<1>9. ASSUME NEW b \in Badge, NEW h \in Change, ReadBadge(c, b, h)  PROVE  CatalogueInv'
  <2>. DEFINE s == [at |-> "writeBadge", row |-> b, change |-> h,
                    doc |-> [doc[b] EXCEPT !.data = Merge(@, h)]]
  <2>1. s.row \in used /\ Promise(s, stored, columns, doc)
    BY <1>9 DEF ReadBadge, TypeOK, Promise
  <2>. QED  BY <1>9, <2>1, ReadsInv DEF ReadBadge, notes
<1>10. CASE hasBadgeAssertions(c)
  BY <1>10, ReadsInv DEF hasBadgeAssertions, Holding, notes
<1>11. CASE Fails(c)
  BY <1>11, ReadsInv DEF Fails, Ends, Idle, Holding
<1>. QED
  BY <1>1, <1>2, <1>3, <1>4, <1>5, <1>6, <1>7, <1>8, <1>9, <1>10, <1>11,
     NameRowInv, updateIssuerInv, updateBadgeInv, createAssertionInv DEF Step

LEMMA RestartInv == CatalogueInv /\ TypeOK' /\ Restart => CatalogueInv'
<1>. SUFFICES ASSUME CatalogueInv, TypeOK', Restart  PROVE  CatalogueInv'
  OBVIOUS
<1>. USE DEF CatalogueInv, Restart, tables
<1>1. \A c \in Call : call'[c].at = "idle"  BY DEF Idle
<1>2. HeldIsUsed' /\ StillAsRead'  BY <1>1 DEF HeldIsUsed, StillAsRead, Holding
<1>3. \A r \in Row : Creating(r) => r \in broken'  BY DEF Creating
<1>4. broken \subseteq broken'
  OBVIOUS
<1>5. ProfileServedIsStored'  BY <1>3, <1>4 DEF ProfileServedIsStored, getIssuer, listIssuers, Named, Row
<1>6. BadgeUpdatesKept'  BY <1>3, <1>4 DEF BadgeUpdatesKept, getBadge, listBadges, Row
<1>7. ProfileUpdatesKept' /\ NothingDangles'  BY DEF ProfileUpdatesKept, NothingDangles
<1>. QED  BY <1>2, <1>5, <1>6, <1>7

LEMMA NextInv == CatalogueInv /\ [Next]_vars => CatalogueInv'
<1>. SUFFICES ASSUME CatalogueInv, [Next]_vars  PROVE  CatalogueInv'
  OBVIOUS
<1>1. TypeOK'  BY NextType DEF CatalogueInv
<1>2. CASE UNCHANGED vars
  BY <1>1, <1>2
     DEF vars, tables, notes, CatalogueInv, HeldIsUsed, StillAsRead, ProfileServedIsStored,
         getIssuer, listIssuers, Creating, At, ProfileUpdatesKept, BadgeUpdatesKept, getBadge,
         listBadges, NothingDangles
<1>. QED  BY <1>1, <1>2, StepInv, RestartInv DEF Next

(* The document stored for a profile is the one served for it, however the  *)
(* statements of creations and updates interleave, with the exceptions      *)
(* named.                                                                   *)
THEOREM ProfilesServedAreStored == Spec => []ProfileServedIsStored
<1>1. CatalogueInv => ProfileServedIsStored  BY DEF CatalogueInv
<1>. QED  BY <1>1, InitInv, NextInv, PTL DEF Spec

(* No update of a profile is lost by a handler that nobody has overtaken.   *)
THEOREM ProfilesKeepUpdates == Spec => []ProfileUpdatesKept
<1>1. CatalogueInv => ProfileUpdatesKept  BY DEF CatalogueInv
<1>. QED  BY <1>1, InitInv, NextInv, PTL DEF Spec

(* The columns of a badge class never lose an update; its document only to  *)
(* a handler that was overtaken.                                            *)
THEOREM BadgesKeepUpdates == Spec => []BadgeUpdatesKept
<1>1. CatalogueInv => BadgeUpdatesKept  BY DEF CatalogueInv
<1>. QED  BY <1>1, InitInv, NextInv, PTL DEF Spec

(* Nothing refers to a profile or badge class that is gone.                 *)
THEOREM ReferencesHold == Spec => []NothingDangles
<1>1. CatalogueInv => NothingDangles  BY DEF CatalogueInv
<1>. QED  BY <1>1, InitInv, NextInv, PTL DEF Spec
=============================================================================
