------------------------------ MODULE Catalogue ------------------------------
(***************************************************************************)
(* Issuer profiles, badge classes and the assertions that refer to them.   *)
(* A profile and a badge class are stored twice in one row: in columns and *)
(* in the JSON document that other Open Badges software reads.             *)
(*                                                                         *)
(* A row is inserted with a document that carries a placeholder for its    *)
(* identifier and corrected by a second statement; an update reads the     *)
(* row, merges the request and writes.  Profiles write back all columns    *)
(* and a document made from them; badge classes write the columns the      *)
(* request names and the document as it was read, changed.                 *)
(*                                                                         *)
(* Handlers that await are slots of Call; one SQL statement is one step.   *)
(* The middleware in front of the routes only refuses requests.            *)
(***************************************************************************)
EXTENDS Naturals

CONSTANTS
  Issuer, Badge, Assertion,   \* identifiers; each is generated once
  Field, Value,               \* what a request can set: name, description, ...
  Url,                        \* the field url; its value stands for the origin of the URL
  Host,                       \* the origins at which requests reach the server
  Placeholder,                \* an identifier that is no row's
  Call

ASSUME RowsAssumption ==
  /\ Issuer \cap Badge = {}
  /\ Issuer # {} /\ Badge # {} /\ Value # {}
ASSUME OriginsAssumption ==
  /\ Url \in Field
  /\ Host # {} /\ Host \subseteq Value
  /\ Placeholder \notin Value

Row == Issuer \cup Badge
Data == [Field -> Value]
Change == UNION {[S -> Value] : S \in SUBSET Field}

(* The "id" of a document: a placeholder, or the identifier of its row,     *)
(* then the origin it is preceded by.  A document with the placeholder may  *)
(* also have an image and a link to a DID, which no other has.              *)
Document == [id : Value \cup {Placeholder}, data : Data]

VARIABLES
  used,        \* identifiers of rows there are or were
  stored,      \* rows of issuer_profiles and badge_classes
  columns,     \* the columns of each row
  doc,         \* issuer_json, badge_json
  issuerOf,    \* issuer_id of a badge class
  awarded,     \* rows of badge_assertions
  of, by,      \* badge_id and issuer_id of an assertion
  call,
  asked,       \* history: what the statements about a row were asked to make of it
  overtaken,   \* history: handlers on whose row another has written since they read it
  lost,        \* history: rows on which such a handler has written
  torn,        \* history: profiles whose document such a creation has written
  broken       \* history: rows whose creation ended between its statements

tables == <<used, stored, columns, doc, issuerOf, awarded, of, by>>
notes == <<asked, overtaken, lost, torn, broken>>
vars == <<tables, call, notes>>

-----------------------------------------------------------------------------
Idle == [at |-> "idle"]
CallState ==
  [at : {"idle"}]
    \cup [at : {"nameRow"}, row : Row, data : Data]
    \cup [at : {"writeIssuer"}, row : Issuer, data : Data, change : Change]
    \cup [at : {"writeBadge"}, row : Badge, doc : Document, change : Change]
    \cup [at : {"countAssertions", "deleteIssuer"}, row : Issuer]
    \cup [at : {"countBadgeAssertions", "deleteBadge", "award"}, row : Badge]
    \cup [at : {"insertBadge"}, row : Issuer, data : Data]

TypeOK ==
  /\ used \subseteq Row
  /\ stored \subseteq used
  /\ columns \in [Row -> Data]
  /\ doc \in [Row -> Document]
  /\ issuerOf \in [Badge -> Issuer]
  /\ awarded \subseteq Assertion
  /\ of \in [Assertion -> Badge]
  /\ by \in [Assertion -> Issuer]
  /\ call \in [Call -> CallState]
  /\ asked \in [Row -> Data]
  /\ overtaken \subseteq Call
  /\ lost \subseteq Row
  /\ torn \subseteq Row
  /\ broken \subseteq Row

(* Rows, badges and assertions that do not exist have any contents.         *)
Init ==
  /\ used = {} /\ stored = {} /\ awarded = {}
  /\ columns = [r \in Row |-> CHOOSE d \in Data : TRUE]
  /\ doc = [r \in Row |-> [id |-> Placeholder, data |-> CHOOSE d \in Data : TRUE]]
  /\ issuerOf = [b \in Badge |-> CHOOSE i \in Issuer : TRUE]
  /\ of = [a \in Assertion |-> CHOOSE b \in Badge : TRUE]
  /\ by = [a \in Assertion |-> CHOOSE i \in Issuer : TRUE]
  /\ call = [c \in Call |-> Idle]
  /\ asked = columns
  /\ overtaken = {} /\ lost = {} /\ torn = {} /\ broken = {}

At(c, where) == call[c].at = where
Goes(c, s) == call' = [call EXCEPT ![c] = s]
Ends(c) == Goes(c, Idle) /\ overtaken' = overtaken \ {c}
Merge(data, change) ==
  [f \in Field |-> IF f \in DOMAIN change THEN change[f] ELSE data[f]]

(* Handler c has written to row r.                                          *)
Holds(c, r) == call[c].at \in {"nameRow", "writeIssuer", "writeBadge"} /\ call[c].row = r
Wrote(c, r) ==
  /\ Goes(c, Idle)
  /\ overtaken' = (overtaken \cup {d \in Call : Holds(d, r)}) \ {c}
  /\ lost' = IF c \in overtaken THEN lost \cup {r} ELSE lost
  /\ UNCHANGED <<used, stored, issuerOf, awarded, of, by>>

(* The new row of handler c, whose document has yet to be corrected.        *)
Inserts(c, r, data) ==
  /\ r \notin used
  /\ used' = used \cup {r}
  /\ stored' = stored \cup {r}
  /\ columns' = [columns EXCEPT ![r] = data]
  /\ doc' = [doc EXCEPT ![r] = [id |-> Placeholder, data |-> data]]
  /\ asked' = [asked EXCEPT ![r] = data]
  /\ Goes(c, [at |-> "nameRow", row |-> r, data |-> data])
  /\ UNCHANGED <<awarded, of, by, overtaken, lost, torn, broken>>

-----------------------------------------------------------------------------
(* Profiles.                                                                *)

createIssuer(c, i, data) ==
  /\ At(c, "idle")
  /\ Inserts(c, i, data)
  /\ UNCHANGED issuerOf

(* A document with the identifier, under the origin of the request.         *)
Named(h, data) == [id |-> h, data |-> data]

(* The document is written again, now with the identifier.  The data is     *)
(* that of the request, or, the same, of the row as it was inserted.        *)
NameRow(c) ==
  LET s == call[c] IN
  /\ At(c, "nameRow")
  /\ s.row \in stored
  /\ \E h \in Host : doc' = [doc EXCEPT ![s.row] = Named(h, s.data)]
  /\ torn' = IF c \in overtaken THEN torn \cup ({s.row} \cap Issuer) ELSE torn
  /\ UNCHANGED <<columns, asked, broken>>
  /\ Wrote(c, s.row)

(* Variant that would be a bug: what is stored wins over the request.       *)
ReadIssuer_KeepsStored(c, i, change) ==
  /\ At(c, "idle") /\ i \in stored
  /\ Goes(c, [at |-> "writeIssuer", row |-> i, change |-> change, data |-> columns[i]])
  /\ UNCHANGED <<tables, notes>>

(* updateIssuer reads the row and merges it with the request.               *)
ReadIssuer(c, i, change) ==
  /\ At(c, "idle") /\ i \in stored
  /\ Goes(c, [at |-> "writeIssuer", row |-> i, change |-> change,
              data |-> Merge(columns[i], change)])
  /\ UNCHANGED <<tables, notes>>

(* Variant that would be a bug: only the columns the request names are      *)
(* written, with a document made from the row as it was read.               *)
updateIssuer_NamedOnly(c) ==
  LET s == call[c] IN
  /\ At(c, "writeIssuer") /\ s.row \in stored
  /\ columns' = [columns EXCEPT ![s.row] = Merge(@, s.change)]
  /\ \E h \in Host : doc' = [doc EXCEPT ![s.row] = Named(h, s.data)]
  /\ asked' = [asked EXCEPT ![s.row] = Merge(@, s.change)]
  /\ torn' = torn \ {s.row} /\ broken' = broken \ {s.row}
  /\ Wrote(c, s.row)

(* All columns and the document in one statement.                           *)
updateIssuer(c) ==
  LET s == call[c] IN
  /\ At(c, "writeIssuer") /\ s.row \in stored
  /\ columns' = [columns EXCEPT ![s.row] = s.data]
  /\ \E h \in Host : doc' = [doc EXCEPT ![s.row] = Named(h, s.data)]
  /\ asked' = [asked EXCEPT ![s.row] = Merge(@, s.change)]
  /\ torn' = torn \ {s.row} /\ broken' = broken \ {s.row}
  /\ Wrote(c, s.row)

(* deleteIssuer: two counts, in this order, and then the deletion.          *)
hasAssociatedBadges(c, i) ==
  /\ At(c, "idle") /\ i \in stored
  /\ \A b \in Badge \cap stored : issuerOf[b] # i
  /\ Goes(c, [at |-> "countAssertions", row |-> i])
  /\ UNCHANGED <<tables, notes>>

hasAssociatedAssertions(c) ==
  /\ At(c, "countAssertions")
  /\ \A a \in awarded : by[a] # call[c].row
  /\ Goes(c, [at |-> "deleteIssuer", row |-> call[c].row])
  /\ UNCHANGED <<tables, notes>>

(* The foreign keys of badge classes and of assertions; without them.       *)
Referenced_NoForeignKeys(r) == FALSE
Referenced(r) ==
  \/ \E b \in Badge \cap stored : issuerOf[b] = r
  \/ \E a \in awarded : of[a] = r \/ by[a] = r

Deletes(c, r) ==
  /\ ~Referenced(r)
  /\ stored' = stored \ {r}
  /\ Ends(c)
  /\ UNCHANGED <<used, columns, doc, issuerOf, awarded, of, by, asked, lost, torn, broken>>

deleteIssuer(c) == At(c, "deleteIssuer") /\ Deletes(c, call[c].row)

-----------------------------------------------------------------------------
(* Badge classes and assertions.                                            *)

FindIssuer(c, i, data) ==
  /\ At(c, "idle") /\ i \in stored
  /\ Goes(c, [at |-> "insertBadge", row |-> i, data |-> data])
  /\ UNCHANGED <<tables, notes>>

(* The foreign key to the profile is checked by the insert.                 *)
createBadge(c, b) ==
  /\ At(c, "insertBadge") /\ call[c].row \in stored
  /\ Inserts(c, b, call[c].data)
  /\ issuerOf' = [issuerOf EXCEPT ![b] = call[c].row]

ReadBadge(c, b, change) ==
  /\ At(c, "idle") /\ b \in stored
  /\ Goes(c, [at |-> "writeBadge", row |-> b, change |-> change,
              doc |-> [doc[b] EXCEPT !.data = Merge(@, change)]])
  /\ UNCHANGED <<tables, notes>>

(* Variant that would be a bug: all columns are written, from the document  *)
(* that was read.                                                           *)
updateBadge_AllColumns(c) ==
  LET s == call[c] IN
  /\ At(c, "writeBadge") /\ s.row \in stored
  /\ columns' = [columns EXCEPT ![s.row] = s.doc.data]
  /\ doc' = [doc EXCEPT ![s.row] = s.doc]
  /\ asked' = [asked EXCEPT ![s.row] = Merge(@, s.change)]
  /\ UNCHANGED <<torn, broken>>
  /\ Wrote(c, s.row)

(* The columns the request names, and the document as read, changed.        *)
updateBadge(c) ==
  LET s == call[c] IN
  /\ At(c, "writeBadge") /\ s.row \in stored
  /\ columns' = [columns EXCEPT ![s.row] = Merge(@, s.change)]
  /\ doc' = [doc EXCEPT ![s.row] = s.doc]
  /\ asked' = [asked EXCEPT ![s.row] = Merge(@, s.change)]
  /\ UNCHANGED <<torn, broken>>
  /\ Wrote(c, s.row)

FindBadge(c, b) ==
  /\ At(c, "idle") /\ b \in stored
  /\ Goes(c, [at |-> "countBadgeAssertions", row |-> b])
  /\ UNCHANGED <<tables, notes>>

hasBadgeAssertions(c) ==
  /\ At(c, "countBadgeAssertions")
  /\ \A a \in awarded : of[a] # call[c].row
  /\ Goes(c, [at |-> "deleteBadge", row |-> call[c].row])
  /\ UNCHANGED <<tables, notes>>

deleteBadge(c) == At(c, "deleteBadge") /\ Deletes(c, call[c].row)

(* createAssertion reads the badge class, whose profile it will name.  What *)
(* follows the insert is the subject of StatusList and Issuance.            *)
ReadAwardedBadge(c, b) ==
  /\ At(c, "idle") /\ b \in stored
  /\ Goes(c, [at |-> "award", row |-> b])
  /\ UNCHANGED <<tables, notes>>

createAssertion(c, a) ==
  LET b == call[c].row IN
  /\ At(c, "award") /\ a \notin awarded
  /\ b \in stored /\ issuerOf[b] \in stored
  /\ awarded' = awarded \cup {a}
  /\ of' = [of EXCEPT ![a] = b]
  /\ by' = [by EXCEPT ![a] = issuerOf[b]]
  /\ Ends(c)
  /\ UNCHANGED <<used, stored, columns, doc, issuerOf, asked, lost, torn, broken>>

-----------------------------------------------------------------------------
(* The handler ends where it is: a statement fails or finds no row, a count *)
(* or a foreign key forbids the deletion.                                   *)
Fails(c) ==
  /\ ~At(c, "idle")
  /\ Ends(c)
  /\ broken' = IF At(c, "nameRow") THEN broken \cup {call[c].row} ELSE broken
  /\ UNCHANGED <<tables, asked, lost, torn>>

Restart ==
  /\ call' = [c \in Call |-> Idle]
  /\ overtaken' = {}
  /\ broken' = broken \cup {r \in Row : \E c \in Call : At(c, "nameRow") /\ call[c].row = r}
  /\ UNCHANGED <<tables, asked, lost, torn>>

Step(c) ==
  \/ \E i \in Issuer, data \in Data : createIssuer(c, i, data) \/ FindIssuer(c, i, data)
  \/ NameRow(c)
  \/ \E i \in Issuer, change \in Change : ReadIssuer(c, i, change)
  \/ updateIssuer(c)
  \/ \E i \in Issuer : hasAssociatedBadges(c, i)
  \/ hasAssociatedAssertions(c)
  \/ deleteIssuer(c)
  \/ \E b \in Badge : createBadge(c, b) \/ FindBadge(c, b) \/ ReadAwardedBadge(c, b)
  \/ \E b \in Badge, change \in Change : ReadBadge(c, b, change)
  \/ updateBadge(c)
  \/ hasBadgeAssertions(c)
  \/ deleteBadge(c)
  \/ \E a \in Assertion : createAssertion(c, a)
  \/ Fails(c)

Next == (\E c \in Call : Step(c)) \/ Restart

Spec == Init /\ [][Next]_vars

-----------------------------------------------------------------------------
(* What clients are served.  The document of a profile is made from its     *)
(* columns, never the stored one, and its "id" with the origin of the url   *)
(* of the profile, not that of the server; a badge class is served as it is *)
(* stored.                                                                  *)
getIssuer(i) == Named(columns[i][Url], columns[i])
listIssuers == [i \in Issuer \cap stored |-> getIssuer(i)]
getBadge(b) == [columns |-> columns[b], doc |-> doc[b]]
listBadges == [b \in Badge \cap stored |-> getBadge(b)]

(* The two copies of a profile agree, while it is being created and after,  *)
(* however updates overlap: the document stored and the one served instead  *)
(* of it say the same of the profile, and they are the same document, its   *)
(* "id" included, if the server has one origin and the profile's url is     *)
(* there; for any other url the "id" served is one the server does not      *)
(* answer at.  The exceptions: an update between the two statements of the  *)
(* creation, until the next update; before the second of them, or when it   *)
(* never came, the stored "id" is the placeholder.                          *)
Creating(r) == \E c \in Call : At(c, "nameRow") /\ call[c].row = r
ProfileServedIsStored ==
  \A i \in (Issuer \cap stored) \ torn :
    /\ doc[i].data = listIssuers[i].data
    /\ \/ Creating(i) \/ i \in broken
       \/ doc[i].id \in Host /\ (Host = {columns[i][Url]} => doc[i] = listIssuers[i])

(* An update of a profile is not lost, unless the row was written to        *)
(* between the query of a handler and its write.                            *)
ProfileUpdatesKept ==
  \A i \in (Issuer \cap stored) \ lost : columns[i] = asked[i]

(* The columns of a badge class are the last that was asked of each,        *)
(* whatever overlaps; so is its document, and it names the badge class,     *)
(* unless handlers overlapped on the row or its creation did not end.       *)
BadgeUpdatesKept ==
  \A b \in Badge \cap stored :
    /\ listBadges[b].columns = asked[b]
    /\ b \notin lost => /\ listBadges[b].doc.data = asked[b]
                        /\ \/ Creating(b) \/ b \in broken
                           \/ listBadges[b].doc.id \in Host

(* A badge class has its profile; an assertion has its badge class, and the *)
(* profile it names is that of the badge class.  The handlers count before  *)
(* they delete, and what is inserted after the count is caught.             *)
NothingDangles ==
  /\ \A b \in Badge \cap stored : issuerOf[b] \in stored
  /\ \A a \in awarded : of[a] \in stored /\ by[a] = issuerOf[of[a]]
=============================================================================
