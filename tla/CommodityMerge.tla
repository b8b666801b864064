---------------------------- MODULE CommodityMerge ----------------------------
(***************************************************************************)
(* The commodities staff choose from, the gallery images and documents     *)
(* that name them, and the script that merges the commodities whose names  *)
(* come to the same: the staff requests of features/commodities, statement *)
(* by statement, and the phases duplicate-data and contract of             *)
(* scripts/run-independent-commodity-catalog-migration.mjs, each one       *)
(* transaction under locks that keep every writer out.                     *)
(*                                                                         *)
(* A name is what service, script and unique index all compare: lower case *)
(* with blanks, underscores, slashes and hyphens folded into one blank.    *)
(***************************************************************************)
EXTENDS Integers, FiniteSets

CONSTANTS
  CatalogServices, Freight,  \* service types; the one documents belong to
  Names,                     \* normalized commodity names
  CommodityIds,              \* ids the sequence can hand out
  Images, Documents,         \* rows that may name a commodity
  CatalogEditors,            \* staff requests under way at once
  NoRow, NoName, Free        \* no such row, no text, no request

ASSUME CommodityIdsAreNumbers == CommodityIds \subseteq Nat \ {0}
ASSUME PlacesAreFinite ==
  IsFiniteSet(Images) /\ IsFiniteSet(Documents) /\ Images \cap Documents = {}
ASSUME RowsAreTold ==
  /\ NoName \notin Names
  /\ \A s \in CatalogServices, n \in Names, b \in BOOLEAN :
       NoRow # [service |-> s, name |-> n, described |-> b]

VARIABLES
  commodities,  \* [CommodityIds -> row, or NoRow]
  places,       \* [Places -> the id it names, 0 for none, and its text]
  issued,       \* the last id the sequence has handed out
  uniqueNames,  \* the contract has created the unique index
  editor        \* [CatalogEditors -> request under way, or Free]

catalogVars == <<commodities, places, issued, uniqueNames, editor>>

Places == Images \cup Documents
Commodity == [service : CatalogServices, name : Names, described : BOOLEAN]
Reference == [id : CommodityIds \cup {0}, text : Names \cup {NoName}]

Exists(c) == commodities[c] # NoRow
SameName(c, d) ==
  /\ Exists(c) /\ Exists(d)
  /\ commodities[c].service = commodities[d].service
  /\ commodities[c].name = commodities[d].name

Taken(s, n, but) ==
  \E c \in CommodityIds \ {but} :
    Exists(c) /\ commodities[c].service = s /\ commodities[c].name = n

\* The unique index, once the contract has created it.
IndexAllows(s, n, but) == uniqueNames => ~Taken(s, n, but)

CatalogInit ==
  /\ commodities \in [CommodityIds -> Commodity \cup {NoRow}]
  /\ places \in [Places -> Reference]
  /\ \A p \in Places : places[p].id # 0 => Exists(places[p].id)
  /\ \A p \in Images : places[p].text = NoName  \* only documents keep a text
  /\ issued \in CommodityIds \cup {0}
  /\ \A c \in CommodityIds : Exists(c) => c <= issued
  /\ uniqueNames = FALSE
  /\ editor = [e \in CatalogEditors |-> Free]

-----------------------------------------------------------------------------
(* Requests.  A request holds what it has read while others write.         *)

Open(e, request) == editor[e] = Free /\ editor' = [editor EXCEPT ![e] = request]
Continue(e, request) == editor' = [editor EXCEPT ![e] = request]
End(e) == editor' = [editor EXCEPT ![e] = Free]
Due(e, pc) == editor[e] # Free /\ editor[e].pc = pc

Request == [pc : {"insert"}, row : Commodity]
  \cup [pc : {"check", "reload", "update", "restore"}, id : CommodityIds, row : Commodity]
  \cup [pc : {"documents", "delete"}, id : CommodityIds, name : Names]
  \cup [pc : {"refer"}, id : CommodityIds, place : Places, text : Names \cup {NoName}]

\* create() reads the names of the service before it inserts.
CheckNewName(e, row) ==
  /\ ~Taken(row.service, row.name, 0)
  /\ Open(e, [pc |-> "insert", row |-> row])
  /\ UNCHANGED <<commodities, places, issued, uniqueNames>>

InsertCommodity(e) ==
  /\ Due(e, "insert") /\ End(e)
  /\ issued + 1 \in CommodityIds  \* bound
  /\ issued' = issued + 1
  /\ LET row == editor[e].row IN
       IF IndexAllows(row.service, row.name, 0)
       THEN commodities' = [commodities EXCEPT ![issued + 1] = row]
       ELSE UNCHANGED commodities
  /\ UNCHANGED <<places, uniqueNames>>

\* update() loads the row, reads the names of the service it moves to, and
\* saves the whole entity, which TypeORM reloads first: one UPDATE, or an
\* INSERT of the same id if the row is gone.
LoadCommodity(e, c, row) ==
  /\ Exists(c)
  /\ Open(e, [pc |-> "check", id |-> c, row |-> row])
  /\ UNCHANGED <<commodities, places, issued, uniqueNames>>

CheckName(e) ==
  /\ Due(e, "check")
  /\ LET r == editor[e] IN
       IF Taken(r.row.service, r.row.name, r.id) THEN End(e)
       ELSE Continue(e, [r EXCEPT !.pc = "reload"])
  /\ UNCHANGED <<commodities, places, issued, uniqueNames>>

ReloadCommodity(e) ==
  /\ Due(e, "reload")
  /\ Continue(e, [editor[e] EXCEPT
                    !.pc = IF Exists(editor[e].id) THEN "update" ELSE "restore"])
  /\ UNCHANGED <<commodities, places, issued, uniqueNames>>

SaveCommodity(e) ==
  /\ Due(e, "update") \/ Due(e, "restore")
  /\ End(e)
  /\ LET r == editor[e] IN
       IF /\ IndexAllows(r.row.service, r.row.name, r.id)
          /\ Exists(r.id) <=> r.pc = "update"
       THEN commodities' = [commodities EXCEPT ![r.id] = r.row]
       ELSE UNCHANGED commodities
  /\ UNCHANGED <<places, issued, uniqueNames>>

\* isInUse: an image by its id, a document by id or by the text it keeps.
UsedByImage(c) == \E p \in Images : places[p].id = c
UsedByDocument(c, name) ==
  \E p \in Documents : places[p].id = c \/ places[p].text = name

\* delete() loads the row and counts the images in one step of this model:
\* an image stored in between is caught again by its foreign key.  The tables
\* of documents and inquiries are read in one step, too.
CheckImages(e, c) ==
  /\ Exists(c) /\ ~UsedByImage(c)
  /\ Open(e, [pc |-> "documents", id |-> c, name |-> commodities[c].name])
  /\ UNCHANGED <<commodities, places, issued, uniqueNames>>

CheckDocuments(e) ==
  /\ Due(e, "documents")
  /\ IF UsedByDocument(editor[e].id, editor[e].name) THEN End(e)
     ELSE Continue(e, [editor[e] EXCEPT !.pc = "delete"])
  /\ UNCHANGED <<commodities, places, issued, uniqueNames>>

DeleteCommodity(e) ==
  /\ Due(e, "delete") /\ End(e)
  /\ IF UsedByImage(editor[e].id) THEN UNCHANGED commodities
     ELSE commodities' = [commodities EXCEPT ![editor[e].id] = NoRow]
  /\ UNCHANGED <<places, issued, uniqueNames>>

\* An image or a document that names a commodity: the row is read first, a
\* document keeps a name as text, and only the image has a foreign key.
ChooseCommodity(e, p, c, text) ==
  /\ Exists(c)
  /\ p \in Documents => commodities[c].service = Freight
  /\ text \in IF p \in Documents THEN Names ELSE {NoName}
  /\ Open(e, [pc |-> "refer", id |-> c, place |-> p, text |-> text])
  /\ UNCHANGED <<commodities, places, issued, uniqueNames>>

StoreReference(e) ==
  /\ Due(e, "refer") /\ End(e)
  /\ LET r == editor[e] IN
       IF r.place \in Images /\ ~Exists(r.id) THEN UNCHANGED places
       ELSE places' = [places EXCEPT ![r.place] = [id |-> r.id, text |-> r.text]]
  /\ UNCHANGED <<commodities, issued, uniqueNames>>

-----------------------------------------------------------------------------
(* The merge.                                                              *)

References(c) == {p \in Places : places[p].id = c}
SameNamed(c) == {d \in CommodityIds : SameName(c, d)}

\* Most references first, then the lowest id.
Precedes(c, d) ==
  \/ Cardinality(References(c)) > Cardinality(References(d))
  \/ Cardinality(References(c)) = Cardinality(References(d)) /\ c <= d

Canonical(c) ==
  CHOOSE d \in SameNamed(c) : \A other \in SameNamed(c) : Precedes(d, other)

Orphans == {p \in Places : places[p].id # 0 /\ ~Exists(places[p].id)}
Duplicates == {c \in CommodityIds : \E d \in CommodityIds \ {c} : SameName(c, d)}

\* Mutant of MergedCommodities: the other rows' descriptions go with them.
OwnDescriptionOnly ==
  [c \in CommodityIds |->
     IF Exists(c) /\ Canonical(c) = c THEN commodities[c] ELSE NoRow]

\* The canonical row keeps the first real description of its group.
MergedCommodities ==
  [c \in CommodityIds |->
     IF Exists(c) /\ Canonical(c) = c
     THEN [commodities[c] EXCEPT !.described =
             \E d \in SameNamed(c) : commodities[d].described]
     ELSE NoRow]

\* Only the id is rewritten: texts are history.
MergedPlaces ==
  [p \in Places |->
     IF places[p].id # 0 /\ Exists(places[p].id)
     THEN [places[p] EXCEPT !.id = Canonical(places[p].id)]
     ELSE places[p]]

MergeDuplicates ==
  /\ Orphans = {}
  /\ commodities' = MergedCommodities
  /\ places' = MergedPlaces
  /\ UNCHANGED <<issued, uniqueNames, editor>>

\* The contract refuses while duplicates are left.
ContractNames ==
  /\ ~uniqueNames /\ Duplicates = {}
  /\ uniqueNames' = TRUE
  /\ UNCHANGED <<commodities, places, issued, editor>>

-----------------------------------------------------------------------------

CommodityRequest(e) ==
  \/ \E row \in Commodity : CheckNewName(e, row)
  \/ \E c \in CommodityIds, row \in Commodity : LoadCommodity(e, c, row)
  \/ \E c \in CommodityIds : CheckImages(e, c)
  \/ \E p \in Places, c \in CommodityIds, text \in Names \cup {NoName} :
       ChooseCommodity(e, p, c, text)
  \/ InsertCommodity(e)
  \/ CheckName(e) \/ ReloadCommodity(e) \/ SaveCommodity(e)
  \/ CheckDocuments(e) \/ DeleteCommodity(e)
  \/ StoreReference(e)

CatalogNext ==
  \/ \E e \in CatalogEditors : CommodityRequest(e)
  \/ MergeDuplicates
  \/ ContractNames

CatalogTypeOK ==
  /\ commodities \in [CommodityIds -> Commodity \cup {NoRow}]
  /\ places \in [Places -> Reference]
  /\ issued \in CommodityIds \cup {0}
  /\ uniqueNames \in BOOLEAN
  /\ editor \in [CatalogEditors -> Request \cup {Free}]

\* Merging changes which row a reference names, never what it says: each
\* image and document still names a commodity of the same service and name,
\* keeps its text, no name is lost, none is left twice, and a name that had
\* a description has one still (buildIndependentCommodityMergePlan and what
\* the SQL of duplicate-data makes of it).
KeepsMeaning ==
  /\ \A p \in Places :
       /\ places'[p].text = places[p].text
       /\ places[p].id # 0 =>
            /\ places'[p].id \in CommodityIds
            /\ commodities'[places'[p].id] # NoRow
            /\ commodities'[places'[p].id].service = commodities[places[p].id].service
            /\ commodities'[places'[p].id].name = commodities[places[p].id].name
  /\ \A c \in CommodityIds : Exists(c) =>
       \E d \in CommodityIds :
         /\ commodities'[d] # NoRow
         /\ commodities'[d].service = commodities[c].service
         /\ commodities'[d].name = commodities[c].name
         /\ commodities[c].described => commodities'[d].described
  /\ Duplicates' = {}

MergeKeepsMeaning == [][MergeDuplicates => KeepsMeaning]_catalogVars
=============================================================================
