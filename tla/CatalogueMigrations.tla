------------------------ MODULE CatalogueMigrations ------------------------
(***************************************************************************)
(* The scripts that take the commodity catalogue from groups to            *)
(* independent Types and Commodities: the six phases of the independent    *)
(* catalogue, the three that remove the Type code, the two that build the  *)
(* package types and the two that merge those into the Types.              *)
(***************************************************************************)
EXTENDS ScriptShapes

-----------------------------------------------------------------------------
(* run-independent-commodity-catalog-migration.mjs, one script per phase,   *)
(* one advisory lock per script.                                           *)

TypesBlockers ==
  {"type columns", "type rows", "type duplicates", "assignments",
   "commodity type link"}

TypesGoal == {"commodity types", "type checks", "type uniqueness"}

\* The checks are added NOT VALID and validated in the same transaction.
TypesEffect ==
  [adds |-> TypesGoal,
   prevents |-> {<<"type checks", "type rows">>,
                 <<"type uniqueness", "type duplicates">>}]

\* The ledger entry is part of what is read before the lock.
TypesSteps ==
  <<"inspect", "remember", "lock", "decide", "running", "begin", "sql",
    "check", "commit", "succeeded">>

\* The inspection: tables, columns, checks, indexes, counts and duplicates.
TypesReads ==
  TypesBlockers \cup TypesGoal \cup {"service types"}

CommodityTypesExpand ==
  [Blank EXCEPT !.lock = "types expand", !.reads = TypesReads,
     !.steps = TypesSteps,
     !.needs = {"service types"}, !.blocks = TypesBlockers,
     !.adds = TypesEffect.adds, !.goal = TypesGoal,
     !.keepsRows = TRUE, !.recordsFailure = TRUE]

\* The expand phases after it read the ledger under their lock.
ExpandSteps ==
  <<"inspect", "lock", "ledger", "running", "begin", "sql", "check", "commit",
    "succeeded">>

BackfillBlockers == {"unresolved sources", "type name conflict", "type duplicates"}

\* Candidates from the groups and the cargo types, inserted where no Type
\* has the code.
BackfillEffect == {"types filled"}

BackfillSteps == ExpandSteps

\* The groups, cargo types and Types the candidates are built from.
BackfillReads ==
  BackfillBlockers \cup {"commodity types", "commodity groups", "types filled"}

CommodityTypesData ==
  [Blank EXCEPT !.lock = "types data", !.reads = BackfillReads,
     !.steps = BackfillSteps,
     !.needs = {"commodity types", "commodity groups"},
     !.blocks = BackfillBlockers, !.adds = BackfillEffect,
     !.goal = {"types filled"}, !.keepsRows = TRUE, !.recordsFailure = TRUE]

GalleryBlockers == {"gallery column", "assignments", "composite link"}

GalleryGoal == {"gallery type link"}

GallerySteps == ExpandSteps

\* The images, the new column, its key and its index.
GalleryReads ==
  GalleryBlockers \cup GalleryGoal \cup {"gallery images", "commodity types"}

GalleryTypes ==
  [Blank EXCEPT !.lock = "gallery types", !.reads = GalleryReads,
     !.steps = GallerySteps,
     !.needs = {"gallery images", "commodity types"},
     !.blocks = GalleryBlockers, !.adds = GalleryGoal, !.goal = GalleryGoal,
     !.keepsRows = TRUE, !.recordsFailure = TRUE]

InquiryIdBlockers == {"partial id columns", "incompatible id columns", "linked ids"}

InquiryIdGoal == {"inquiry id columns", "inquiry id links"}

InquiryIdSteps == ExpandSteps

\* The two columns, their types, their keys and the rows that use them.
InquiryIdReads ==
  InquiryIdBlockers \cup InquiryIdGoal
    \cup {"inquiries", "commodity types", "commodities"}

InquiryIds ==
  [Blank EXCEPT !.lock = "inquiry ids", !.reads = InquiryIdReads,
     !.steps = InquiryIdSteps,
     !.needs = {"inquiries", "commodity types", "commodities"},
     !.blocks = InquiryIdBlockers, !.adds = InquiryIdGoal,
     !.goal = InquiryIdGoal, !.keepsRows = TRUE, !.recordsFailure = TRUE]

\* Everything, the export and the ledger entry included, happens under the
\* table locks, in one transaction; the ledger is not consulted.
MergeSteps ==
  <<"inspect", "lock", "begin", "tables", "collect", "export", "running",
    "sql", "check", "succeeded", "commit">>

\* The commodities and everything that names one.
MergeReads ==
  {"commodities", "gallery images", "commodity duplicates", "orphan references"}

DuplicateCommodities ==
  [Blank EXCEPT !.lock = "duplicate data", !.reads = MergeReads,
     !.steps = MergeSteps,
     !.needs = {"commodities", "gallery images"},
     !.blocks = {"orphan references"}, !.removes = {"commodity duplicates"},
     !.guards = {"commodity duplicates", "orphan references"},
     !.rewrites = TRUE, !.keepsRows = TRUE]

ContractBlockers == {"commodity duplicates", "group dependents"}

ContractNeeds ==
  {"commodities", "commodity types", "types filled", "commodity groups",
   "legacy columns"}

\* One unique index, then three columns and the table of groups go.
ContractEffect ==
  [adds |-> {"commodity uniqueness"},
   removes |-> {"legacy columns", "commodity groups"},
   prevents |-> {<<"commodity uniqueness", "commodity duplicates">>}]

ContractSteps ==
  <<"inspect", "lock", "snapshot", "tables", "collect", "ledger", "export",
    "running", "sql", "check", "succeeded", "commit">>

\* Tables, columns, dependents, indexes and the rows of the catalogue.
ContractReads ==
  ContractNeeds \cup ContractBlockers \cup {"commodity uniqueness"}

GroupsContract ==
  [Blank EXCEPT !.lock = "groups contract", !.reads = ContractReads,
     !.steps = ContractSteps,
     !.needs = ContractNeeds, !.blocks = ContractBlockers,
     !.adds = ContractEffect.adds, !.removes = ContractEffect.removes,
     !.goal = ContractEffect.adds, !.guards = ContractBlockers,
     !.rewrites = TRUE]

-----------------------------------------------------------------------------
(* run-commodity-type-code-removal.mjs                                     *)

CodeNeeds == {"commodity types", "type codes", "code checks"}
CodeBlockers == {"type rows", "type duplicates"}

CodeExpandSteps ==
  <<"inspect", "lock", "ledger", "begin", "running", "sql", "check",
    "succeeded", "commit">>

\* The columns and constraints of the Types and their rows.
CodeReads ==
  CodeNeeds \cup CodeBlockers \cup {"codes optional"}

TypeCodeExpand ==
  [Blank EXCEPT !.lock = "code expand", !.reads = CodeReads,
     !.steps = CodeExpandSteps,
     !.needs = CodeNeeds, !.blocks = CodeBlockers,
     !.adds = {"codes optional"}, !.goal = {"codes optional"},
     !.keepsRows = TRUE]

\* Codes that two Types share, inquiries and EPDA rates whose code is no
\* Type's, rates that are malformed or carry another Type's id.
IdentityBlockers ==
  CodeBlockers \cup
  {"ambiguous codes", "unresolved cargo types", "malformed rates",
   "conflicting ids"}

IdentitySteps ==
  <<"inspect", "lock", "snapshot", "tables", "collect", "ledger", "export",
    "running", "sql", "check", "succeeded", "commit">>

\* The same and the inquiries and EPDA sets that name a code.
IdentityReads ==
  CodeNeeds \cup IdentityBlockers \cup {"codes optional", "type identities"}

TypeCodeData ==
  [Blank EXCEPT !.lock = "code data", !.reads = IdentityReads,
     !.steps = IdentitySteps,
     !.needs = CodeNeeds \cup {"codes optional"},
     !.blocks = IdentityBlockers, !.adds = {"type identities"},
     !.goal = {"type identities"}, !.guards = IdentityBlockers,
     !.rewrites = TRUE]

CodeContractBlockers == {"malformed rates", "duplicate rate ids"}

CodeContractNeeds == {"commodity types", "type codes", "code checks", "type identities"}

CodeContractSteps ==
  <<"inspect", "lock", "snapshot", "tables", "collect", "ledger", "export",
    "running", "sql", "check", "succeeded", "commit">>

\* The schema and the rates, by code and by id.
CodeContractReads ==
  CodeContractNeeds \cup CodeContractBlockers

TypeCodeContract ==
  [Blank EXCEPT !.lock = "code contract", !.reads = CodeContractReads,
     !.steps = CodeContractSteps,
     !.needs = CodeContractNeeds, !.blocks = CodeContractBlockers,
     !.removes = {"type codes", "code checks", "codes optional"},
     !.guards = CodeContractBlockers, !.rewrites = TRUE]

-----------------------------------------------------------------------------
(* run-package-types-migration.mjs: no ledger, one lock for both phases.   *)

\* Checked before when the table exists, and after.
PackageBlockers == {"package columns", "package duplicates"}

PackageGoal == {"package types", "package uniqueness"}

PackagePrevents == {<<"package uniqueness", "package duplicates">>}

\* The documents must be as they were read before the lock.
PackageSteps == <<"inspect", "lock", "begin", "sql", "check", "commit">>

\* The table, its columns, constraints and indexes.
PackageReads ==
  PackageGoal \cup PackageBlockers

PackageTypesExpand ==
  [Blank EXCEPT !.lock = "package types", !.reads = PackageReads,
     !.steps = PackageSteps,
     !.blocks = PackageBlockers, !.adds = PackageGoal, !.goal = PackageGoal,
     !.keepsRows = TRUE]

\* The canonical names and those the documents' containers use.
\* The canonical values, the stored ones and those of the documents.
PackageDataReads ==
  PackageReads \cup {"packages filled"}

PackageTypesData ==
  [Blank EXCEPT !.lock = "package types", !.reads = PackageDataReads,
     !.steps = PackageSteps,
     !.needs = PackageGoal, !.blocks = PackageBlockers,
     !.adds = {"packages filled"}, !.goal = {"packages filled"},
     !.keepsRows = TRUE]

-----------------------------------------------------------------------------
(* run-package-types-to-freight-forwarding-types.mjs: everything in one     *)
(* repeatable read transaction, the lock included; no ledger, no export.   *)

FreightSteps ==
  <<"snapshot", "look", "lock", "sql", "check", "commit">>

\* The Type PALLETS goes and every document that names it is rewritten; the
\* documents' cargo must be as before.
\* The Types of the freight service, the packages, the documents that use them.
FreightReads ==
  {"package types", "commodity types", "freight service", "freight types",
   "pallets type"}

FreightTypesData ==
  [Blank EXCEPT !.lock = "freight types", !.reads = FreightReads,
     !.steps = FreightSteps,
     !.needs = {"package types", "commodity types", "freight service"},
     !.adds = {"freight types"}, !.removes = {"pallets type"},
     !.goal = {"freight types"}, !.keepsRows = TRUE]

FreightContractSteps ==
  <<"snapshot", "collect", "lock", "sql", "check", "commit">>

FreightTypesContract ==
  [Blank EXCEPT !.lock = "freight types", !.reads = FreightReads,
     !.steps = FreightContractSteps,
     !.needs = {"commodity types", "freight types"},
     !.blocks = {"pallets type"}, !.goal = {"freight types"},
     !.removes = {"package types", "package uniqueness", "packages filled"},
     !.keepsRows = TRUE]

-----------------------------------------------------------------------------

CatalogueScripts ==
  [typesExpand |-> CommodityTypesExpand, typesData |-> CommodityTypesData,
   galleryTypes |-> GalleryTypes, inquiryIds |-> InquiryIds,
   duplicates |-> DuplicateCommodities, groupsContract |-> GroupsContract,
   codeExpand |-> TypeCodeExpand, codeData |-> TypeCodeData,
   codeContract |-> TypeCodeContract,
   packagesExpand |-> PackageTypesExpand, packagesData |-> PackageTypesData,
   freightData |-> FreightTypesData, freightContract |-> FreightTypesContract]

CatalogueFamilies ==
  {{"typesExpand", "typesData", "groupsContract"},
   {"galleryTypes", "inquiryIds"}, {"duplicates", "groupsContract"},
   {"codeExpand", "codeData", "codeContract"},
   {"packagesExpand", "packagesData"}, {"freightData", "freightContract"}}

CataloguePrevents ==
  TypesEffect.prevents \cup ContractEffect.prevents \cup PackagePrevents

\* The catalogue a first phase finds, and the one a later phase finds.
LegacyCatalogue ==
  {"service types", "commodity groups", "commodities", "legacy columns",
   "gallery images", "inquiries"}

TypedCatalogue == LegacyCatalogue \cup TypesGoal \cup {"types filled"}

CatalogueStarts(fam) ==
  CASE fam = {"typesExpand", "typesData", "groupsContract"} -> {LegacyCatalogue}
    [] fam = {"galleryTypes", "inquiryIds"} ->
         {TypedCatalogue, TypedCatalogue \cup {"linked ids"}}
    [] fam = {"duplicates", "groupsContract"} ->
         {TypedCatalogue \cup {"commodity duplicates"},
          TypedCatalogue \cup {"commodity duplicates", "orphan references"}}
    [] fam = {"codeExpand", "codeData", "codeContract"} ->
         {CodeNeeds, CodeNeeds \cup {"codes optional", "unresolved cargo types"},
          CodeNeeds \cup {"codes optional", "type identities"}}
    [] fam = {"packagesExpand", "packagesData"} ->
         {{}, PackageGoal, {"package types", "package duplicates"}}
    [] OTHER ->
         {{"package types", "commodity types", "freight service", "pallets type"},
          {"package types", "commodity types"}}
=============================================================================
