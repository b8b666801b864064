------------------------- MODULE BookingMigrations -------------------------
(***************************************************************************)
(* The scripts for bookings and booking partners: the changes of the single *)
(* document table, its split into four, imports and corrections of legacy   *)
(* shipments, the relational projection, and the merging of duplicate       *)
(* partners.                                                               *)
(***************************************************************************)
EXTENDS ScriptShapes

-----------------------------------------------------------------------------
(* apply-booking-document-lifecycle.mjs, apply-booking-document-type-bl.mjs, *)
(* apply-strip-bl-legacy-stamp-keys.mjs, apply-booking-workflows.mjs and    *)
(* seed-import-export-booking-workflows.mjs: no lock and no ledger.         *)

PlainSteps == <<"begin", "sql", "commit", "look">>

DocumentLifecycle ==
  [Blank EXCEPT !.lock = "none", !.reads = {"document table"},
     !.steps = PlainSteps,
     !.needs = {"document table"}, !.adds = {"lifecycle columns"},
     !.goal = {"lifecycle columns"}]

DocumentTypeBl ==
  [Blank EXCEPT !.lock = "none", !.reads = {"document table"},
     !.steps = <<"begin", "sql", "commit", "look">>,
     !.needs = {"document table"}, !.adds = {"type check"},
     !.goal = {"type check"}]

StampKeysStripped ==
  [Blank EXCEPT !.lock = "none", !.reads = {"document table"},
     !.steps = <<"begin", "look", "sql", "commit", "look">>,
     !.needs = {"document table"}, !.removes = {"stamp keys"},
     !.rewrites = TRUE]

\* Obsolete once the table is split; the check is inside the transaction.
WorkflowsSteps == <<"inspect", "begin", "look", "sql", "check", "commit">>

WorkflowsEffect == {"workflow columns"}

\* The tables, and the columns afterwards.
WorkflowsReads ==
  {"document table", "split tables"} \cup WorkflowsEffect

BookingWorkflows ==
  [Blank EXCEPT !.lock = "none", !.reads = WorkflowsReads,
     !.steps = WorkflowsSteps,
     !.needs = {"document table"}, !.blocks = {"split tables"},
     !.adds = WorkflowsEffect, !.goal = WorkflowsEffect]

\* One implicit transaction.
SeedEffect == {"sample bookings"}

SeedWorkflows ==
  [Blank EXCEPT !.lock = "none", !.reads = WorkflowsReads,
     !.steps = <<"inspect", "begin", "sql", "commit", "look">>,
     !.needs = {"document table", "workflow columns"},
     !.blocks = {"split tables"}, !.adds = SeedEffect, !.goal = SeedEffect]

-----------------------------------------------------------------------------
(* run-booking-document-table-split.mjs: drops the table and its fourteen   *)
(* rows; no ledger and no export.                                          *)

\* The runner and the SQL insist on the fourteen rows, five bookings among
\* them, and on the absence of the four tables.
SplitPreflight ==
  [needs |-> {"document table"}, blocks |-> {"split tables", "other rows"}]

\* Afterwards: four empty tables with their generated columns, constraints,
\* indexes and cascading keys.
SplitPostflight == {"split tables"}

SplitSteps == <<"lock", "begin", "collect", "sql", "check", "commit">>

SplitEffect == [adds |-> {"split tables"}, removes |-> {"document table"}]

\* The tables, the distribution of the rows, columns, constraints, indexes.
SplitReads ==
  {"document table", "split tables", "other rows"}

TableSplit ==
  [Blank EXCEPT !.lock = "table split", !.reads = SplitReads,
     !.steps = SplitSteps,
     !.needs = SplitPreflight.needs, !.blocks = SplitPreflight.blocks,
     !.adds = SplitEffect.adds, !.removes = SplitEffect.removes,
     !.goal = SplitPostflight]

-----------------------------------------------------------------------------
(* run-booking-agent-import.mjs                                            *)

AgentGoal == {"agents"}

\* Inserts the agents missing under their names, adds the type to the others.
AgentSql == {"agents"}

AgentSteps ==
  <<"lock", "look", "export", "ledger", "begin", "running", "sql", "check",
    "succeeded", "commit">>

\* The partners with the names of the agents, archived ones excepted.
AgentReads ==
  {"agents"}

AgentImport ==
  [Blank EXCEPT !.lock = "agent import", !.reads = AgentReads,
     !.steps = AgentSteps,
     !.adds = AgentSql, !.goal = AgentGoal]

-----------------------------------------------------------------------------
(* run-legacy-ready-shipments-migration.mjs and the incremental one: plain  *)
(* inserts; the ledger is read before the lock, and the INSERT of the entry *)
(* is what keeps a second session out.                                     *)

ShipmentsPreflight ==
  [needs |-> {"split tables", "master data"}, blocks |-> {"booking rows"}]

ShipmentsEffect == {"legacy shipments"}

ShipmentsSteps ==
  <<"remember", "decide", "lock", "inspect", "export", "snapshot", "recheck",
    "insert", "sql", "check", "succeeded", "commit">>

\* The counts of the four tables, users, partners, Type and commodity.
ShipmentsReads ==
  ShipmentsPreflight.needs \cup ShipmentsPreflight.blocks \cup ShipmentsEffect

LegacyShipments ==
  [Blank EXCEPT !.lock = "legacy shipments", !.reads = ShipmentsReads,
     !.steps = ShipmentsSteps,
     !.needs = ShipmentsPreflight.needs, !.blocks = ShipmentsPreflight.blocks,
     !.adds = ShipmentsEffect, !.goal = ShipmentsEffect]

IncrementalPreflight ==
  [needs |-> {"split tables", "master data"}, blocks |-> {"same numbers"}]

\* The rows that were there must be as they were, before and after.
IncrementalEffect == {"late shipments"}

IncrementalSteps ==
  <<"phases", "remember", "decide", "lock", "inspect", "export", "snapshot",
    "tables", "recheck", "insert", "sql", "check", "succeeded", "commit">>

\* The same, the numbers already used and every row with its checksum.
IncrementalReads ==
  IncrementalPreflight.needs \cup IncrementalPreflight.blocks
    \cup IncrementalEffect

IncrementalShipments ==
  [Blank EXCEPT !.lock = "late shipments", !.reads = IncrementalReads,
     !.steps = IncrementalSteps,
     !.needs = IncrementalPreflight.needs,
     !.blocks = IncrementalPreflight.blocks,
     !.adds = IncrementalEffect, !.goal = IncrementalEffect,
     !.guards = {"same numbers"}, !.keepsRows = TRUE,
     !.phases = {"legacyShipments"}]

-----------------------------------------------------------------------------
(* run-legacy-ready-bl-gross-weight-fix.mjs                                *)

\* Bills whose two weights are not those of the source.
WeightBlockers == {"weights edited", "bills missing"}

WeightSteps ==
  <<"phases", "remember", "decide", "lock", "inspect", "export", "snapshot",
    "tables", "recheck", "insert", "sql", "check", "succeeded", "commit">>

\* Every other key of the payload must be as before.
WeightGoal == {"weights corrected"}

\* The bills of the imported shipments, as they are now.
WeightReads ==
  WeightBlockers \cup WeightGoal

GrossWeightFix ==
  [Blank EXCEPT !.lock = "gross weights", !.reads = WeightReads,
     !.steps = WeightSteps,
     !.blocks = WeightBlockers, !.adds = WeightGoal, !.goal = WeightGoal,
     !.guards = WeightBlockers, !.keepsRows = TRUE, !.rewrites = TRUE,
     !.phases = {"legacyShipments"}]

-----------------------------------------------------------------------------
(* run-freightek-place-of-issue-backfill.mjs: the query that takes the lock *)
(* takes the snapshot, before the tables are locked.                       *)

PlaceBlockers == {"ambiguous numbers", "other places"}

PlaceSteps ==
  <<"snapshot", "lock", "tables", "collect", "ledger", "insert", "export",
    "sql", "check", "succeeded", "commit">>

PlaceGoal == {"places of issue"}

\* The bookings with the numbers of the input and their bills.
PlaceReads ==
  PlaceBlockers \cup PlaceGoal \cup {"split tables"}

PlaceOfIssue ==
  [Blank EXCEPT !.lock = "place of issue", !.reads = PlaceReads,
     !.steps = PlaceSteps,
     !.needs = {"split tables"}, !.blocks = PlaceBlockers,
     !.adds = PlaceGoal, !.goal = PlaceGoal, !.guards = PlaceBlockers,
     !.keepsRows = TRUE, !.rewrites = TRUE]

-----------------------------------------------------------------------------
(* run-booking-documents-relational-migration.mjs: no ledger, no check after *)
(* data; validate's statements raise when the totals differ.               *)

RelationalExpandSteps ==
  <<"look", "lock", "begin", "sql", "commit", "build", "look">>

RelationalColumns == {"relational columns", "relational tables"}

\* Counts, totals and mismatches of the four tables; nothing is refused.
RelationalReads ==
  RelationalColumns \cup {"split tables", "projection filled", "projection drift"}

RelationalExpand ==
  [Blank EXCEPT !.lock = "relational expand", !.reads = RelationalReads,
     !.steps = RelationalExpandSteps,
     !.needs = {"split tables"}, !.adds = RelationalColumns,
     !.builds = {"relational indexes"}, !.skipsInvalid = TRUE,
     !.goal = RelationalColumns]

RelationalDataSteps == <<"look", "lock", "begin", "sql", "commit", "look">>

RelationalProjection == {"projection filled"}

RelationalData ==
  [Blank EXCEPT !.lock = "relational data", !.reads = RelationalReads,
     !.steps = RelationalDataSteps,
     !.needs = RelationalColumns, !.adds = RelationalProjection,
     !.removes = {"projection drift"}, !.goal = RelationalProjection]

\* The constraints are validated, then the totals compared.
RelationalTotals ==
  [adds |-> {"projection validated"},
   prevents |-> {<<"projection validated", "projection drift">>}]

RelationalValidate ==
  [Blank EXCEPT !.lock = "relational validate", !.reads = RelationalReads,
     !.steps = RelationalDataSteps,
     !.needs = RelationalColumns \cup RelationalProjection,
     !.adds = RelationalTotals.adds, !.goal = RelationalTotals.adds]

-----------------------------------------------------------------------------
(* run-booking-partner-dedupe.mjs and run-booking-partner-dedupe-            *)
(* remaining.mjs: fixed pairs of a keeper and its duplicates.               *)

\* Partners that are not the expected ones, archived ones, documents that
\* name a duplicate.
DedupeBlockers == {"unexpected partners", "duplicate referenced"}

\* The partners are locked, the documents are not.
DedupeGuards == {"unexpected partners"}

DedupeSteps ==
  <<"remember", "decide", "lock", "inspect", "export", "snapshot", "tables",
    "recheck", "insert", "sql", "check", "succeeded", "commit">>

\* The keeper takes the missing fields and types over, the duplicates go.
DedupeEffect == [adds |-> {"pairs merged"}, removes |-> {"pair duplicates"}]

\* The keepers carry the union of the types, no duplicate is left.
DedupeGoal == {"pairs merged"}

\* Keepers and duplicates, and the documents that name a duplicate.
DedupeReads ==
  DedupeBlockers \cup DedupeGoal \cup {"pair duplicates"}

PartnerDedupe ==
  [Blank EXCEPT !.lock = "partner dedupe", !.reads = DedupeReads,
     !.steps = DedupeSteps,
     !.blocks = DedupeBlockers, !.adds = DedupeEffect.adds,
     !.removes = DedupeEffect.removes, !.goal = DedupeGoal,
     !.guards = DedupeGuards, !.rewrites = TRUE]

RemainingBlockers == {"unexpected partners", "duplicate referenced"}

RemainingSteps ==
  <<"remember", "decide", "lock", "inspect", "export", "snapshot", "tables",
    "recheck", "insert", "sql", "check", "succeeded", "commit">>

RemainingEffect ==
  [adds |-> {"groups merged"}, removes |-> {"group duplicates"}]

\* No group of active partners with one name is left either.
RemainingGoal == {"groups merged"}

\* The same for the pairs of the second script.
RemainingReads ==
  RemainingBlockers \cup RemainingGoal \cup
    {"pairs merged", "group duplicates"}

PartnerDedupeRemaining ==
  [Blank EXCEPT !.lock = "partner dedupe remaining", !.reads = RemainingReads,
     !.steps = RemainingSteps,
     !.needs = {"pairs merged"}, !.blocks = RemainingBlockers,
     !.adds = RemainingEffect.adds, !.removes = RemainingEffect.removes,
     !.goal = RemainingGoal, !.guards = DedupeGuards, !.rewrites = TRUE]

-----------------------------------------------------------------------------

BookingScripts ==
  [lifecycle |-> DocumentLifecycle, typeBl |-> DocumentTypeBl,
   stampKeys |-> StampKeysStripped, workflows |-> BookingWorkflows,
   seed |-> SeedWorkflows, tableSplit |-> TableSplit, agents |-> AgentImport,
   legacyShipments |-> LegacyShipments, lateShipments |-> IncrementalShipments,
   grossWeights |-> GrossWeightFix, placeOfIssue |-> PlaceOfIssue,
   relationalExpand |-> RelationalExpand, relationalData |-> RelationalData,
   relationalValidate |-> RelationalValidate, dedupe |-> PartnerDedupe,
   dedupeRemaining |-> PartnerDedupeRemaining]

BookingFamilies ==
  {{"lifecycle", "typeBl", "stampKeys"}, {"workflows", "seed", "tableSplit"},
   {"agents"}, {"legacyShipments", "lateShipments", "grossWeights"},
   {"placeOfIssue"},
   {"relationalExpand", "relationalData", "relationalValidate"},
   {"dedupe", "dedupeRemaining"}}

BookingPrevents == RelationalTotals.prevents

BookingStarts(fam) ==
  CASE fam = {"lifecycle", "typeBl", "stampKeys"} ->
         {{"document table", "stamp keys"}}
    [] fam = {"workflows", "seed", "tableSplit"} ->
         {{"document table"}, {"document table", "other rows"}}
    [] fam = {"agents"} -> {{}}
    [] fam = {"legacyShipments", "lateShipments", "grossWeights"} ->
         {{"split tables", "master data"}, {"split tables"}}
    [] fam = {"placeOfIssue"} ->
         {{"split tables"}, {"split tables", "ambiguous numbers"}}
    [] fam = {"dedupe", "dedupeRemaining"} ->
         {{"pair duplicates", "group duplicates"},
          {"pair duplicates", "duplicate referenced"}}
    [] OTHER -> {{"split tables"}, {"split tables", "projection drift"}}
=============================================================================
