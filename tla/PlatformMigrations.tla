------------------------- MODULE PlatformMigrations -------------------------
(***************************************************************************)
(* The scripts for the platform's own tables: customer id sequences, the   *)
(* normalized unique indexes on roles and users, foreign keys and indexes  *)
(* of the relational integrity expand, the runtime schema and the ports'   *)
(* sub-names.  Each is a record MigrationRunner interprets; a fact is the  *)
(* presence of an object (a table, column, constraint) or of an anomaly.   *)
(***************************************************************************)
EXTENDS ScriptShapes

-----------------------------------------------------------------------------
(* run-customer-id-sequences-migration.mjs                                 *)

CustomerIdBlockers ==
  {"sequence columns", "sequence extra columns", "sequence rows",
   "sequence duplicates", "sequence constraints"}

CustomerIdGoal == {"sequence table", "sequence key", "sequence checks"}

CustomerIdSteps ==
  <<"lock", "inspect", "ledger", "running", "begin", "sql", "check", "commit",
    "succeeded">>

\* The table, when it is missing, its key and its two CHECKs, validated
\* against the rows at once.
CustomerIdEffect ==
  [adds |-> {"sequence table", "sequence key", "sequence checks"},
   prevents |-> {<<"sequence key", "sequence duplicates">>,
                 <<"sequence checks", "sequence rows">>}]

\* The inspection: the table, its columns, rows and constraints.
CustomerIdReads == CustomerIdBlockers \cup CustomerIdGoal

CustomerIdSequences ==
  [Blank EXCEPT !.lock = "customer id", !.reads = CustomerIdReads,
     !.steps = CustomerIdSteps,
     !.blocks = CustomerIdBlockers, !.adds = CustomerIdEffect.adds,
     !.goal = CustomerIdGoal, !.guards = {"sequence rows"},
     !.keepsRows = TRUE, !.recordsFailure = TRUE]

-----------------------------------------------------------------------------
(* run-roles-name-uniqueness-migration.mjs                                 *)

RolesBlockers == {"nullable role name", "role duplicates"}

RolesIndex == {"role name index"}

RolesPrevents == {<<"role name index", "role duplicates">>}

RolesSteps ==
  <<"lock", "inspect", "ledger", "running", "build", "check", "succeeded">>

\* The inspection: the column, the duplicates under the normalized name, the
\* indexes that mean the same.
RolesReads == RolesBlockers \cup RolesIndex \cup {"roles table"}

RolesNameUniqueness ==
  [Blank EXCEPT !.lock = "roles", !.reads = RolesReads,
     !.steps = RolesSteps,
     !.needs = {"roles table"}, !.blocks = RolesBlockers,
     !.builds = RolesIndex, !.goal = RolesIndex, !.recordsFailure = TRUE]

-----------------------------------------------------------------------------
(* run-users-identity-uniqueness-migration.mjs                             *)

UsersDuplicates == {"email duplicates", "username duplicates", "oauth duplicates"}

\* Columns of the wrong type or nullable, duplicates under the normalized
\* identities, a ledger table without the columns it is read by.
UsersBlockers == {"user columns", "incompatible ledger"} \cup UsersDuplicates

UsersIndexes == {"email index", "username index", "oauth index"}

UsersPrevents ==
  {<<"email index", "email duplicates">>,
   <<"username index", "username duplicates">>,
   <<"oauth index", "oauth duplicates">>}

UsersSteps ==
  <<"lock", "inspect", "ledger", "running", "build", "check", "succeeded">>

\* The inspection: the columns, the duplicates per identity, the indexes, the
\* ledger table.
UsersReads == UsersBlockers \cup UsersIndexes \cup {"users table"}

UsersIdentity ==
  [Blank EXCEPT !.lock = "users", !.reads = UsersReads,
     !.steps = UsersSteps,
     !.needs = {"users table"}, !.blocks = UsersBlockers,
     !.builds = UsersIndexes, !.goal = UsersIndexes, !.recordsFailure = TRUE]

-----------------------------------------------------------------------------
(* run-relational-integrity-expand.mjs                                     *)

\* Nineteen foreign keys and twenty-one indexes: one fact for the keys, which
\* one DO block adds, two for the indexes, which are built one by one.
IntegrityBlockers == {"orphans", "wrong delete action"}

IntegrityAdds == {"foreign keys", "creator index", "status indexes"}

\* The keys are added NOT VALID: they hold up new orphans, not old ones.
IntegrityPrevents == {<<"foreign keys", "orphans">>}

IntegritySteps ==
  <<"lock", "inspect", "ledger", "running", "build", "check", "succeeded">>

\* The inspection: the tables, the keys and their delete action, orphans,
\* valid indexes.
IntegrityReads == IntegrityBlockers \cup IntegrityAdds \cup {"inquiry tables"}

RelationalIntegrity ==
  [Blank EXCEPT !.lock = "integrity", !.reads = IntegrityReads,
     !.steps = IntegritySteps,
     !.needs = {"inquiry tables"}, !.blocks = IntegrityBlockers,
     !.builds = IntegrityAdds, !.goal = IntegrityAdds,
     !.trusts = {"foreign keys"}, !.recordsFailure = TRUE]

-----------------------------------------------------------------------------
(* run-runtime-schema-migration.mjs                                        *)

RuntimeObjects == {"runtime tables", "runtime columns"}

\* What the DO block at the head of the SQL insists on.
RuntimeSql == [adds |-> RuntimeObjects, needs |-> {"prerequisite tables"}]

\* The first reading only counts; the one after the SQL must find everything.
RuntimeSteps ==
  <<"look", "lock", "ledger", "running", "begin", "sql", "check", "commit",
    "succeeded">>

\* The inspection: tables and columns by name.
RuntimeReads == RuntimeObjects

RuntimeSchema ==
  [Blank EXCEPT !.lock = "runtime", !.reads = RuntimeReads,
     !.steps = RuntimeSteps,
     !.needs = RuntimeSql.needs, !.adds = RuntimeSql.adds,
     !.goal = RuntimeObjects, !.recordsFailure = TRUE]

-----------------------------------------------------------------------------
(* run-ports-sub-name-migration.mjs                                        *)

\* Phase expand: reads the ports before the lock for the report, again in a
\* repeatable read transaction for the export; the ledger entry is written as
\* SUCCEEDED in that transaction.
PortsExpandSteps ==
  <<"look", "lock", "ledger", "snapshot", "collect", "export", "sql", "check",
    "succeeded", "commit">>

PortsReads == {"sub-name columns", "sub-names"}

PortsSubNamesExpand ==
  [Blank EXCEPT !.lock = "ports expand", !.reads = PortsReads,
     !.steps = PortsExpandSteps,
     !.adds = {"sub-name columns"}, !.goal = {"sub-name columns"},
     !.keepsRows = TRUE]

\* Phase data: the plan is made before the lock and must be the same after
\* the lock on ports, in the transaction's snapshot.
PortsDataSteps ==
  <<"inspect", "lock", "ledger", "snapshot", "tables", "recheck", "export",
    "sql", "check", "succeeded", "commit">>

PortsSubNamesData ==
  [Blank EXCEPT !.lock = "ports data", !.reads = PortsReads,
     !.steps = PortsDataSteps,
     !.needs = {"sub-name columns"}, !.adds = {"sub-names"},
     !.goal = {"sub-names"}, !.rewrites = TRUE]

-----------------------------------------------------------------------------

PlatformScripts ==
  [customerId |-> CustomerIdSequences, rolesName |-> RolesNameUniqueness,
   usersIdentity |-> UsersIdentity, integrity |-> RelationalIntegrity,
   runtimeSchema |-> RuntimeSchema, portsExpand |-> PortsSubNamesExpand,
   portsData |-> PortsSubNamesData]

PlatformFamilies ==
  {{"customerId"}, {"rolesName"}, {"usersIdentity"}, {"integrity"},
   {"runtimeSchema"}, {"portsExpand", "portsData"}}

PlatformPrevents ==
  CustomerIdEffect.prevents \cup RolesPrevents \cup UsersPrevents
    \cup IntegrityPrevents

\* What the databases may hold that the scripts find.
PlatformStarts(fam) ==
  CASE fam = {"customerId"} ->
         {{}, {"sequence table"}, {"sequence table", "sequence rows"},
          {"sequence table", "sequence duplicates"}}
    [] fam = {"rolesName"} ->
         {{}, {"roles table"}, {"roles table", "role duplicates"}}
    [] fam = {"usersIdentity"} ->
         {{"users table"}, {"users table", "email index"},
          {"users table", "username duplicates"}}
    [] fam = {"integrity"} ->
         {{"inquiry tables"}, {"inquiry tables", "orphans"},
          {"inquiry tables", "creator index"}}
    [] fam = {"runtimeSchema"} -> {{}, {"prerequisite tables"}}
    [] OTHER -> {{}, {"sub-name columns"}}
=============================================================================
