--------------------------- MODULE EpdaMigrations ---------------------------
(***************************************************************************)
(* The three phases of the EPDA parameter hardening                        *)
(* (run-epda-parameter-hardening.mjs), under one advisory lock and with a   *)
(* ledger of their own: schema and indexes, data, final constraints.       *)
(***************************************************************************)
EXTENDS ScriptShapes

\* What the preflight of every phase lists for manual review: malformed sets,
\* duplicate names and memberships, ports whose area is not their province's,
\* audit rows of missing ports and users.
EpdaAnomalies ==
  {"misshapen sets", "port area mismatch", "bad group members",
   "duplicate group names", "orphan audit rows"}

EpdaBlockers(phase) ==
  EpdaAnomalies \cup (IF phase = "validate" THEN {"empty overrides"} ELSE {})

\* The columns, the membership table and the checks, NOT VALID, in one
\* transaction.
EpdaExpandSchema == {"set version", "group members", "expand checks"}

\* Then four indexes, IF NOT EXISTS, one of them unique.
EpdaExpandIndexes == {"group name index", "log indexes"}

\* The indexes are built after the COMMIT; all that is compared then is the
\* number of rows.
EpdaExpandSteps ==
  <<"lock", "inspect", "ledger", "running", "begin", "tables", "collect",
    "export", "sql", "commit", "build", "compare", "succeeded">>

\* Data and validate: export, SQL and postflight in one transaction with the
\* tables locked, the ledger entry after it.
EpdaLockedSteps ==
  <<"lock", "inspect", "phases", "ledger", "running", "begin", "tables",
    "collect", "export", "sql", "check", "commit", "succeeded">>

\* The tables locked in SHARE ROW EXCLUSIVE mode keep every anomaly out.
EpdaGuards == EpdaAnomalies \cup {"empty overrides"}

\* The preflight's report, and the sources it counts and checksums.
EpdaReads ==
  EpdaGuards \cup EpdaExpandSchema \cup
    {"port areas", "members normalized", "final checks"}

EpdaScript(phase) ==
  [Blank EXCEPT !.lock = "epda hardening", !.reads = EpdaReads,
     !.blocks = EpdaBlockers(phase),
     !.guards = EpdaGuards, !.recordsFailure = TRUE]

EpdaExpand ==
  [EpdaScript("expand") EXCEPT !.steps = EpdaExpandSteps,
     !.adds = EpdaExpandSchema, !.builds = EpdaExpandIndexes,
     !.trusts = {"expand checks"}, !.skipsInvalid = TRUE,
     !.goal = EpdaExpandSchema \cup EpdaExpandIndexes]

\* Memberships are copied, empty overrides deleted with an audit row, the
\* ports' legacy area cleared.
EpdaDataEffect ==
  [adds |-> {"members normalized"},
   removes |-> {"empty overrides", "port areas"}]

\* Afterwards: no anomaly, the expected numbers of rows, equal memberships
\* and the effective parameters of every port as before.
EpdaDataGoal == {"members normalized"}

EpdaData ==
  [EpdaScript("data") EXCEPT !.steps = EpdaLockedSteps,
     !.needs = EpdaExpandSchema, !.adds = EpdaDataEffect.adds,
     !.removes = EpdaDataEffect.removes, !.goal = EpdaDataGoal,
     !.keepsRows = TRUE, !.rewrites = TRUE, !.phases = {"epdaExpand"}]

EpdaValidateEffect ==
  [adds |-> {"final checks"},
   prevents |-> {<<"final checks", a>> :
                   a \in {"misshapen sets", "port areas", "empty overrides"}}]

EpdaValidate ==
  [EpdaScript("validate") EXCEPT !.steps = EpdaLockedSteps,
     !.needs = EpdaExpandSchema, !.adds = EpdaValidateEffect.adds,
     !.goal = EpdaValidateEffect.adds, !.keepsRows = TRUE,
     !.phases = {"epdaExpand", "epdaData"}]

-----------------------------------------------------------------------------

EpdaScripts ==
  [epdaExpand |-> EpdaExpand, epdaData |-> EpdaData,
   epdaValidate |-> EpdaValidate]

EpdaFamilies == {{"epdaExpand", "epdaData", "epdaValidate"}}

EpdaPrevents ==
  {<<"group name index", "duplicate group names">>,
   <<"expand checks", "misshapen sets">>} \cup EpdaValidateEffect.prevents

EpdaStarts ==
  {{"port areas"}, {"empty overrides", "port areas"}, {"misshapen sets"}}
=============================================================================
