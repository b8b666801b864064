------------------------------ MODULE Maintenance ------------------------------
(***************************************************************************)
(* The work of a release on the database: scripts under the migration      *)
(* runner, and, looked at more closely, the two migrations of the          *)
(* catalogues that rewrite what staff has entered, with staff at work.     *)
(* They share no state, so a behaviour follows one of them: chore names it *)
(* and the others rest.                                                    *)
(***************************************************************************)
EXTENDS MigrationRunner, CommodityMerge, TypeCodes

VARIABLE chore  \* what a behaviour follows

maintenanceVars == <<chore, vars, catalogVars, typeVars>>

MaintenanceInit ==
  /\ chore \in {"scripts", "commodities", "types"}
  /\ chore # "scripts" =>
       /\ family = CHOOSE f \in Families : TRUE
       /\ facts = CHOOSE start \in Starts[family] : TRUE
  /\ chore # "commodities" =>
       /\ commodities = [c \in CommodityIds |-> NoRow]
       /\ places = [p \in Places |-> [id |-> 0, text |-> NoName]]
       /\ issued = 0
  /\ chore # "types" =>
       /\ types = CHOOSE start \in StartTypes : start = {}
       /\ sources = CHOOSE start \in StartSources : TRUE
       /\ cargo = [i \in TypeInquiries |-> [id |-> 0, text |-> NoText]]
       /\ rates = [s \in TariffSets |-> <<>>]
       /\ issuedType = 0
  /\ Init /\ CatalogInit /\ TypesInit

MaintenanceNext ==
  \/ /\ chore = "scripts" /\ Next
     /\ UNCHANGED <<chore, catalogVars, typeVars>>
  \/ /\ chore = "commodities" /\ CatalogNext
     /\ UNCHANGED <<chore, vars, typeVars>>
  \/ /\ chore = "types" /\ TypesNext
     /\ UNCHANGED <<chore, vars, catalogVars>>

MaintenanceSpec == MaintenanceInit /\ [][MaintenanceNext]_maintenanceVars
=============================================================================
