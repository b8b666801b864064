------------------------------- MODULE Accounts -------------------------------
(***************************************************************************)
(* The accounts of the backend: sign-in, sessions, and roles with their    *)
(* grants.  They meet in the users row only through columns the others do  *)
(* not decide on, so a behaviour exercises one of them at a time: scenario *)
(* names it and the others rest.                                           *)
(***************************************************************************)
EXTENDS UserSessions, RoleAdmin, SignIn

VARIABLE scenario  \* the part of the accounts a behaviour exercises

accountVars == <<scenario, sessionVars, roleVars, signInVars>>

AccountsInit ==
  /\ scenario \in {"sessions", "roles", "signIn"}
  /\ SessionsInit /\ RolesInit /\ SignInInit
  /\ scenario # "sessions" => group = CHOOSE g \in UserGroups : TRUE
  /\ scenario # "signIn" => mix = CHOOSE m \in Mixes : TRUE

AccountsNext ==
  /\ UNCHANGED scenario
  /\ \/ /\ scenario = "sessions" /\ SessionsNext
        /\ UNCHANGED <<roleVars, signInVars>>
     \/ /\ scenario = "roles" /\ RolesNext
        /\ UNCHANGED <<sessionVars, signInVars>>
     \/ /\ scenario = "signIn" /\ SignInNext
        /\ UNCHANGED <<sessionVars, roleVars>>

AccountsSpec ==
  AccountsInit /\ [][AccountsNext]_accountVars /\ RolesFairness
=============================================================================
