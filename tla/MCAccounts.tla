------------------------------ MODULE MCAccounts ------------------------------
(* Small instances of the accounts for TLC.                                *)
EXTENDS Accounts

CONSTANTS none, b1, h1, h2, s1, s2, t1, u1, v1, v2, p1

MCMixes == {{"login", "register"}, {"oauth", "register", "create", "login"}}

\* The administrator, a role with the section and one without.
MCRoles ==
  {[roles |-> [r \in 1 .. 3 |->
      [group |-> "INTERNAL", sections |-> IF r = 2 THEN {"bookings"} ELSE {}]],
    staff |-> [u \in {1} |-> [role |-> 2, version |-> 1]]]}
=============================================================================
