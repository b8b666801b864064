---------------------------- MODULE ScriptShapes ----------------------------
(***************************************************************************)
(* The empty migration script, from which the modules that define the      *)
(* scripts of scripts/run-*.mjs start.                                     *)
(***************************************************************************)
EXTENDS Naturals, Sequences

Blank ==
  [lock |-> "", steps |-> <<>>, reads |-> {}, needs |-> {},
   blocks |-> {}, adds |-> {}, builds |-> {}, skipsInvalid |-> FALSE,
   removes |-> {}, goal |-> {}, guards |-> {}, trusts |-> {},
   keepsRows |-> FALSE, rewrites |-> FALSE, recordsFailure |-> FALSE,
   phases |-> {}]
=============================================================================
