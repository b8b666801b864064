---------------------------- MODULE MCEpdaInquiry ----------------------------
(***************************************************************************)
(* Small instances of EpdaInquiry for TLC.                                 *)
(***************************************************************************)
EXTENDS EpdaInquiry, TLC

CONSTANTS A, B   \* two ports

Customer == [port |-> A, filled |-> FALSE, sheet |-> "s1", status |-> "PROCESSING",
             working |-> NoParams, snapshot |-> NoParams, locked |-> FALSE,
             archived |-> FALSE]
Drafted  == [Customer EXCEPT !.filled = TRUE, !.status = "COMPLETED",
                             !.working = <<A, 1>>]
Quoted   == [Drafted EXCEPT !.status = "QUOTED"]
Issued   == [Drafted EXCEPT !.snapshot = <<A, 1>>, !.locked = TRUE]

MCPorts    == {A, B}
AnyStart   == {Customer, Drafted, Issued}
OpenStart  == {Drafted, Quoted}

Symmetry == Permutations(Requests)
=============================================================================
