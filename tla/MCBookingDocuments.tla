-------------------------- MODULE MCBookingDocuments --------------------------
(***************************************************************************)
(* Small instances of BookingDocuments for TLC.                            *)
(***************************************************************************)
EXTENDS BookingDocuments, TLC

\* An unlinked row as create leaves it.
Made(t, f, b, p) == NewRow([type |-> t, flow |-> f, booking |-> b, payload |-> p])

\* Blank cargo misses required fields, full cargo misses none.
MCCargo == {"blank", "full"}
MCFullCargo == {"full"}
Draft == [cargo |-> "blank", form |-> TRUE]
Done  == [cargo |-> "full", form |-> TRUE]

\* A booking for import with its AN, without and with its DO; for export with
\* its BL.
ImportWithAn == 1 :> Made("BC", "IMPORT", 0, Done) @@ 2 :> Made("AN", "NONE", 1, Done)
ImportFull   == ImportWithAn @@ 3 :> Made("DO", "NONE", 1, Done)
ExportFull   == 1 :> Made("BC", "EXPORT", 0, Done) @@ 2 :> Made("BL", "NONE", 1, Draft)

StartImport == {ImportFull}
StartAny    == {<<>>, ImportWithAn, ImportFull, ExportFull}
StartWithAn == {ImportWithAn}

Symmetry == Permutations(Requests)
=============================================================================
