------------------------- MODULE MCInquirySubmission -------------------------
(***************************************************************************)
(* Small instances of InquirySubmission for TLC.                           *)
(***************************************************************************)
EXTENDS InquirySubmission, TLC

Symmetry == Permutations(Requests)
=============================================================================
