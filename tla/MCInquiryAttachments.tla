------------------------- MODULE MCInquiryAttachments -------------------------
(***************************************************************************)
(* Small instances of InquiryAttachments for TLC: three files and two      *)
(* workers are enough for a worker to take a second file while the other   *)
(* fails.                                                                  *)
(***************************************************************************)
EXTENDS InquiryAttachments
=============================================================================
