---------------------------- MODULE LockableRecord ----------------------------
(***************************************************************************)
(* What staff are promised of a record that can be locked, whatever runs   *)
(* concurrently: an inquiry's EPDA (EpdaInquiry) and every booking         *)
(* document (BookingDocuments) implement it, one committed change of their *)
(* row at a time.                                                          *)
(*                                                                         *)
(* It models no code of its own: the components' definitions that map      *)
(* their tables to `content`, `locked` and `issued` stand beside the       *)
(* INSTANCE of this module.                                                *)
(***************************************************************************)
CONSTANTS
    Contents,  \* what a record can say
    Finished,  \* the contents that miss no required field
    Quotes,    \* <<content, offer>>: an offer a lock may issue for a content
    Absent,    \* there is no record
    Nothing    \* nothing was issued yet

VARIABLES
    content,   \* what the record says, or Absent
    locked,    \* whether it may no longer be edited
    issued     \* what the last lock issued

recordVars == <<content, locked, issued>>

RecordInit ==
    \/ content = Absent /\ ~locked /\ issued = Nothing
    \/ content \in Contents /\ locked = FALSE
    \/ content \in Finished /\ locked = TRUE /\ <<content, issued>> \in Quotes

Create == /\ content = Absent /\ content' \in Contents
          /\ ~locked' /\ issued' = Nothing

\* An edit keeps what was issued before.
Edit == /\ content # Absent /\ ~locked
        /\ content' \in Contents /\ UNCHANGED <<locked, issued>>

Lock == /\ content \in Finished /\ ~locked
        /\ locked' /\ <<content, issued'>> \in Quotes /\ UNCHANGED content

Unlock == locked /\ ~locked' /\ UNCHANGED <<content, issued>>

\* A deletion may find the record locked: both components test the lock before
\* the DELETE and not in it.
Delete == /\ content # Absent /\ content' = Absent
          /\ ~locked' /\ issued' = Nothing

RecordNext == Create \/ Edit \/ Lock \/ Unlock \/ Delete

RecordSpec == RecordInit /\ [][RecordNext]_recordVars
=============================================================================
