-------------------------- MODULE InquiryAttachments --------------------------
(***************************************************************************)
(* The attachments of one submitted inquiry: a pool of workers uploads the *)
(* files and stores a document row for each; when one file fails the files *)
(* stored so far are removed and the inquiry is deleted, while the other   *)
(* workers go on.  Staff may delete single documents or the whole inquiry  *)
(* meanwhile.  This is the detail behind InquirySubmission's Attach and    *)
(* Compensate.                                                             *)
(*                                                                         *)
(* A file stands for its temporary copy, its stored object and its row.    *)
(* Reading and hashing the file are one step with the statement after      *)
(* them; a read that began before the file was unlinked may still succeed. *)
(*                                                                         *)
(* An operator named X_Fault is X with a plausible bug, used nowhere.      *)
(***************************************************************************)
EXTENDS Integers, Sequences, SequencesExt

CONSTANTS
    FileCount,    \* files submitted with the inquiry
    Concurrency,  \* INQUIRY_UPLOAD_CONCURRENCY
    Faults        \* the faults that may happen

ASSUME CountAssumption == FileCount \in Nat \ {0} /\ Concurrency \in Nat
ASSUME FaultsAssumption ==
    Faults \subseteq {"unsafe", "upload", "timeout", "save", "destroy", "remove", "delete"}

Files == 1..FileCount
\* Math.max(1, Math.min(concurrency, items.length))
Limit == LET least == IF Concurrency < FileCount THEN Concurrency ELSE FileCount
         IN  IF least < 1 THEN 1 ELSE least
Workers == 1..Limit
Deleters == {"cleanup", "staff"}

VARIABLES
    nextIndex,  \* the next file to be taken
    work,       \* what each worker does, and to which file
    persisted,  \* persistedDocumentIds
    pos,        \* the clean-up loop's position in persisted
    phase,      \* how far saveAttachmentsForInquiry and its caller are
    inquiry,    \* the inquiry's row exists
    temps,      \* temporary files on disk
    objects,    \* stored objects
    rows,       \* document rows
    del,        \* what each deletion of a document does, and to which
    lost,       \* history: files for which the store or the table reported an error
    discarded   \* history: files whose row or object somebody deleted

vars == <<nextIndex, work, persisted, pos, phase, inquiry, temps, objects, rows,
          del, lost, discarded>>
store == <<objects, rows, lost, discarded>>
pool  == <<nextIndex, work, persisted>>

Busy == {"check", "upload", "save", "push", "destroy"}
Ended == {"accepted", "failed"}

Init == /\ nextIndex = 1
        /\ work = [w \in Workers |-> [pc |-> "take", file |-> 1]]
        /\ persisted = <<>>
        /\ pos = 1
        /\ phase = "uploading"
        /\ inquiry = TRUE
        /\ temps = Files
        /\ objects = {} /\ rows = {}
        /\ del = [d \in Deleters |-> [pc |-> "idle", file |-> 1]]
        /\ lost = {} /\ discarded = {}

Goto(w, pc) == work' = [work EXCEPT ![w].pc = pc]

\* The file cannot be read any more, or the fault happens.
Fails(f, fault) == f \notin temps \/ fault \in Faults

-----------------------------------------------------------------------------
(* mapWithConcurrency and uploadResolved                                   *)

\* nextIndex is read and advanced without an await in between.
Taken(w, i) == IF i > FileCount THEN [work[w] EXCEPT !.pc = "done"]
                                ELSE [pc |-> "check", file |-> i]

Take(w) ==
    /\ work[w].pc = "take"
    /\ work' = [work EXCEPT ![w] = Taken(w, nextIndex)]
    /\ nextIndex' = nextIndex + 1
    /\ UNCHANGED <<store, persisted, pos, phase, inquiry, temps, del>>

\* assertInquiryAttachmentSafe
Check(w) ==
    /\ work[w].pc = "check"
    /\ \/ Goto(w, "upload")
       \/ Fails(work[w].file, "unsafe") /\ Goto(w, "failed")
    /\ UNCHANGED <<store, nextIndex, persisted, pos, phase, inquiry, temps, del>>

\* uploadRaw.  After its deadline the store may still keep what it received.
Upload(w) ==
    LET f == work[w].file IN
    /\ work[w].pc = "upload"
    /\ \/ Goto(w, "save") /\ objects' = objects \cup {f} /\ UNCHANGED lost
       \/ Fails(f, "upload") /\ Goto(w, "failed") /\ UNCHANGED <<objects, lost>>
       \/ /\ "timeout" \in Faults /\ Goto(w, "failed")
          /\ objects' = objects \cup {f} /\ lost' = lost \cup {f}
    /\ UNCHANGED <<nextIndex, persisted, pos, phase, inquiry, temps, rows, del, discarded>>

\* hashUploadedFile, then the row.
SaveFailed_KeepsObject == "failed"
SaveFailed == "destroy"

Save(w) ==
    LET f == work[w].file IN
    /\ work[w].pc = "save"
    /\ \/ Goto(w, "push") /\ rows' = rows \cup {f}
       \/ Fails(f, "save") /\ Goto(w, SaveFailed) /\ UNCHANGED rows
    /\ UNCHANGED <<nextIndex, persisted, pos, phase, inquiry, temps, objects, del,
                   lost, discarded>>

\* The object of a row that could not be stored is removed; a failure is logged.
Destroy(w) ==
    LET f == work[w].file IN
    /\ work[w].pc = "destroy"
    /\ Goto(w, "failed")
    /\ \/ objects' = objects \ {f} /\ UNCHANGED lost
       \/ "destroy" \in Faults /\ lost' = lost \cup {f} /\ UNCHANGED objects
    /\ UNCHANGED <<nextIndex, persisted, pos, phase, inquiry, temps, rows, del, discarded>>

Push(w) ==
    /\ work[w].pc = "push"
    /\ persisted' = Append(persisted, work[w].file)
    /\ Goto(w, "take")
    /\ UNCHANGED <<store, nextIndex, pos, phase, inquiry, temps, del>>

Work(w) == Take(w) \/ Check(w) \/ Upload(w) \/ Save(w) \/ Destroy(w) \/ Push(w)

-----------------------------------------------------------------------------
(* saveAttachmentsForInquiry and its caller                                *)

\* Promise.all: fulfilled by the last worker, rejected by the first failure.
AllSaved_Any == \E w \in Workers : work[w].pc = "done"
AllSaved == \A w \in Workers : work[w].pc = "done"

Accept == /\ phase = "uploading"
          /\ AllSaved
          /\ phase' = "accepted"
          /\ UNCHANGED <<store, pool, pos, inquiry, temps, del>>

\* persistedDocumentIds.reverse() reverses the array workers still push to.
Fail == /\ phase = "uploading"
        /\ \E w \in Workers : work[w].pc = "failed"
        /\ phase' = "cleanup"
        /\ persisted' = Reverse(persisted)
        /\ UNCHANGED <<store, nextIndex, work, pos, inquiry, temps, del>>

\* The loop visits the live array, what was pushed since it began included.
MoreToRemove_AllButLast == pos < Len(persisted)
MoreToRemove == pos <= Len(persisted)

\* The deletion of file f by the clean-up loop.
Cleaning(f) == [del EXCEPT !["cleanup"] = [pc |-> "destroy", file |-> f]]

CleanNext_UntilGone ==
    /\ phase = "cleanup"
    /\ del["cleanup"].pc = "idle"
    /\ IF \E i \in 1..Len(persisted) : persisted[i] \in rows
       THEN /\ \E i \in 1..Len(persisted) : persisted[i] \in rows
                                            /\ del' = Cleaning(persisted[i])
            /\ UNCHANGED phase
       ELSE phase' = "compensate" /\ UNCHANGED del
    /\ UNCHANGED <<store, pool, pos, inquiry, temps>>
CleanNext ==
    /\ phase = "cleanup"
    /\ del["cleanup"].pc = "idle"
    /\ IF MoreToRemove
       THEN /\ pos' = pos + 1
            /\ del' = IF persisted[pos] \in rows THEN Cleaning(persisted[pos]) ELSE del
            /\ UNCHANGED phase
       ELSE phase' = "compensate" /\ UNCHANGED <<pos, del>>
    /\ UNCHANGED <<store, pool, inquiry, temps>>

\* compensateFailedSubmission, then the 503.
Compensate ==
    /\ phase = "compensate"
    /\ phase' = "failed"
    /\ \/ inquiry' = FALSE
       \/ "delete" \in Faults /\ UNCHANGED inquiry
    /\ UNCHANGED <<store, pool, pos, temps, del>>

\* CleanupUploadedFilesInterceptor, after the answer.
Unlink(f) ==
    /\ phase \in Ended
    /\ f \in temps
    /\ temps' = temps \ {f}
    /\ UNCHANGED <<store, pool, pos, phase, inquiry, del>>

-----------------------------------------------------------------------------
(* deleteDocument: the object first, then the row                          *)

StaffDelete(f) ==
    /\ del["staff"].pc = "idle"
    /\ f \in rows
    /\ del' = [del EXCEPT !["staff"] = [pc |-> "destroy", file |-> f]]
    /\ UNCHANGED <<store, pool, pos, phase, inquiry, temps>>

DestroyObject(d) ==
    LET f == del[d].file IN
    /\ del[d].pc = "destroy"
    /\ \/ /\ objects' = objects \ {f}
          /\ discarded' = discarded \cup {f}
          /\ del' = [del EXCEPT ![d].pc = "remove"]
          /\ UNCHANGED lost
       \/ /\ "destroy" \in Faults
          /\ lost' = lost \cup {f}
          /\ del' = [del EXCEPT ![d].pc = "idle"]
          /\ UNCHANGED <<objects, discarded>>
    /\ UNCHANGED <<rows, pool, pos, phase, inquiry, temps>>

RemoveRow(d) ==
    LET f == del[d].file IN
    /\ del[d].pc = "remove"
    /\ \/ rows' = rows \ {f} /\ UNCHANGED lost
       \/ "remove" \in Faults /\ lost' = lost \cup {f} /\ UNCHANGED rows
    /\ del' = [del EXCEPT ![d].pc = "idle"]
    /\ UNCHANGED <<objects, discarded, pool, pos, phase, inquiry, temps>>

\* The public ids removeMetadataByInquiryIds makes of the driver's answer to its
\* DELETE: that answer is the pair of the rows and their count, and neither of
\* the two has a cloudinary_public_id.
StoredIds(removed) == {}

\* hardDeleteByServiceAndId: rows and inquiry in one transaction, objects after.
HardDelete ==
    /\ inquiry
    /\ inquiry' = FALSE
    /\ rows' = {}
    /\ objects' = objects \ StoredIds(rows)
    /\ discarded' = discarded \cup rows
    /\ UNCHANGED <<lost, pool, pos, phase, temps, del>>

-----------------------------------------------------------------------------
Submission == Accept \/ Fail \/ CleanNext \/ Compensate
Deletion(d) == DestroyObject(d) \/ RemoveRow(d)

Quiescent == /\ phase \in Ended /\ temps = {}
             /\ \A w \in Workers : work[w].pc \in {"done", "failed"}
             /\ \A d \in Deleters : del[d].pc = "idle"
             /\ UNCHANGED vars

Next == \/ \E w \in Workers : Work(w)
        \/ Submission
        \/ \E f \in Files : Unlink(f) \/ StaffDelete(f)
        \/ \E d \in Deleters : Deletion(d)
        \/ HardDelete
        \/ Quiescent

Spec == Init /\ [][Next]_vars

\* Every promise is settled and its continuation run: uploads and deletions have
\* a deadline, statements are answered.
FairSpec == /\ Spec
            /\ \A w \in Workers : WF_vars(Work(w))
            /\ \A d \in Deleters : WF_vars(Deletion(d))
            /\ WF_vars(Submission)

-----------------------------------------------------------------------------
(* Properties                                                              *)

\* The pool, the store and the tables have their types.
TypeOK ==
    /\ nextIndex \in Nat \ {0}
    /\ work \in [Workers -> [pc : Busy \cup {"take", "done", "failed"}, file : Files]]
    /\ persisted \in Seq(Files)
    /\ pos \in Nat \ {0}
    /\ phase \in {"uploading", "cleanup", "compensate"} \cup Ended
    /\ inquiry \in BOOLEAN
    /\ temps \subseteq Files
    /\ objects \subseteq Files /\ rows \subseteq Files
    /\ del \in [Deleters -> [pc : {"idle", "destroy", "remove"}, file : Files]]
    /\ lost \subseteq Files /\ discarded \subseteq Files

\* No file is stored twice, however the workers interleave.
NoFileTwice ==
    \A i, j \in 1..Len(persisted) : persisted[i] = persisted[j] => i = j

\* A submission is accepted only with all its files: each has its row and its
\* object, but for those somebody deleted since.
AcceptedHasAllFiles ==
    phase = "accepted" => Files \subseteq (rows \cap objects) \cup discarded \cup lost

\* A stored object without a row is still in the hands of a worker, or the store
\* reported an error about it, or its row was deleted.
NoOrphanObject ==
    \A f \in objects \ (rows \cup lost \cup discarded) :
        \E w \in Workers : work[w].file = f /\ work[w].pc \in {"save", "destroy"}

\* When the clean-up gives way to the deletion of the inquiry, no file stored
\* until then is left, even those stored while it ran.
CleanupComplete ==
    [][phase = "cleanup" /\ phase' = "compensate"
         => \A i \in 1..Len(persisted) : persisted[i] \notin rows \ lost]_vars

\* The customer gets an answer and every worker comes to its end.
Settled == <>[](phase \in Ended /\ \A w \in Workers : work[w].pc \in {"done", "failed"})

\* A rejected submission leaves no document behind: its files are one unit.
RejectedLeavesNothing ==
    phase = "failed" /\ (\A w \in Workers : work[w].pc \in {"done", "failed"})
        => rows \subseteq lost
=============================================================================
