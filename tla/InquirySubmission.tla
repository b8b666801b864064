-------------------------- MODULE InquirySubmission --------------------------
(***************************************************************************)
(* Submitting an inquiry: claiming an idempotency key, allocating the      *)
(* inquiry's code under an advisory lock, inserting it, storing its        *)
(* attachments and compensating for a failure.  A client may send one key  *)
(* several times, at once or after a crash.                                *)
(*                                                                         *)
(* One key of one user, one code prefix.  Requests without the key are     *)
(* other customers' submissions and the EPDAs staff create, which share    *)
(* the code allocator.  Attachments are stored in one step that succeeds   *)
(* or fails; InquiryAttachments has the detail.                            *)
(*                                                                         *)
(* An operator named X_Fault is X with a plausible bug, used nowhere.      *)
(***************************************************************************)
EXTENDS Integers

CONSTANTS
    Requests,     \* slots for concurrently running HTTP requests
    MaxRequests,  \* bound: requests started in a behaviour
    Faults,       \* the faults that may happen
    NoRequest,    \* nobody holds the advisory lock
    NoClaim       \* the key has no row

ASSUME FaultsAssumption == Faults \subseteq {"crash", "reject", "upload", "undo"}
ASSUME BoundAssumption == MaxRequests \in Nat
ASSUME NullAssumption == NoRequest \notin Requests

\* Ids of inquiries and numbers of codes; 0 stands for none.
Ids == Nat \ {0}

\* A row of inquiry_idempotency_keys: answer is response_json's targetId, stale
\* says that created_at is more than ten minutes ago.
Claim0 == [answer : Nat, stale : BOOLEAN]
Fresh == [answer |-> 0, stale |-> FALSE]
ASSUME ClaimAssumption == NoClaim \notin Claim0

VARIABLES
    claim,      \* the row of the key, or NoClaim
    inquiries,  \* code number of every committed inquiry, by id
    nextId,     \* the shared id sequence
    locker,     \* the transaction that holds the code prefix's advisory lock
    req,        \* the request running in each slot
    begun,      \* requests started so far
    undone,     \* history: ids of inquiries that were compensated for
    accepted    \* history: ids of inquiries that requests with the key created

vars == <<claim, inquiries, nextId, locker, req, begun, undone, accepted>>

\* late: the key was answered before the request began (only for a property).
PCs == {"idle", "claim", "lookup", "reclaim", "lock", "number", "insert",
        "attach", "compensate", "complete", "abandon"}
Request == [pc : PCs, keyed : BOOLEAN, files : BOOLEAN,
            id : Nat, number : Nat, late : BOOLEAN]
Idle == [pc |-> "idle", keyed |-> FALSE, files |-> FALSE,
         id |-> 0, number |-> 0, late |-> FALSE]

Init == /\ claim = NoClaim
        /\ inquiries = <<>>
        /\ nextId = 1
        /\ locker = NoRequest
        /\ req = [r \in Requests |-> Idle]
        /\ begun = 0
        /\ undone = {}
        /\ accepted = {}

Codes == {inquiries[i] : i \in DOMAIN inquiries}
Answered == claim # NoClaim /\ claim.answer # 0

Goto(r, pc) == req' = [req EXCEPT ![r].pc = pc]
Answer(r)   == req' = [req EXCEPT ![r] = Idle]

\* An error inside submitInquiry's try block gives the claim up first.
Failed(r) == IF req[r].keyed THEN Goto(r, "abandon") ELSE Answer(r)

\* The end of the allocating transaction, by commit or rollback.
Released_Never(r) == UNCHANGED locker
Released(r) == locker' = IF locker = r THEN NoRequest ELSE locker

-----------------------------------------------------------------------------
(* submitInquiry and beginSubmit                                           *)

Received(keyed, files) ==
    [pc |-> IF keyed THEN "claim" ELSE "lock", keyed |-> keyed, files |-> files,
     id |-> 0, number |-> 0, late |-> keyed /\ Answered]

Begin(r) ==
    /\ req[r].pc = "idle"
    /\ begun < MaxRequests
    /\ begun' = begun + 1
    /\ \E keyed, files \in BOOLEAN :
         req' = [req EXCEPT ![r] = Received(keyed, files)]
    /\ UNCHANGED <<claim, inquiries, nextId, locker, undone, accepted>>

\* INSERT ... ON CONFLICT DO NOTHING
Claim(r) ==
    /\ req[r].pc = "claim"
    /\ IF claim = NoClaim
       THEN /\ claim' = Fresh
            /\ Goto(r, "lock")
       ELSE Goto(r, "lookup") /\ UNCHANGED claim
    /\ UNCHANGED <<inquiries, nextId, locker, begun, undone, accepted>>

\* The row that was in the way.  A stored answer is returned; a row that is
\* gone again is a 409.  So is a key that was sent with another payload, which
\* like the replay ends the request: the payload's hash is left out.
Lookup_IgnoresAnswer(r) ==
    /\ req[r].pc = "lookup"
    /\ IF claim = NoClaim THEN Answer(r) ELSE Goto(r, "reclaim")
    /\ UNCHANGED <<claim, inquiries, nextId, locker, begun, undone, accepted>>
Lookup(r) ==
    /\ req[r].pc = "lookup"
    /\ IF claim = NoClaim \/ Answered THEN Answer(r) ELSE Goto(r, "reclaim")
    /\ UNCHANGED <<claim, inquiries, nextId, locker, begun, undone, accepted>>

\* The UPDATE matches an unanswered claim that is more than ten minutes old.
Reclaimable == claim # NoClaim /\ claim.answer = 0 /\ claim.stale

\* What `reclaimed.length > 0` says: for an UPDATE the driver returns the pair
\* of the rows and their count, whose length is two.
ReclaimReported(matched) == TRUE

Reclaim(r) ==
    /\ req[r].pc = "reclaim"
    /\ claim' = IF Reclaimable
                THEN Fresh
                ELSE claim
    /\ IF ReclaimReported(Reclaimable) THEN Goto(r, "lock") ELSE Answer(r)
    /\ UNCHANGED <<inquiries, nextId, locker, begun, undone, accepted>>

-----------------------------------------------------------------------------
(* createWithAllocatedCode: one transaction                                *)

Lock_Shared(r) ==
    /\ req[r].pc = "lock"
    /\ locker' = r
    /\ Goto(r, "number")
    /\ UNCHANGED <<claim, inquiries, nextId, begun, undone, accepted>>
Lock(r) ==
    /\ req[r].pc = "lock"
    /\ locker = NoRequest
    /\ locker' = r
    /\ Goto(r, "number")
    /\ UNCHANGED <<claim, inquiries, nextId, begun, undone, accepted>>

\* nextCode: one more than the largest number in use.
IsNext(n) == /\ \A c \in Codes : c < n
             /\ n = 1 \/ n - 1 \in Codes

Number(r) ==
    /\ req[r].pc = "number"
    /\ \E n \in 1..nextId : IsNext(n) /\ req' = [req EXCEPT ![r].pc = "insert",
                                                           ![r].number = n]
    /\ UNCHANGED <<claim, inquiries, nextId, locker, begun, undone, accepted>>

\* The insert, unless the unique index on the code objects, and the commit.
AfterInsert(q) == IF q.files THEN "attach" ELSE "complete"

Insert(r) ==
    LET q == req[r] IN
    /\ q.pc = "insert"
    /\ nextId' = nextId + 1
    /\ Released(r)
    /\ IF q.number \in Codes
       THEN Failed(r) /\ UNCHANGED <<inquiries, accepted>>
       ELSE /\ inquiries' = [i \in DOMAIN inquiries \cup {nextId} |->
                               IF i = nextId THEN q.number ELSE inquiries[i]]
            /\ req' = [req EXCEPT ![r].pc = AfterInsert(q), ![r].id = nextId]
            /\ accepted' = IF q.keyed THEN accepted \cup {nextId} ELSE accepted
    /\ UNCHANGED <<claim, begun, undone>>

-----------------------------------------------------------------------------
(* Attachments, compensation, the answer                                   *)

Attach(r) ==
    /\ req[r].pc = "attach"
    /\ \/ Goto(r, "complete")
       \/ "upload" \in Faults /\ Goto(r, "compensate")
    /\ UNCHANGED <<claim, inquiries, nextId, locker, begun, undone, accepted>>

Without(i) == [j \in DOMAIN inquiries \ {i} |-> inquiries[j]]

\* compensateFailedSubmission; its own failure is only logged.
Compensate_ThenSucceed(r) ==
    /\ req[r].pc = "compensate"
    /\ inquiries' = Without(req[r].id)
    /\ undone' = undone \cup {req[r].id}
    /\ Goto(r, "complete")
    /\ UNCHANGED <<claim, nextId, locker, begun, accepted>>
Compensate(r) ==
    /\ req[r].pc = "compensate"
    /\ \/ /\ inquiries' = Without(req[r].id)
          /\ undone' = undone \cup {req[r].id}
          /\ accepted' = accepted \ {req[r].id}
       \/ "undo" \in Faults /\ UNCHANGED <<inquiries, undone, accepted>>
    /\ Failed(r)
    /\ UNCHANGED <<claim, nextId, locker, begun>>

\* completeSubmit, whoever's claim the row is by now.
Complete(r) ==
    /\ req[r].pc = "complete"
    /\ claim' = IF req[r].keyed /\ claim # NoClaim
                THEN [claim EXCEPT !.answer = req[r].id] ELSE claim
    /\ Answer(r)
    /\ UNCHANGED <<inquiries, nextId, locker, begun, undone, accepted>>

\* abandonSubmit removes an unanswered claim, whoever's it is by now.
Abandonable == claim # NoClaim /\ claim.answer = 0

Abandon(r) ==
    /\ req[r].pc = "abandon"
    /\ \/ claim' = IF Abandonable THEN NoClaim ELSE claim
       \/ "undo" \in Faults /\ UNCHANGED claim
    /\ Answer(r)
    /\ UNCHANGED <<inquiries, nextId, locker, begun, undone, accepted>>

-----------------------------------------------------------------------------
(* The environment                                                         *)

\* A statement of the try block fails: validation, a lost connection.
Reject(r) ==
    /\ "reject" \in Faults
    /\ req[r].pc \in {"lock", "number", "insert", "complete"}
    /\ Released(r)
    /\ Failed(r)
    /\ UNCHANGED <<claim, inquiries, nextId, begun, undone, accepted>>

\* The process dies: open transactions roll back, the claim stays behind.
Crash(r) ==
    /\ "crash" \in Faults
    /\ req[r].pc # "idle"
    /\ Released(r)
    /\ Answer(r)
    /\ UNCHANGED <<claim, inquiries, nextId, begun, undone, accepted>>

\* Staff hard-delete an inquiry.
Delete(i) ==
    /\ inquiries' = Without(i)
    /\ UNCHANGED <<claim, nextId, locker, req, begun, undone, accepted>>

\* Ten minutes pass.
Age == /\ claim # NoClaim /\ ~claim.stale
       /\ claim' = [claim EXCEPT !.stale = TRUE]
       /\ UNCHANGED <<inquiries, nextId, locker, req, begun, undone, accepted>>

Step(r) == \/ Claim(r) \/ Lookup(r) \/ Reclaim(r) \/ Lock(r) \/ Number(r)
           \/ Insert(r) \/ Attach(r) \/ Compensate(r) \/ Complete(r) \/ Abandon(r)

\* Every request was answered, and no client sends another.
Quiescent == (\A r \in Requests : req[r].pc = "idle") /\ UNCHANGED vars

Next == \/ \E r \in Requests : Begin(r) \/ Step(r) \/ Reject(r) \/ Crash(r)
        \/ \E i \in DOMAIN inquiries : Delete(i)
        \/ Age
        \/ Quiescent

Spec == Init /\ [][Next]_vars

\* Node runs every pending continuation, PostgreSQL answers every statement and
\* grants a free advisory lock to somebody who waits for it.
FairSpec == Spec /\ \A r \in Requests : WF_vars(Step(r))

-----------------------------------------------------------------------------
(* Properties                                                              *)

\* The tables, the sequence and the requests have their types.
TypeOK ==
    /\ claim \in Claim0 \cup {NoClaim}
    /\ DOMAIN inquiries \subseteq Ids
    /\ \A i \in DOMAIN inquiries : inquiries[i] \in Nat
    /\ nextId \in Ids
    /\ locker \in Requests \cup {NoRequest}
    /\ req \in [Requests -> Request]
    /\ begun \in 0..MaxRequests
    /\ undone \subseteq Nat /\ accepted \subseteq Nat

\* A number allocated to an open transaction is still free when it inserts: no
\* submission fails on the unique index, however many run at once.
AllocatedCodeIsFree ==
    \A r \in Requests : req[r].pc = "insert" => req[r].number \notin Codes

\* The answer stored for a key never names an inquiry that was compensated for.
AnswerNamesKeptInquiry == Answered => claim.answer \notin undone

\* A retry of a key that was already answered creates nothing.
AnsweredKeyCreatesNothing ==
    \A r \in Requests : req[r].late =>
        req[r].pc \in {"claim", "lookup"}

\* An answer stored for a key is never lost: neither a failing request nor the
\* ten-minute reclaim removes it.
AnswerStays ==
    [][Answered => claim' # NoClaim /\ claim'.answer # 0]_vars

\* A key creates one inquiry at most.
OneInquiryPerKey == \A i, j \in accepted : i = j

\* Every request is answered: the advisory lock is always given back.
EveryRequestAnswered ==
    \A r \in Requests : req[r].pc # "idle" ~> req[r].pc = "idle"
=============================================================================
