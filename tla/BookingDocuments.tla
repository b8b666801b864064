--------------------------- MODULE BookingDocuments ---------------------------
(***************************************************************************)
(* The booking-document workflow: a Booking Confirmation (BC) and the      *)
(* Arrival Notice (AN), Delivery Order (DO) and Bill of Lading (BL) that   *)
(* belong to it, edited, locked and deleted by concurrent HTTP requests.   *)
(*                                                                         *)
(* A request is a sequence of steps, one per statement (or group of        *)
(* statements) it sends to PostgreSQL at READ COMMITTED: what one step     *)
(* read may be stale when the next one runs.  `rows` is the COMMITTED      *)
(* content of the four tables.  Only the AN transaction spans several      *)
(* steps after its first write; while it is open its own row is invisible  *)
(* and locked (Holds).  Every other transaction writes last, so its write  *)
(* and its commit are one step.                                            *)
(*                                                                         *)
(* An operator named X_Fault is X with a plausible bug.  No definition     *)
(* uses it; put in X's place, it shows which property notices the bug.     *)
(***************************************************************************)
EXTENDS Integers, FiniteSets

CONSTANTS
    Requests,     \* slots for concurrently running HTTP requests
    MaxRequests,  \* bound: requests started in a behaviour
    Kinds,        \* the kinds of request clients send
    Cargo,        \* cargo of a payload: containers, description, service mode
    FullCargo,    \* the cargo that misses no required field
    Forms,        \* whether the fields outside the cargo are all filled in
    StartRows,    \* the tables a behaviour may start from
    Gone          \* the content of a document that does not exist

Types == {"BC", "AN", "DO", "BL"}
Flows == {"EXPORT", "IMPORT"}
NoBooking == 0    \* booking_id IS NULL; row ids start at 1

Payload == [cargo : Cargo, form : Forms]
Status  == {"PROCESSING", "COMPLETED"}
Row == [type : Types, flow : Flows \cup {"NONE"}, booking : Nat, version : Nat,
        locked : BOOLEAN, status : Status, payload : Payload]

WorkflowTypes(flow) == IF flow = "EXPORT" THEN {"BC", "BL"}
                                          ELSE {"BC", "AN", "DO"}

\* missingRequiredDocumentFields(type, payload).length === 0
Complete(p)  == p.form /\ p.cargo \in FullCargo
StatusFor(p) == IF Complete(p) THEN "COMPLETED" ELSE "PROCESSING"

\* What a table that the program wrote looks like while nothing is running.
WellFormed(t) ==
    /\ DOMAIN t \subseteq Nat \ {NoBooking}
    /\ IsFiniteSet(DOMAIN t)
    /\ t \in [DOMAIN t -> Row]
    /\ \A i \in DOMAIN t :
        /\ t[i].type = "BC" <=> t[i].flow \in Flows
        /\ t[i].type = "BC" => t[i].booking = NoBooking
        /\ t[i].booking # NoBooking =>
             /\ t[i].booking \in DOMAIN t
             /\ t[i].type \in WorkflowTypes(t[t[i].booking].flow)
             /\ t[t[i].booking].type = "BC"
        /\ t[i].status = StatusFor(t[i].payload)
        /\ t[i].locked => Complete(t[i].payload)
    /\ \A i, j \in DOMAIN t :
        /\ t[i].booking # NoBooking
        /\ t[i].booking = t[j].booking
        /\ t[i].type = t[j].type
        => i = j

ASSUME KindsAssumption ==
    Kinds \subseteq {"create", "update", "lock", "unlock", "delete"}
ASSUME PayloadAssumption ==
    /\ Cargo # {} /\ FullCargo \subseteq Cargo
    /\ Forms # {} /\ Forms \subseteq BOOLEAN
ASSUME GoneAssumption == Gone \notin Payload
ASSUME BoundAssumption == MaxRequests \in Nat
ASSUME StartAssumption == \A t \in StartRows : WellFormed(t)

VARIABLES
    rows,    \* committed rows, by id (ids of the four sequences kept apart)
    nextId,  \* the sequences: every id handed out is smaller
    req,     \* the request running in each slot
    begun    \* requests started so far

vars == <<rows, nextId, req, begun>>

PCs == {"idle", "anRead", "booking", "slot", "insert", "mutable", "cas",
        "sibling", "sibcas", "delCheck", "remove"}
Blank == CHOOSE p \in Payload : TRUE
Request == [pc : PCs, op : Kinds \cup {"none"}, type : Types,
            flow : Flows \cup {"NONE"}, booking : Nat, id : Nat, ver : Nat,
            payload : Payload, sib : Nat, sibVer : Nat]
Idle == [pc |-> "idle", op |-> "none", type |-> "BC", flow |-> "NONE",
         booking |-> NoBooking, id |-> 0, ver |-> 0, payload |-> Blank,
         sib |-> 0, sibVer |-> 0]

Init == /\ rows \in StartRows
        /\ nextId \in {1} \cup {i + 1 : i \in DOMAIN rows}
        /\ \A i \in DOMAIN rows : i < nextId
        /\ req = [r \in Requests |-> Idle]
        /\ begun = 0

-----------------------------------------------------------------------------
(* Queries over the committed tables, and row locks.                       *)

ActiveChildren(b, t) ==
    {i \in DOMAIN rows : rows[i].booking = b /\ rows[i].type = t}

BookingOpen(b) == b \in DOMAIN rows /\ ~rows[b].locked

InTransaction(r) == req[r].pc \in {"sibling", "sibcas"}
Holds(r) == IF InTransaction(r) THEN {req[r].id} ELSE {}
Free(i, r) == \A q \in Requests \ {r} : i \notin Holds(q)

\* Uncommitted INSERTs of other requests on the same booking: a second one of
\* the same type waits on the unique index, a DELETE of the booking on its FK.
InsertPending(b, r) ==
    \E q \in Requests \ {r} :
        InTransaction(q) /\ req[q].op = "create" /\ req[q].booking = b

-----------------------------------------------------------------------------
(* What a request writes.                                                  *)

NewRow(q) == [type |-> q.type, flow |-> q.flow, booking |-> q.booking,
              version |-> 1, locked |-> FALSE,
              status |-> StatusFor(q.payload), payload |-> q.payload]

Inserted(t, i, row) == [j \in DOMAIN t \cup {i} |-> IF j = i THEN row ELSE t[j]]

Edited(row, p) == [row EXCEPT !.payload = p, !.status = StatusFor(p),
                              !.version = @ + 1]

LockedRow(row) == [row EXCEPT !.locked = TRUE, !.status = "COMPLETED",
                              !.version = @ + 1]
UnlockedRow(row) == [row EXCEPT !.locked = FALSE, !.version = @ + 1]

\* casUpdate: UPDATE ... WHERE id, version = :expectedVersion, <locked_at test>.
CasMatches_NoVersion(i, ver, lockedAt) ==
    i \in DOMAIN rows /\ rows[i].locked = lockedAt
CasMatches_IdOnly(i, ver, lockedAt) == i \in DOMAIN rows
CasMatches(i, ver, lockedAt) ==
    /\ i \in DOMAIN rows
    /\ rows[i].version = ver
    /\ rows[i].locked = lockedAt

\* The request's own write, on top of the committed tables.
OwnWrite(q, i) ==
    CASE q.op = "create" -> Inserted(rows, i, NewRow(q))
      [] q.op = "update" -> [rows EXCEPT ![i] = Edited(@, q.payload)]
      [] q.op = "lock"   -> [rows EXCEPT ![i] = LockedRow(@)]
      [] q.op = "unlock" -> [rows EXCEPT ![i] = UnlockedRow(@)]

\* Deleting a Booking deletes its children (ON DELETE CASCADE).
Removed_NoCascade(i) == {i}
Removed(i) == {i} \cup {j \in DOMAIN rows : rows[j].booking = i}

Goto(r, pc) == req' = [req EXCEPT ![r].pc = pc]
Answer(r)   == req' = [req EXCEPT ![r] = Idle]
Reject(r)   == Answer(r) /\ UNCHANGED <<rows, nextId>>
Commit(r, t) == rows' = t /\ Answer(r) /\ UNCHANGED nextId

Start(r, q) == /\ req[r].pc = "idle"
               /\ begun < MaxRequests
               /\ begun' = begun + 1
               /\ req' = [req EXCEPT ![r] = q]
               /\ UNCHANGED <<rows, nextId>>

-----------------------------------------------------------------------------
(* create                                                                  *)

\* A Booking's row is inserted unconditionally; a linked DO first reads the AN.
BeginCreate(r) ==
    /\ "create" \in Kinds
    /\ \E p \in Payload, t \in Types, f \in Flows, b \in DOMAIN rows \cup {NoBooking} :
        /\ t = "BC" => b = NoBooking
        /\ b # NoBooking => rows[b].type = "BC"
        /\ Start(r, [Idle EXCEPT
               !.pc = IF b = NoBooking THEN "insert"
                      ELSE IF t = "DO" THEN "anRead" ELSE "booking",
               !.op = "create", !.type = t,
               !.flow = IF t = "BC" THEN f ELSE "NONE",
               !.booking = b, !.payload = p])

\* overwriteDoCargoFromAn, outside the transaction, for DO create and update.
ReadAnCargo(r) ==
    /\ req[r].pc = "anRead"
    /\ LET an == ActiveChildren(req[r].booking, "AN")
       IN  req' = [req EXCEPT
               ![r].pc = IF req[r].op = "create" THEN "booking" ELSE "mutable",
               ![r].payload.cargo =
                   IF an = {} THEN @ ELSE rows[CHOOSE i \in an : TRUE].payload.cargo]
    /\ UNCHANGED <<rows, nextId, begun>>

\* resolveWorkflowFields: the booking exists, is unlocked, has this type.
CheckBooking(r) ==
    /\ req[r].pc = "booking"
    /\ IF /\ BookingOpen(req[r].booking)
          /\ req[r].type \in WorkflowTypes(rows[req[r].booking].flow)
       THEN Goto(r, "slot") /\ UNCHANGED <<rows, nextId>>
       ELSE Reject(r)
    /\ UNCHANGED begun

\* resolveWorkflowFields: no document of this type yet; a DO needs its AN.
CheckSlot(r) ==
    /\ req[r].pc = "slot"
    /\ IF /\ ActiveChildren(req[r].booking, req[r].type) = {}
          /\ req[r].type = "DO" => ActiveChildren(req[r].booking, "AN") # {}
       THEN Goto(r, "insert") /\ UNCHANGED <<rows, nextId>>
       ELSE Reject(r)
    /\ UNCHANGED begun

\* The foreign key and the partial unique index decide what the reads could not.
InsertAllowed_NoUniqueIndex(q) ==
    q.booking # NoBooking => q.booking \in DOMAIN rows
InsertAllowed(q) ==
    q.booking # NoBooking => /\ q.booking \in DOMAIN rows
                             /\ ActiveChildren(q.booking, q.type) = {}

Insert(r) ==
    /\ req[r].pc = "insert"
    /\ (req[r].booking # NoBooking /\ req[r].type = "AN") =>
           ~InsertPending(req[r].booking, r)
    /\ IF ~InsertAllowed(req[r])
       THEN Reject(r)
       ELSE /\ nextId' = nextId + 1
            /\ IF req[r].type = "AN" /\ req[r].booking # NoBooking
               THEN /\ req' = [req EXCEPT ![r].pc = "sibling", ![r].id = nextId]
                    /\ UNCHANGED rows
               ELSE /\ rows' = OwnWrite(req[r], nextId)
                    /\ Answer(r)
    /\ UNCHANGED begun

-----------------------------------------------------------------------------
(* update, lock and unlock                                                 *)

\* The client sends the version it was shown; an older one is refused.
BeginUpdate(r) ==
    /\ "update" \in Kinds
    /\ \E i \in DOMAIN rows, p \in Payload :
        Start(r, [Idle EXCEPT
            !.pc = IF rows[i].type = "DO" /\ rows[i].booking # NoBooking
                   THEN "anRead" ELSE "mutable",
            !.op = "update", !.type = rows[i].type, !.booking = rows[i].booking,
            !.id = i, !.ver = rows[i].version, !.payload = p])

\* findActiveOrFail, assertMutable and casUpdate's own look at the version.
CheckMutable(r) ==
    LET q == req[r] IN
    /\ q.pc = "mutable"
    /\ IF /\ CasMatches(q.id, q.ver, FALSE)
          /\ q.booking # NoBooking => BookingOpen(q.booking)
       THEN Goto(r, "cas") /\ UNCHANGED <<rows, nextId>>
       ELSE Reject(r)
    /\ UNCHANGED begun

\* lock: reads the record, refuses a locked or an incomplete one.
BeginLock(r) ==
    /\ "lock" \in Kinds
    /\ \E i \in DOMAIN rows :
        /\ ~rows[i].locked
        /\ Complete(rows[i].payload)
        /\ Start(r, [Idle EXCEPT !.pc = "cas", !.op = "lock", !.id = i,
                         !.type = rows[i].type, !.ver = rows[i].version])

\* unlock: reads the record, refuses an unlocked one.
BeginUnlock(r) ==
    /\ "unlock" \in Kinds
    /\ \E i \in DOMAIN rows :
        /\ rows[i].locked
        /\ Start(r, [Idle EXCEPT !.pc = "cas", !.op = "unlock", !.id = i,
                         !.type = rows[i].type, !.ver = rows[i].version])

\* casUpdate: waits for the row lock, then 0 or 1 row affected.
Cas_RetryForever(r) ==
    LET q == req[r] IN
    /\ q.pc = "cas"
    /\ Free(q.id, r)
    /\ IF ~CasMatches(q.id, q.ver, q.op = "unlock")
       THEN UNCHANGED <<rows, nextId, req>>
       ELSE Commit(r, OwnWrite(q, q.id))
    /\ UNCHANGED begun
Cas(r) ==
    LET q == req[r] IN
    /\ q.pc = "cas"
    /\ Free(q.id, r)
    /\ IF ~CasMatches(q.id, q.ver, q.op = "unlock")
       THEN Reject(r)
       ELSE IF q.op = "update" /\ q.type = "AN" /\ q.booking # NoBooking
            THEN Goto(r, "sibling") /\ UNCHANGED <<rows, nextId>>
            ELSE Commit(r, OwnWrite(q, q.id))
    /\ UNCHANGED begun

-----------------------------------------------------------------------------
(* patchSiblingDoCargoFromAn: the second half of the AN transaction        *)

\* No DO: commit.  A locked DO: commit only if its cargo does not change.
\* Otherwise go on to update it, unless the booking was locked meanwhile.
ReadSibling_IgnoresLockedDo(r) ==
    LET q == req[r]
        open == {i \in ActiveChildren(q.booking, "DO") : ~rows[i].locked}
    IN
    /\ q.pc = "sibling"
    /\ IF open = {} THEN Commit(r, OwnWrite(q, q.id))
       ELSE /\ \E d \in open :
                 req' = [req EXCEPT ![r].pc = "sibcas", ![r].sib = d,
                                    ![r].sibVer = rows[d].version]
            /\ UNCHANGED <<rows, nextId>>
    /\ UNCHANGED begun
ReadSibling(r) ==
    LET q  == req[r]
        do == ActiveChildren(q.booking, "DO")
    IN
    /\ q.pc = "sibling"
    /\ IF do = {} THEN Commit(r, OwnWrite(q, q.id))
       ELSE LET d == CHOOSE i \in do : TRUE IN
            IF rows[d].locked
            THEN IF rows[d].payload.cargo = q.payload.cargo
                 THEN Commit(r, OwnWrite(q, q.id))
                 ELSE Reject(r)
            ELSE IF BookingOpen(q.booking)
                 THEN /\ req' = [req EXCEPT ![r].pc = "sibcas", ![r].sib = d,
                                            ![r].sibVer = rows[d].version]
                      /\ UNCHANGED <<rows, nextId>>
                 ELSE Reject(r)
    /\ UNCHANGED begun

PatchedSibling(q) ==
    [OwnWrite(q, q.id) EXCEPT
        ![q.sib] = Edited(@, [@.payload EXCEPT !.cargo = q.payload.cargo])]

\* The DO's compare-and-set and the commit of both rows, or of neither.
PatchSibling(r) ==
    LET q == req[r] IN
    /\ q.pc = "sibcas"
    /\ Free(q.sib, r)
    /\ IF CasMatches(q.sib, q.sibVer, FALSE)
       THEN Commit(r, PatchedSibling(q))
       ELSE Reject(r)
    /\ UNCHANGED begun

-----------------------------------------------------------------------------
(* hardDelete                                                              *)

\* findOne, and the record's own lock.
BeginDelete(r) ==
    /\ "delete" \in Kinds
    /\ \E i \in DOMAIN rows :
        /\ ~rows[i].locked
        /\ Start(r, [Idle EXCEPT !.op = "delete", !.type = rows[i].type,
                 !.booking = rows[i].booking, !.id = i,
                 !.pc = IF rows[i].type # "BC" /\ rows[i].booking = NoBooking
                        THEN "remove" ELSE "delCheck"])

\* assertDeletable: the children's locks of a BC, the booking's lock of a child.
CheckDeletable(r) ==
    LET q == req[r] IN
    /\ q.pc = "delCheck"
    /\ IF IF q.type = "BC"
          THEN \A i \in DOMAIN rows : rows[i].booking = q.id => ~rows[i].locked
          ELSE BookingOpen(q.booking)
       THEN Goto(r, "remove") /\ UNCHANGED <<rows, nextId>>
       ELSE Reject(r)
    /\ UNCHANGED begun

\* repository.remove: DELETE WHERE id, with no look at version or lock; it
\* waits for the row locks it needs.
Remove(r) ==
    LET q == req[r] IN
    /\ q.pc = "remove"
    /\ \A i \in Removed(q.id) : Free(i, r)
    /\ q.type = "BC" => ~InsertPending(q.id, r)
    /\ Commit(r, [i \in DOMAIN rows \ Removed(q.id) |-> rows[i]])
    /\ UNCHANGED begun

-----------------------------------------------------------------------------
\* A validation error, a lost connection or a crash of the process: PostgreSQL
\* rolls the open transaction back and drops its locks.
Abort(r) == req[r].pc # "idle" /\ Reject(r) /\ UNCHANGED begun

Begin(r) == \/ BeginCreate(r) \/ BeginUpdate(r) \/ BeginLock(r)
            \/ BeginUnlock(r) \/ BeginDelete(r)

Step(r) == \/ ReadAnCargo(r) \/ CheckBooking(r) \/ CheckSlot(r) \/ Insert(r)
           \/ CheckMutable(r) \/ Cas(r) \/ ReadSibling(r) \/ PatchSibling(r)
           \/ CheckDeletable(r) \/ Remove(r)

\* Every request was answered, and no client sends another.
Quiescent == (\A r \in Requests : req[r].pc = "idle") /\ UNCHANGED vars

Next == \/ \E r \in Requests : Begin(r) \/ Step(r) \/ Abort(r)
        \/ Quiescent

Spec == Init /\ [][Next]_vars

\* Node's event loop runs every pending continuation, PostgreSQL answers every
\* statement whose row locks are free.  Clients need not send anything.
FairSpec == Spec /\ \A r \in Requests : WF_vars(Step(r))

-----------------------------------------------------------------------------
(* What users are shown of a workflow, computed twice by the code.         *)

Completed(b, t) == IF t = "BC" THEN rows[b].status = "COMPLETED"
                   ELSE \E i \in ActiveChildren(b, t) : rows[i].status = "COMPLETED"

\* workflowStatusFor: every document of the flow exists and is completed.
WorkflowStatusFor(b) ==
    IF \A t \in WorkflowTypes(rows[b].flow) : Completed(b, t)
    THEN "COMPLETED" ELSE "PROCESSING"

\* booking_reporting_v1 LEFT JOINs the three child tables (0: no such row).
LeftJoin(b, t) == IF ActiveChildren(b, t) = {} THEN {0} ELSE ActiveChildren(b, t)
ReportRows(b) == LeftJoin(b, "BL") \X LeftJoin(b, "AN") \X LeftJoin(b, "DO")
JoinedCompleted(i) == i # 0 /\ rows[i].status = "COMPLETED"

\* The CASE of the report's SQL for one joined row <<bl, an, do>>.
ReportStatus_NoDo(b, j) ==
    IF /\ rows[b].status = "COMPLETED"
       /\ \/ rows[b].flow = "EXPORT" /\ JoinedCompleted(j[1])
          \/ rows[b].flow = "IMPORT" /\ JoinedCompleted(j[2])
    THEN "COMPLETED" ELSE "PROCESSING"
ReportStatus(b, j) ==
    IF /\ rows[b].status = "COMPLETED"
       /\ \/ rows[b].flow = "EXPORT" /\ JoinedCompleted(j[1])
          \/ rows[b].flow = "IMPORT" /\ JoinedCompleted(j[2]) /\ JoinedCompleted(j[3])
    THEN "COMPLETED" ELSE "PROCESSING"

-----------------------------------------------------------------------------
(* Invariants                                                              *)

\* Every table, request and counter has its type.
TypeOK ==
    /\ DOMAIN rows \subseteq Nat \ {NoBooking}
    /\ rows \in [DOMAIN rows -> Row]
    /\ nextId \in Nat \ {0}
    /\ req \in [Requests -> Request]
    /\ begun \in 0..MaxRequests

\* A booking never has two documents of one type, however the checks of
\* resolveWorkflowFields interleave: the partial unique index decides.
OneActivePerType ==
    \A i, j \in DOMAIN rows :
        /\ rows[i].booking # NoBooking
        /\ rows[i].booking = rows[j].booking
        /\ rows[i].type = rows[j].type
        => i = j

\* A linked document hangs on an existing Booking whose flow has its type,
\* although the booking may be deleted between the check and the insert.
ChildFitsFlow ==
    \A i \in DOMAIN rows :
        LET b == rows[i].booking IN
        b # NoBooking =>
            /\ b \in DOMAIN rows
            /\ rows[b].type = "BC"
            /\ rows[i].type \in WorkflowTypes(rows[b].flow)

\* What hangs on a booking fits it: at most one document of a type, each of a
\* type of its flow, on a booking that is there, although others create and
\* delete between the checks and the insert.
ChildrenFitBooking == OneActivePerType /\ ChildFitsFlow

\* A locked document misses no required field: the completeness lock() read
\* still holds when its UPDATE lands.
LockedIsComplete ==
    \A i \in DOMAIN rows : rows[i].locked => Complete(rows[i].payload)

\* The stored status is the one statusFor computes from the stored payload,
\* for rows written by create, update, lock and the sibling patch alike.
StatusMatchesPayload ==
    \A i \in DOMAIN rows : rows[i].status = StatusFor(rows[i].payload)

\* The report shows every booking exactly once, with the status the workflow
\* endpoint computes for it.
ReportAgreesWithWorkflow ==
    \A b \in DOMAIN rows : rows[b].type = "BC" =>
        /\ Cardinality(ReportRows(b)) = 1
        /\ \A j \in ReportRows(b) : ReportStatus(b, j) = WorkflowStatusFor(b)

\* The DO carries the cargo of the AN of its booking ("in lockstep").
CargoInLockstep ==
    \A i, j \in DOMAIN rows :
        /\ rows[i].booking # NoBooking
        /\ rows[i].booking = rows[j].booking
        /\ rows[i].type = "AN"
        /\ rows[j].type = "DO"
        => rows[i].payload.cargo = rows[j].payload.cargo

-----------------------------------------------------------------------------
(* Action and liveness properties                                          *)

\* Every document is a record that can be locked: while it is locked it says
\* what it said, only a complete one is locked, and it is unlocked or deleted
\* as a whole, also by the AN transaction that writes two documents at once.
Record(i) == INSTANCE LockableRecord WITH
    Contents <- Payload, Finished <- {p \in Payload : Complete(p)},
    Quotes   <- Payload \X {Gone}, Absent <- Gone, Nothing <- Gone,
    content  <- IF i \in DOMAIN rows THEN rows[i].payload ELSE Gone,
    locked   <- i \in DOMAIN rows /\ rows[i].locked,
    issued   <- Gone
DocumentsAreLockable ==
    [][\A i \in DOMAIN rows \cup DOMAIN rows' :
          Record(i)!RecordNext \/ UNCHANGED Record(i)!recordVars]_vars

\* No lost update: the version a request was shown is the version its write
\* replaces, also for the DO that an AN transaction rewrites.
NoLostUpdate ==
    [][\A r \in Requests : rows' # rows /\ req'[r].pc = "idle" =>
          /\ req[r].pc \in {"cas", "sibling", "sibcas"} /\ req[r].op # "create" =>
                rows[req[r].id].version = req[r].ver
          /\ req[r].pc = "sibcas" =>
                rows[req[r].sib].version = req[r].sibVer]_vars

\* Every request is answered: no wait for a row lock lasts for ever.
EveryRequestAnswered ==
    \A r \in Requests : req[r].pc # "idle" ~> req[r].pc = "idle"
=============================================================================
