----------------------------- MODULE EpdaInquiry -----------------------------
(***************************************************************************)
(* One shipping-agency inquiry and its EPDA: staff save the draft, lock it *)
(* with a snapshot of the tariff parameters, unlock it; other endpoints    *)
(* change its status, hours and form, archive it or delete it; meanwhile   *)
(* the tariffs it is computed from are edited.                             *)
(*                                                                         *)
(* Save, lock and unlock run in a transaction that holds the row's lock    *)
(* (SELECT ... FOR UPDATE).  Status and sheet updates load the row, change *)
(* it in memory and save the whole entity (EntitySave).                    *)
(*                                                                         *)
(* An operator named X_Fault is X with a plausible bug, used nowhere.      *)
(***************************************************************************)
EXTENDS Integers, EntitySave

CONSTANTS
    Requests,     \* slots for concurrently running HTTP requests
    MaxRequests,  \* bound: requests started in a behaviour
    Kinds,        \* the kinds of request clients send
    Ports,        \* canonical ports
    NoPort,       \* port_id IS NULL
    Rates,        \* versions of a port's effective tariff parameters
    NoParams,     \* a JSON column that is NULL, or an absent body field
    Sheets,       \* values of the EPDA fields no check looks at (hours, form)
    Gone,         \* the row does not exist
    StartRows     \* the inquiry a behaviour may start from

\* Effective parameters name the port they were resolved for.
Params  == Ports \X Rates
Status  == {"PROCESSING", "COMPLETED", "QUOTED"}
Row == [port : Ports \cup {NoPort}, filled : BOOLEAN, sheet : Sheets,
        status : Status, working : Params \cup {NoParams},
        snapshot : Params \cup {NoParams}, locked : BOOLEAN, archived : BOOLEAN]

\* missingCompleteFields(row).length === 0
Complete(e) == e.filled /\ e.port # NoPort

\* An inquiry as the customer's submission, a save or a lock leaves it.
WellFormed(e) ==
    /\ e \in Row
    /\ e.working # NoParams => e.port # NoPort /\ e.working[1] = e.port
    /\ e.locked => /\ Complete(e) /\ e.snapshot # NoParams
                   /\ e.snapshot[1] = e.port

\* What the EPDA says: its fields and the parameters it is computed with.
Contents == [port : Ports \cup {NoPort}, filled : BOOLEAN, sheet : Sheets,
             working : Params \cup {NoParams}]
Content(e) == [port |-> e.port, filled |-> e.filled, sheet |-> e.sheet,
               working |-> e.working]

ASSUME KindsAssumption ==
    Kinds \subseteq {"save", "lock", "unlock", "status", "sheet", "archive", "delete"}
ASSUME NullAssumption ==
    /\ NoPort \notin Ports /\ NoParams \notin Params
    /\ Gone \notin Row /\ Gone \notin Contents
ASSUME BoundAssumption == MaxRequests \in Nat
ASSUME StartAssumption == \A e \in StartRows : WellFormed(e)

VARIABLES
    row,   \* the committed row, or Gone
    live,  \* the parameters in force, by port
    req,   \* the request running in each slot
    begun  \* requests started so far

vars == <<row, live, req, begun>>

\* The fields of a running request: the entity it loaded, the columns its save
\* will set, the body (port, filled, sheet, status, params), and for a lock the
\* parameters resolved before the row lock.  `seen` only serves a property: the
\* parameters that were in force at some time since the request began.
PCs == {"idle", "resolve", "acquire", "finish", "reload", "flush",
        "insert", "archive", "remove"}
Request == [pc : PCs, op : Kinds \cup {"none"}, ent : Row \cup {Gone},
            cols : SUBSET {"port", "filled", "sheet", "status", "working",
                           "snapshot", "locked", "archived"},
            port : Ports \cup {NoPort}, filled : BOOLEAN, sheet : Sheets,
            params : Params \cup {NoParams}, pre : Params \cup {NoParams},
            seen : SUBSET Params]
Idle == [pc |-> "idle", op |-> "none", ent |-> Gone, cols |-> {},
         port |-> NoPort, filled |-> FALSE, sheet |-> CHOOSE s \in Sheets : TRUE,
         params |-> NoParams, pre |-> NoParams, seen |-> {}]

Init == /\ row \in StartRows
        /\ live \in [Ports -> Rates]
        /\ req = [r \in Requests |-> Idle]
        /\ begun = 0

-----------------------------------------------------------------------------
(* Row lock, statements, answers.                                          *)

\* From SELECT ... FOR UPDATE to the commit of the transaction.
Holds_NoLock(r) == FALSE
Holds(r) == req[r].pc = "finish"
Free(r)  == \A q \in Requests \ {r} : ~Holds(q)

Effective(port) == <<port, live[port]>>

Answer(r) == req' = [req EXCEPT ![r] = Idle]
Reject(r) == Answer(r) /\ UNCHANGED row
Commit(r, e) == row' = e /\ Answer(r)

Start(r, q) == /\ req[r].pc = "idle"
               /\ begun < MaxRequests
               /\ begun' = begun + 1
               /\ req' = [req EXCEPT ![r] = q]
               /\ UNCHANGED <<row, live>>

-----------------------------------------------------------------------------
(* updateEpda                                                              *)

BeginSave(r) ==
    /\ "save" \in Kinds
    /\ \E p \in Ports \cup {NoPort}, f \in BOOLEAN, s \in Sheets,
          w \in Params \cup {NoParams} :
        Start(r, [Idle EXCEPT !.pc = "acquire", !.op = "save", !.port = p,
                              !.filled = f, !.sheet = s, !.params = w])

\* applyAuthoritativeWorkingParams.  A request may keep the pinned parameters
\* of an unchanged port or apply the current ones; anything else is a 409.
KeepsPinned_AnyPort(e, q) ==
    e.working # NoParams /\ q.params \in {NoParams, e.working}
KeepsPinned(e, q) ==
    /\ q.port = e.port
    /\ e.working # NoParams
    /\ q.params \in {NoParams, e.working}
WorkingAccepted(e, q) ==
    q.port = NoPort \/ KeepsPinned(e, q)
                    \/ q.params \in {NoParams, Effective(q.port)}
NewWorking(e, q) ==
    IF q.port = NoPort THEN NoParams
    ELSE IF KeepsPinned(e, q) THEN e.working ELSE Effective(q.port)

StatusFor(e) == IF Complete(e) THEN "COMPLETED" ELSE "PROCESSING"

\* The draft with the body applied; status follows from completeness.
Draft(e, q) ==
    LET edited == [e EXCEPT !.port = q.port, !.filled = q.filled,
                            !.sheet = q.sheet, !.working = NewWorking(e, q)]
    IN  [edited EXCEPT !.status = StatusFor(edited)]

-----------------------------------------------------------------------------
(* lockEpda                                                                *)

\* The preview read of lockEpda, and the client's choice of parameters.
BeginLock(r) ==
    /\ "lock" \in Kinds
    /\ row # Gone
    /\ \E w \in Params :
        Start(r, [Idle EXCEPT
            !.pc = IF row.locked \/ row.port = NoPort THEN "acquire" ELSE "resolve",
            !.op = "lock", !.port = row.port, !.params = w,
            !.seen = {Effective(p) : p \in Ports}])

\* Resolves the live parameters of the previewed port before the row lock.
Resolve(r) ==
    /\ req[r].pc = "resolve"
    /\ req' = [req EXCEPT ![r].pc = "acquire", ![r].pre = Effective(req[r].port)]
    /\ UNCHANGED <<row, live, begun>>

\* lockEpdaRow: what counts as live for the row that is now locked.
LiveFor_Previewed(e, q) == IF q.pre # NoParams THEN q.pre ELSE Effective(e.port)
LiveFor(e, q) == IF q.pre # NoParams /\ e.port = q.port THEN q.pre
                 ELSE Effective(e.port)

\* buildAuthoritativeSnapshot: skip (pinned) or apply (live), else 409.
SnapshotAccepted(e, q) == q.params = e.working \/ q.params = LiveFor(e, q)

Frozen(e, q) == [e EXCEPT !.status = "COMPLETED", !.snapshot = q.params,
                          !.locked = TRUE]

-----------------------------------------------------------------------------
(* unlockEpda                                                              *)

BeginUnlock(r) ==
    /\ "unlock" \in Kinds
    /\ Start(r, [Idle EXCEPT !.pc = "acquire", !.op = "unlock"])

-----------------------------------------------------------------------------
(* The transaction of save, lock and unlock: lock the row, check, write.   *)

Allowed_LockIncomplete(e, q) ==
    IF q.op = "unlock" THEN e.locked ELSE ~e.locked
Allowed(e, q) ==
    CASE q.op = "save"   -> ~e.locked
      [] q.op = "lock"   -> ~e.locked /\ Complete(e)
      [] q.op = "unlock" -> e.locked

\* requireLockedShippingAgencyInquiry and the checks on the locked row.
Acquire(r) ==
    /\ req[r].pc = "acquire"
    /\ Free(r)
    /\ IF row # Gone /\ Allowed(row, req[r])
       THEN req' = [req EXCEPT ![r].pc = "finish", ![r].ent = row]
       ELSE Answer(r)
    /\ UNCHANGED <<row, live, begun>>

\* The writes, at the parameters in force now, and the commit.
Finish_NoRollback(r) ==
    LET q == req[r]
        e == q.ent
        allowed == IF q.op = "lock" THEN SnapshotAccepted(e, q)
                   ELSE q.op = "save" => WorkingAccepted(e, q)
    IN
    /\ q.pc = "finish"
    /\ IF ~allowed THEN FALSE ELSE
       Commit(r, CASE q.op = "save"   -> Draft(e, q)
                   [] q.op = "lock"   -> Frozen(e, q)
                   [] q.op = "unlock" -> [e EXCEPT !.locked = FALSE])
    /\ UNCHANGED <<live, begun>>
Finish(r) ==
    LET q == req[r]
        e == q.ent
        allowed == IF q.op = "lock" THEN SnapshotAccepted(e, q)
                   ELSE q.op = "save" => WorkingAccepted(e, q)
    IN
    /\ q.pc = "finish"
    /\ IF allowed
       THEN Commit(r, CASE q.op = "save"   -> Draft(e, q)
                        [] q.op = "lock"   -> Frozen(e, q)
                        [] q.op = "unlock" -> [e EXCEPT !.locked = FALSE])
       ELSE Reject(r)
    /\ UNCHANGED <<live, begun>>

-----------------------------------------------------------------------------
(* updateStatus, updateHours, updateForm: whole-entity saves.              *)

BeginStatus(r) ==
    /\ "status" \in Kinds
    /\ row # Gone /\ ~row.archived
    /\ \E s \in Status :
        Start(r, [Idle EXCEPT !.pc = "reload", !.op = "status",
                              !.ent = [row EXCEPT !.status = s]])

BeginSheet(r) ==
    /\ "sheet" \in Kinds
    /\ row # Gone /\ ~row.archived
    /\ \E s \in Sheets :
        Start(r, [Idle EXCEPT !.pc = "reload", !.op = "sheet",
                              !.ent = [row EXCEPT !.sheet = s]])

\* save() reads the row again and decides what to write.
Reload(r) ==
    /\ req[r].pc = "reload"
    /\ req' = IF row = Gone THEN [req EXCEPT ![r].pc = "insert"]
              ELSE [req EXCEPT ![r].pc = "flush",
                               ![r].cols = Differing(req[r].ent, row)]
    /\ UNCHANGED <<row, live, begun>>

\* The UPDATE; it matches nothing if the row is gone by now.
Flush(r) ==
    LET q == req[r] IN
    /\ q.pc = "flush"
    /\ q.cols = {} \/ Free(r)
    /\ IF row = Gone THEN Reject(r)
       ELSE Commit(r, Overwritten(row, q.ent, q.cols))
    /\ UNCHANGED <<live, begun>>

\* The INSERT, if the reload found no row.
Reinsert(r) ==
    /\ req[r].pc = "insert"
    /\ IF row = Gone THEN Commit(r, req[r].ent) ELSE Reject(r)
    /\ UNCHANGED <<live, begun>>

-----------------------------------------------------------------------------
(* Archiving and deleting                                                  *)

\* softDeleteBatchByUser: the ownership read, then one UPDATE.
BeginArchive(r) ==
    /\ "archive" \in Kinds
    /\ row # Gone /\ ~row.archived
    /\ Start(r, [Idle EXCEPT !.pc = "archive", !.op = "archive"])

Archive(r) ==
    /\ req[r].pc = "archive"
    /\ Free(r)
    /\ IF row # Gone /\ ~row.archived
       THEN Commit(r, [row EXCEPT !.archived = TRUE]) ELSE Reject(r)
    /\ UNCHANGED <<live, begun>>

\* hardDeleteByServiceAndId, hardDeleteBatch: a read refuses a locked EPDA, the
\* DELETE looks at the id alone.
BeginDelete(r) ==
    /\ "delete" \in Kinds
    /\ row # Gone /\ ~row.locked
    /\ Start(r, [Idle EXCEPT !.pc = "remove", !.op = "delete"])

Remove(r) ==
    /\ req[r].pc = "remove"
    /\ Free(r)
    /\ Commit(r, Gone)
    /\ UNCHANGED <<live, begun>>

-----------------------------------------------------------------------------
\* Somebody edits the parameters a port's effective ones are merged from.
EditRates(p) ==
    /\ \E v \in Rates \ {live[p]} : live' = [live EXCEPT ![p] = v]
    /\ req' = [r \in Requests |->
                 IF req[r].op = "lock"
                 THEN [req[r] EXCEPT !.seen = @ \cup {<<p, live'[p]>>}]
                 ELSE req[r]]
    /\ UNCHANGED <<row, begun>>

\* A validation error, a lost connection or a crash: the transaction rolls back.
Abort(r) == req[r].pc # "idle" /\ Reject(r) /\ UNCHANGED <<live, begun>>

Begin(r) == \/ BeginSave(r) \/ BeginLock(r) \/ BeginUnlock(r) \/ BeginStatus(r)
            \/ BeginSheet(r) \/ BeginArchive(r) \/ BeginDelete(r)

Step(r) == \/ Resolve(r) \/ Acquire(r) \/ Finish(r) \/ Reload(r) \/ Flush(r)
           \/ Reinsert(r) \/ Archive(r) \/ Remove(r)

\* Every request was answered, and no client sends another.
Quiescent == (\A r \in Requests : req[r].pc = "idle") /\ UNCHANGED vars

Next == \/ \E r \in Requests : Begin(r) \/ Step(r) \/ Abort(r)
        \/ \E p \in Ports : EditRates(p)
        \/ Quiescent

Spec == Init /\ [][Next]_vars

\* Node's event loop runs every pending continuation, PostgreSQL answers every
\* statement whose row lock is free.
FairSpec == Spec /\ \A r \in Requests : WF_vars(Step(r))

-----------------------------------------------------------------------------
(* Invariants                                                              *)

\* The row, the tariffs and the requests have their types.
TypeOK ==
    /\ row \in Row \cup {Gone}
    /\ live \in [Ports -> Rates]
    /\ req \in [Requests -> Request]
    /\ begun \in 0..MaxRequests

\* A locked EPDA misses no required field and has a snapshot of the tariffs of
\* its own port, although its port may have changed after the preview read.
LockedIsComplete ==
    row # Gone /\ row.locked =>
        /\ Complete(row)
        /\ row.snapshot # NoParams
        /\ row.snapshot[1] = row.port

\* The pinned working parameters are those of the inquiry's port.
WorkingFitsPort ==
    row # Gone /\ row.working # NoParams => row.working[1] = row.port

\* Whatever tariffs an EPDA is worked out or was locked with are those of its
\* own port, and what is locked is complete.
TariffsFitPort == LockedIsComplete /\ WorkingFitsPort

-----------------------------------------------------------------------------
(* Action and liveness properties                                          *)

\* A lock freezes the pinned parameters or parameters that were in force for
\* this port while the request ran, never older ones or another port's.
SnapshotWasOffered ==
    [][row # Gone /\ row' # Gone /\ ~row.locked /\ row'.locked =>
          \/ row'.snapshot = row.working
          \/ \E r \in Requests : /\ req[r].op = "lock" /\ req[r].pc = "finish"
                                 /\ row'.snapshot \in req[r].seen
                                 /\ row'.snapshot[1] = row.port]_vars

\* The EPDA is a record that can be locked: while it is locked only an unlock
\* or a deletion changes it, only a complete one is locked, and what a lock
\* issued for its port stays until the next lock.
Record == INSTANCE LockableRecord WITH
    Contents <- Contents, Finished <- {c \in Contents : Complete(c)},
    Quotes   <- {q \in Contents \X Params : q[2][1] = q[1].port},
    Absent   <- Gone, Nothing <- NoParams,
    content  <- IF row = Gone THEN Gone ELSE Content(row),
    locked   <- row # Gone /\ row.locked,
    issued   <- IF row = Gone THEN NoParams ELSE row.snapshot
EpdaIsLockable == Record!RecordSpec

\* Every request is answered: nothing waits for the row lock for ever.
EveryRequestAnswered ==
    \A r \in Requests : req[r].pc # "idle" ~> req[r].pc = "idle"
=============================================================================
