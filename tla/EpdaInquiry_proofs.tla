-------------------------- MODULE EpdaInquiry_proofs --------------------------
(***************************************************************************)
(* Proofs about EpdaInquiry for any number of requests, any ports, tariffs *)
(* and fields, with the endpoints that change the row under its lock or by *)
(* one statement.  Status and sheet updates save entities they loaded      *)
(* earlier; with them the theorems do not hold.                            *)
(***************************************************************************)
EXTENDS EpdaInquiry, TLAPS

NoStaleSaves == "status" \notin Kinds /\ "sheet" \notin Kinds

\* The locking transaction writes what it has read: nobody changes the row in
\* between.
OpenSeesRow ==
    \A r \in Requests : req[r].pc = "finish" =>
        /\ row # Gone /\ req[r].ent = row /\ Allowed(row, req[r])
        /\ \A q \in Requests : req[q].pc = "finish" => q = r

\* What a lock has resolved is of the port it has read and was in force since
\* the request began.
LockSees(q) ==
    q.op = "lock" =>
        /\ q.params \in Params
        /\ \A p \in Ports : Effective(p) \in q.seen
        /\ q.pre # NoParams => q.pre \in q.seen /\ q.pre[1] = q.port
        /\ q.pc = "resolve" => q.port \in Ports

\* No request is at a step of the endpoints left out, and one that works on
\* the row under its lock has an operation.
EndpointStep(q) ==
    /\ q.pc \notin {"reload", "flush", "insert"}
    /\ q.pc = "resolve" => q.op = "lock"
    /\ q.pc \in {"acquire", "finish"} => q.op \in {"save", "lock", "unlock"}

IInv == /\ TypeOK
        /\ row # Gone => WellFormed(row)
        /\ OpenSeesRow
        /\ \A r \in Requests : LockSees(req[r]) /\ EndpointStep(req[r])

\* What one committed change does to the row: an archive, a save, a lock, an
\* unlock or a deletion.
Archived == /\ Content(row') = Content(row)
            /\ row'.locked = row.locked /\ row'.snapshot = row.snapshot
Saved    == ~row.locked /\ ~row'.locked /\ row'.snapshot = row.snapshot
Locked   == /\ ~row.locked /\ row'.locked = TRUE /\ Complete(row)
            /\ Content(row') = Content(row)
            /\ row'.snapshot \in Params /\ row'.snapshot[1] = row.port
            /\ \/ row'.snapshot = row.working
               \/ \E r \in Requests : /\ req[r].op = "lock" /\ req[r].pc = "finish"
                                      /\ row'.snapshot \in req[r].seen
Unlocked == /\ row.locked /\ row'.locked = FALSE
            /\ Content(row') = Content(row) /\ row'.snapshot = row.snapshot
RowStep == \/ row' = row
           \/ row # Gone /\ row' = Gone
           \/ row # Gone /\ row' # Gone /\ (Archived \/ Saved \/ Locked \/ Unlocked)

-----------------------------------------------------------------------------
(* Rows and requests                                                       *)

LEMMA IdleType == ASSUME Sheets # {} PROVE Idle \in Request
<1>1. (CHOOSE s \in Sheets : TRUE) \in Sheets
  OBVIOUS
<1>2. QED
  BY <1>1 DEF Idle, Request, PCs

\* Wherever there is a request there is a value for the fields of its body.
LEMMA IdleInType ==
    ASSUME req \in [Requests -> Request], NEW r \in Requests
    PROVE  Idle \in Request /\ Idle.pc = "idle" /\ Idle.op = "none"
<1>1. req[r].sheet \in Sheets
  BY DEF Request
<1>2. QED
  BY <1>1, IdleType DEF Idle

LEMMA EffectiveType ==
    ASSUME NEW p \in Ports, live \in [Ports -> Rates]
    PROVE  /\ Effective(p) \in Params /\ Effective(p)[1] = p
           /\ Effective(p) # NoParams
BY NullAssumption DEF Effective, Params

LEMMA AllowedOps ==
    ASSUME NEW e, NEW q, q.op \in {"save", "lock", "unlock"}, Allowed(e, q)
    PROVE  /\ q.op = "save" => ~e.locked
           /\ q.op = "lock" => ~e.locked /\ Complete(e)
           /\ q.op = "unlock" => e.locked
BY DEF Allowed

LEMMA FieldsOfRow ==
    ASSUME NEW e \in Row
    PROVE  /\ e.port \in Ports \cup {NoPort} /\ e.filled \in BOOLEAN
           /\ e.sheet \in Sheets /\ e.status \in Status
           /\ e.working \in Params \cup {NoParams}
           /\ e.snapshot \in Params \cup {NoParams}
           /\ e.locked \in BOOLEAN /\ e.archived \in BOOLEAN
BY DEF Row

\* A draft keeps the lock, the snapshot and the archive flag; its working
\* parameters are of its port.
LEMMA DraftIsWellFormed ==
    ASSUME NEW e, WellFormed(e), ~e.locked, NEW q \in Request,
           live \in [Ports -> Rates]
    PROVE  /\ WellFormed(Draft(e, q)) /\ ~Draft(e, q).locked
           /\ Draft(e, q).snapshot = e.snapshot
<1> DEFINE w == NewWorking(e, q)
           edited == [e EXCEPT !.port = q.port, !.filled = q.filled,
                               !.sheet = q.sheet, !.working = w]
           status == StatusFor(edited)
<1>1. e \in Row
  BY DEF WellFormed
<1>2. /\ q.port \in Ports \cup {NoPort} /\ q.filled \in BOOLEAN
      /\ q.sheet \in Sheets
  BY DEF Request
<1>3. /\ w \in Params \cup {NoParams}
      /\ w # NoParams => q.port # NoPort /\ w[1] = q.port
  <2>1. CASE q.port = NoPort
    BY <2>1 DEF NewWorking
  <2>2. CASE q.port # NoPort /\ KeepsPinned(e, q)
    BY <1>1, <2>2, FieldsOfRow DEF NewWorking, KeepsPinned, WellFormed
  <2>3. CASE q.port # NoPort /\ ~KeepsPinned(e, q)
    BY <1>2, <2>3, EffectiveType DEF NewWorking
  <2>4. QED
    BY <2>1, <2>2, <2>3
<1> HIDE DEF w
<1>4. /\ edited \in Row /\ edited.port = q.port /\ edited.working = w
      /\ edited.locked = e.locked /\ edited.snapshot = e.snapshot
  BY <1>1, <1>2, <1>3 DEF Row
<1>5. status \in Status
  BY DEF StatusFor, Status
<1>6. Draft(e, q) = [edited EXCEPT !.status = status]
  BY DEF Draft, w
<1> HIDE DEF edited, status
<1>7. /\ Draft(e, q) \in Row /\ Draft(e, q).port = q.port
      /\ Draft(e, q).working = w /\ Draft(e, q).locked = e.locked
      /\ Draft(e, q).snapshot = e.snapshot
  BY <1>4, <1>5, <1>6 DEF Row
<1>8. QED
  BY <1>3, <1>7 DEF WellFormed

LEMMA FrozenIsWellFormed ==
    ASSUME NEW e, WellFormed(e), Complete(e), NEW q,
           q.params \in Params, q.params[1] = e.port
    PROVE  /\ WellFormed(Frozen(e, q)) /\ Frozen(e, q).locked = TRUE
           /\ Frozen(e, q).snapshot = q.params
           /\ Content(Frozen(e, q)) = Content(e)
<1>1. e \in Row /\ "COMPLETED" \in Status
  BY DEF WellFormed, Status
<1>2. q.params # NoParams
  BY NullAssumption
<1>3. /\ Frozen(e, q) \in Row /\ Frozen(e, q).locked = TRUE
      /\ Frozen(e, q).snapshot = q.params /\ Frozen(e, q).port = e.port
      /\ Frozen(e, q).filled = e.filled /\ Frozen(e, q).working = e.working
      /\ Frozen(e, q).sheet = e.sheet
  BY <1>1 DEF Frozen, Row
<1>4. QED
  BY <1>2, <1>3 DEF WellFormed, Complete, Content

LEMMA UnlockedIsWellFormed ==
    ASSUME NEW e, WellFormed(e)
    PROVE  /\ WellFormed([e EXCEPT !.locked = FALSE])
           /\ [e EXCEPT !.locked = FALSE].locked = FALSE
           /\ [e EXCEPT !.locked = FALSE].snapshot = e.snapshot
           /\ Content([e EXCEPT !.locked = FALSE]) = Content(e)
<1> DEFINE u == [e EXCEPT !.locked = FALSE]
<1>1. e \in Row
  BY DEF WellFormed
<1>2. /\ u \in Row /\ u.locked = FALSE /\ u.snapshot = e.snapshot
      /\ u.port = e.port /\ u.working = e.working
      /\ u.filled = e.filled /\ u.sheet = e.sheet
  BY <1>1 DEF Row
<1>3. QED
  BY <1>2 DEF WellFormed, Content

LEMMA ArchivedIsWellFormed ==
    ASSUME NEW e, WellFormed(e)
    PROVE  /\ WellFormed([e EXCEPT !.archived = TRUE])
           /\ [e EXCEPT !.archived = TRUE].locked = e.locked
           /\ [e EXCEPT !.archived = TRUE].snapshot = e.snapshot
           /\ Content([e EXCEPT !.archived = TRUE]) = Content(e)
<1> DEFINE u == [e EXCEPT !.archived = TRUE]
<1>1. e \in Row
  BY DEF WellFormed
<1>2. /\ u \in Row /\ u.locked = e.locked /\ u.snapshot = e.snapshot
      /\ u.port = e.port /\ u.working = e.working
      /\ u.filled = e.filled /\ u.sheet = e.sheet
  BY <1>1 DEF Row
<1>3. QED
  BY <1>2 DEF WellFormed, Content, Complete

\* What a lock may freeze is of the port of the row it has locked.
LEMMA SnapshotIsOfPort ==
    ASSUME NEW e, WellFormed(e), Complete(e), NEW q \in Request,
           live \in [Ports -> Rates], q.params \in Params,
           \A p \in Ports : Effective(p) \in q.seen,
           q.pre # NoParams => q.pre \in q.seen /\ q.pre[1] = q.port,
           SnapshotAccepted(e, q)
    PROVE  /\ q.params[1] = e.port
           /\ q.params = e.working \/ q.params \in q.seen
<1>1. q.params # NoParams /\ e.port \in Ports
  BY NullAssumption DEF WellFormed, Row, Complete
<1>2. CASE q.params = e.working
  BY <1>1, <1>2 DEF WellFormed
<1>3. CASE q.params = LiveFor(e, q)
  <2>1. CASE q.pre # NoParams /\ e.port = q.port
    BY <1>3, <2>1 DEF LiveFor
  <2>2. CASE ~(q.pre # NoParams /\ e.port = q.port)
    BY <1>1, <1>3, <2>2, EffectiveType DEF LiveFor
  <2>3. QED
    BY <2>1, <2>2
<1>4. QED
  BY <1>2, <1>3 DEF SnapshotAccepted

-----------------------------------------------------------------------------
(* The steps                                                               *)

\* A step of request r that keeps the tariffs, and the row unless no other
\* request holds it.
LEMMA OneRequest ==
    ASSUME IInv, NEW r \in Requests, NEW q \in Request,
           req' = [req EXCEPT ![r] = q], live' = live, begun' \in 0..MaxRequests,
           row' = row \/ Free(r), row' # Gone => WellFormed(row'),
           LockSees(q), EndpointStep(q),
           q.pc = "finish" => /\ Free(r) /\ row' # Gone /\ q.ent = row'
                              /\ Allowed(row', q)
    PROVE  IInv'
<1> USE DEF IInv
<1>1. /\ req' \in [Requests -> Request] /\ req'[r] = q
      /\ \A p \in Requests : p # r => req'[p] = req[p]
  BY DEF TypeOK
<1>2. TypeOK'
  BY <1>1 DEF TypeOK, WellFormed
<1>3. OpenSeesRow'
  <2>1. ASSUME NEW p \in Requests, req'[p].pc = "finish"
        PROVE  /\ row' # Gone /\ req'[p].ent = row' /\ Allowed(row', req'[p])
               /\ \A u \in Requests : req'[u].pc = "finish" => u = p
    <3>1. CASE p = r
      BY <1>1, <2>1, <3>1 DEF Free, Holds
    <3>2. CASE p # r
      <4>1. req'[p] = req[p] /\ ~Free(r)
        BY <1>1, <2>1, <3>2 DEF Free, Holds
      <4>2. row' = row /\ q.pc # "finish"
        BY <4>1
      <4>3. /\ row # Gone /\ req[p].ent = row /\ Allowed(row, req[p])
            /\ \A u \in Requests : req[u].pc = "finish" => u = p
        BY <2>1, <4>1 DEF OpenSeesRow
      <4>4. ASSUME NEW u \in Requests, req'[u].pc = "finish" PROVE u = p
        <5>1. u # r /\ req'[u] = req[u]
          BY <1>1, <4>2, <4>4
        <5>2. QED
          BY <4>3, <4>4, <5>1
      <4>5. QED
        BY <4>1, <4>2, <4>3, <4>4
    <3>3. QED
      BY <3>1, <3>2
  <2>2. QED
    BY <2>1 DEF OpenSeesRow, Allowed, Complete
<1>4. ASSUME NEW p \in Requests PROVE LockSees(req[p])' /\ EndpointStep(req[p])'
  <2>1. LockSees(req'[p]) /\ EndpointStep(req'[p])
    BY <1>1
  <2>2. QED
    BY <2>1 DEF LockSees, EndpointStep, Effective
<1>5. QED
  BY <1>2, <1>3, <1>4

LEMMA AnswerInv ==
    ASSUME IInv, NEW r \in Requests, Answer(r), live' = live, begun' = begun,
           row' = row \/ Free(r), row' # Gone => WellFormed(row')
    PROVE  IInv'
<1>1. Idle \in Request /\ Idle.pc = "idle" /\ Idle.op = "none"
  BY IdleInType DEF IInv, TypeOK
<1>2. LockSees(Idle) /\ EndpointStep(Idle)
  BY <1>1 DEF LockSees, EndpointStep
<1>3. req' = [req EXCEPT ![r] = Idle] /\ begun' \in 0..MaxRequests
  BY DEF Answer, IInv, TypeOK
<1>4. QED
  BY <1>1, <1>2, <1>3, OneRequest

LEMMA StartInv ==
    ASSUME IInv, NEW r \in Requests, NEW q \in Request, Start(r, q),
           LockSees(q), EndpointStep(q), q.pc # "finish"
    PROVE  IInv' /\ row' = row
<1>1. /\ req' = [req EXCEPT ![r] = q] /\ live' = live /\ row' = row
      /\ begun' \in 0..MaxRequests /\ (row' # Gone => WellFormed(row'))
  BY BoundAssumption DEF Start, IInv, TypeOK
<1>2. QED
  BY <1>1, OneRequest

LEMMA BeginInv ==
    ASSUME NoStaleSaves, IInv, NEW r \in Requests, Begin(r)
    PROVE  IInv' /\ row' = row
<1>0. /\ Idle \in Request /\ Idle.pc = "idle" /\ Idle.op = "none"
      /\ Idle.pre = NoParams /\ live \in [Ports -> Rates]
  BY IdleInType DEF IInv, TypeOK, Idle
<1>1. CASE BeginSave(r)
  <2>1. PICK p \in Ports \cup {NoPort}, f \in BOOLEAN, s \in Sheets,
             w \in Params \cup {NoParams} :
          Start(r, [Idle EXCEPT !.pc = "acquire", !.op = "save", !.port = p,
                                !.filled = f, !.sheet = s, !.params = w])
    BY <1>1 DEF BeginSave
  <2> DEFINE head == [Idle EXCEPT !.pc = "acquire", !.op = "save", !.port = p]
             q == [head EXCEPT !.filled = f, !.sheet = s, !.params = w]
  <2>2. q \in Request /\ q.pc = "acquire" /\ q.op = "save"
    <3>1. "acquire" \in PCs /\ "save" \in Kinds
      BY <1>1 DEF BeginSave, PCs
    <3>2. head \in Request /\ head.pc = "acquire" /\ head.op = "save"
      BY <1>0, <3>1 DEF Request
    <3> HIDE DEF head
    <3>3. QED
      BY <3>2 DEF Request
  <2>3. Start(r, q)
    BY <2>1
  <2> HIDE DEF q
  <2>4. LockSees(q) /\ EndpointStep(q) /\ q.pc # "finish"
    BY <2>2 DEF LockSees, EndpointStep
  <2>5. QED
    BY <2>2, <2>3, <2>4, StartInv
<1>2. CASE BeginLock(r)
  <2> DEFINE pc == IF row.locked \/ row.port = NoPort THEN "acquire" ELSE "resolve"
             seen == {Effective(p) : p \in Ports}
  <2>1. PICK w \in Params :
          Start(r, [Idle EXCEPT !.pc = pc, !.op = "lock", !.port = row.port,
                                !.params = w, !.seen = seen])
    BY <1>2 DEF BeginLock
  <2>2. /\ row.port \in Ports \cup {NoPort} /\ "lock" \in Kinds
        /\ pc \in {"acquire", "resolve"} /\ (pc = "resolve" => row.port \in Ports)
    BY <1>2 DEF BeginLock, IInv, WellFormed, Row
  <2>3. seen \in SUBSET Params /\ \A p \in Ports : Effective(p) \in seen
    BY <1>0, EffectiveType
  <2> HIDE DEF pc, seen
  <2> DEFINE head == [Idle EXCEPT !.pc = pc, !.op = "lock", !.port = row.port]
             q == [head EXCEPT !.params = w, !.seen = seen]
  <2>4. /\ q \in Request /\ q.pc = pc /\ q.op = "lock" /\ q.port = row.port
        /\ q.params = w /\ q.seen = seen /\ q.pre = NoParams
    <3>1. pc \in PCs
      BY <2>2 DEF PCs
    <3>2. /\ head \in Request /\ head.pc = pc /\ head.op = "lock"
          /\ head.port = row.port /\ head.pre = NoParams
      BY <1>0, <2>2, <3>1 DEF Request
    <3> HIDE DEF head
    <3>3. QED
      BY <2>3, <3>2 DEF Request
  <2>5. Start(r, q)
    BY <2>1
  <2> HIDE DEF q
  <2>6. LockSees(q) /\ EndpointStep(q) /\ q.pc # "finish"
    BY <2>2, <2>3, <2>4 DEF LockSees, EndpointStep
  <2>7. QED
    BY <2>4, <2>5, <2>6, StartInv
<1>3. ASSUME NEW pc \in {"acquire", "archive", "remove"},
             NEW op \in Kinds \cap {"unlock", "archive", "delete"},
             pc = "acquire" => op = "unlock",
             Start(r, [Idle EXCEPT !.pc = pc, !.op = op])
      PROVE  IInv' /\ row' = row
  <2> DEFINE q == [Idle EXCEPT !.pc = pc, !.op = op]
  <2>1. q \in Request /\ q.pc = pc /\ q.op = op
    BY <1>0 DEF Request, PCs
  <2>2. Start(r, q)
    BY <1>3
  <2> HIDE DEF q
  <2>3. LockSees(q) /\ EndpointStep(q) /\ q.pc # "finish"
    BY <1>3, <2>1 DEF LockSees, EndpointStep
  <2>4. QED
    BY <2>1, <2>2, <2>3, StartInv
<1>4. CASE BeginUnlock(r)
  BY <1>3, <1>4 DEF BeginUnlock
<1>5. CASE BeginArchive(r)
  BY <1>3, <1>5 DEF BeginArchive
<1>6. CASE BeginDelete(r)
  BY <1>3, <1>6 DEF BeginDelete
<1>7. QED
  BY <1>1, <1>2, <1>4, <1>5, <1>6 DEF Begin, BeginStatus, BeginSheet, NoStaleSaves

LEMMA ResolveInv ==
    ASSUME IInv, NEW r \in Requests, Resolve(r)
    PROVE  IInv' /\ row' = row
<1> DEFINE pre == Effective(req[r].port)
           q == [req[r] EXCEPT !.pc = "acquire", !.pre = pre]
<1>1. /\ req[r] \in Request /\ req[r].op = "lock" /\ LockSees(req[r])
      /\ req[r].port \in Ports /\ live \in [Ports -> Rates]
  BY DEF Resolve, IInv, TypeOK, LockSees, EndpointStep
<1>2. /\ pre \in Params /\ pre[1] = req[r].port /\ pre \in req[r].seen
  BY <1>1, EffectiveType DEF LockSees
<1>3. req' = [req EXCEPT ![r] = q] /\ row' = row /\ live' = live /\ begun' = begun
  BY <1>1 DEF Resolve, IInv, TypeOK
<1> HIDE DEF pre
<1>4. /\ q \in Request /\ q.pc = "acquire" /\ q.op = "lock" /\ q.pre = pre
      /\ q.port = req[r].port /\ q.params = req[r].params /\ q.seen = req[r].seen
  BY <1>1, <1>2 DEF Request, PCs
<1> HIDE DEF q
<1>5. LockSees(q) /\ EndpointStep(q) /\ q.pc # "finish"
  BY <1>1, <1>2, <1>4 DEF LockSees, EndpointStep
<1>6. begun' \in 0..MaxRequests /\ (row' # Gone => WellFormed(row'))
  BY <1>3 DEF IInv, TypeOK
<1>7. QED
  BY <1>3, <1>4, <1>5, <1>6, OneRequest

LEMMA AcquireInv ==
    ASSUME IInv, NEW r \in Requests, Acquire(r)
    PROVE  IInv' /\ row' = row
<1>0. /\ row' = row /\ live' = live /\ begun' = begun /\ Free(r)
      /\ req[r].pc = "acquire" /\ (row' # Gone => WellFormed(row'))
  BY DEF Acquire, IInv
<1>1. CASE row # Gone /\ Allowed(row, req[r])
  <2> DEFINE q == [req[r] EXCEPT !.pc = "finish", !.ent = row]
  <2>1. /\ req[r] \in Request /\ row \in Row /\ begun \in 0..MaxRequests
        /\ LockSees(req[r]) /\ EndpointStep(req[r])
    BY <1>1 DEF IInv, TypeOK, WellFormed
  <2>2. req' = [req EXCEPT ![r] = q]
    BY <1>1, <2>1 DEF Acquire, IInv, TypeOK
  <2>3. /\ q \in Request /\ q.pc = "finish" /\ q.ent = row /\ q.op = req[r].op
        /\ q.pre = req[r].pre /\ q.port = req[r].port
        /\ q.params = req[r].params /\ q.seen = req[r].seen
    BY <2>1 DEF Request, PCs
  <2> HIDE DEF q
  <2>4. LockSees(q) /\ EndpointStep(q)
    BY <1>0, <2>1, <2>3 DEF LockSees, EndpointStep
  <2>5. Allowed(row', q)
    BY <1>0, <1>1, <2>3 DEF Allowed
  <2>6. QED
    BY <1>0, <1>1, <2>1, <2>2, <2>3, <2>4, <2>5, OneRequest
<1>2. CASE ~(row # Gone /\ Allowed(row, req[r]))
  BY <1>0, <1>2, AnswerInv DEF Acquire
<1>3. QED
  BY <1>0, <1>1, <1>2

\* The commit of a save, a lock or an unlock.
LEMMA FinishInv ==
    ASSUME IInv, NEW r \in Requests, Finish(r)
    PROVE  IInv' /\ RowStep
<1> DEFINE q == req[r]
<1>0. /\ q.pc = "finish" /\ live' = live /\ begun' = begun /\ Answer(r)
      /\ q \in Request /\ live \in [Ports -> Rates]
  BY DEF Finish, Commit, Reject, IInv, TypeOK
<1>1. /\ row # Gone /\ q.ent = row /\ WellFormed(row) /\ Allowed(row, q) /\ Free(r)
      /\ q.op \in {"save", "lock", "unlock"} /\ LockSees(q)
  BY <1>0 DEF IInv, OpenSeesRow, Free, Holds, EndpointStep
<1>2. CASE row' = row
  BY <1>0, <1>1, <1>2, AnswerInv DEF RowStep
<1>3. CASE row' # row /\ q.op = "save"
  <2>1. row' = Draft(row, q) /\ ~row.locked
    BY <1>1, <1>3, AllowedOps DEF Finish, Commit, Reject
  <2>2. WellFormed(row') /\ ~row'.locked /\ row'.snapshot = row.snapshot
    BY <1>0, <1>1, <2>1, DraftIsWellFormed
  <2>3. row' # Gone
    BY <2>2, NullAssumption DEF WellFormed
  <2>4. QED
    BY <1>0, <1>1, <2>1, <2>2, <2>3, AnswerInv DEF RowStep, Saved
<1>4. CASE row' # row /\ q.op = "lock"
  <2>1. /\ row' = Frozen(row, q) /\ SnapshotAccepted(row, q)
        /\ ~row.locked /\ Complete(row)
    BY <1>1, <1>4, AllowedOps DEF Finish, Commit, Reject
  <2>2. /\ q.params \in Params /\ q.params[1] = row.port
        /\ q.params = row.working \/ q.params \in q.seen
    BY <1>0, <1>1, <1>4, <2>1, SnapshotIsOfPort DEF LockSees
  <2>3. /\ WellFormed(row') /\ row'.locked = TRUE /\ row'.snapshot = q.params
        /\ Content(row') = Content(row)
    BY <1>1, <2>1, <2>2, FrozenIsWellFormed
  <2>4. row' # Gone
    BY <2>3, NullAssumption DEF WellFormed
  <2>5. Locked
    BY <1>0, <1>4, <2>1, <2>2, <2>3 DEF Locked
  <2>6. QED
    BY <1>0, <1>1, <2>3, <2>4, <2>5, AnswerInv DEF RowStep
<1>5. CASE row' # row /\ q.op = "unlock"
  <2>1. row' = [row EXCEPT !.locked = FALSE] /\ row.locked
    BY <1>1, <1>5, AllowedOps DEF Finish, Commit, Reject
  <2>2. /\ WellFormed(row') /\ row'.locked = FALSE /\ row'.snapshot = row.snapshot
        /\ Content(row') = Content(row)
    BY <1>1, <2>1, UnlockedIsWellFormed
  <2>3. row' # Gone
    BY <2>2, NullAssumption DEF WellFormed
  <2>4. QED
    BY <1>0, <1>1, <2>1, <2>2, <2>3, AnswerInv DEF RowStep, Unlocked
<1>6. QED
  BY <1>1, <1>2, <1>3, <1>4, <1>5

LEMMA ArchiveInv ==
    ASSUME IInv, NEW r \in Requests, Archive(r)
    PROVE  IInv' /\ RowStep
<1>0. Free(r) /\ Answer(r) /\ live' = live /\ begun' = begun
  BY DEF Archive, Commit, Reject
<1>1. CASE row # Gone /\ ~row.archived
  <2>1. row' = [row EXCEPT !.archived = TRUE] /\ WellFormed(row)
    BY <1>1 DEF Archive, Commit, IInv
  <2>2. WellFormed(row') /\ Archived
    BY <2>1, ArchivedIsWellFormed DEF Archived
  <2>3. row' # Gone
    BY <2>2, NullAssumption DEF WellFormed
  <2>4. QED
    BY <1>0, <1>1, <2>2, <2>3, AnswerInv DEF RowStep
<1>2. CASE ~(row # Gone /\ ~row.archived)
  <2>1. row' = row
    BY <1>2 DEF Archive, Reject
  <2>2. QED
    BY <1>0, <2>1, AnswerInv DEF RowStep, IInv
<1>3. QED
  BY <1>1, <1>2

LEMMA RemoveInv ==
    ASSUME IInv, NEW r \in Requests, Remove(r)
    PROVE  IInv' /\ RowStep
<1>1. Free(r) /\ Answer(r) /\ live' = live /\ begun' = begun /\ row' = Gone
  BY DEF Remove, Commit
<1>2. QED
  BY <1>1, AnswerInv DEF RowStep

\* Requests that lock have seen the new tariff, too.
LEMMA EditRatesInv ==
    ASSUME IInv, NEW p \in Ports, EditRates(p)
    PROVE  IInv' /\ row' = row
<1> USE DEF IInv
<1>1. PICK v \in Rates : live' = [live EXCEPT ![p] = v]
  BY DEF EditRates
<1>2. /\ row' = row /\ begun' = begun /\ live' \in [Ports -> Rates]
      /\ live'[p] = v /\ <<p, v>> \in Params
      /\ \A c \in Ports : c # p => live'[c] = live[c]
  BY <1>1 DEF EditRates, TypeOK, Params
<1>3. req' = [r \in Requests |->
                 IF req[r].op = "lock"
                 THEN [req[r] EXCEPT !.seen = @ \cup {<<p, v>>}] ELSE req[r]]
  BY <1>2 DEF EditRates
<1>4. ASSUME NEW r \in Requests
      PROVE  /\ req'[r] \in Request /\ req'[r].pc = req[r].pc
             /\ req'[r].op = req[r].op /\ req'[r].ent = req[r].ent
             /\ req'[r].pre = req[r].pre /\ req'[r].port = req[r].port
             /\ req'[r].params = req[r].params
             /\ req[r].seen \subseteq req'[r].seen
             /\ req[r].op = "lock" => <<p, v>> \in req'[r].seen
  <2>1. req[r] \in Request
    BY DEF TypeOK
  <2>2. CASE req[r].op = "lock"
    <3>1. req'[r] = [req[r] EXCEPT !.seen = req[r].seen \cup {<<p, v>>}]
      BY <1>3, <2>2
    <3>2. req[r].seen \cup {<<p, v>>} \in SUBSET Params
      BY <1>2, <2>1 DEF Request
    <3>3. QED
      BY <2>1, <3>1, <3>2 DEF Request
  <2>3. CASE req[r].op # "lock"
    BY <1>3, <2>1, <2>3
  <2>4. QED
    BY <2>2, <2>3
<1>5. TypeOK'
  <2>1. req' \in [Requests -> Request]
    BY <1>3, <1>4
  <2>2. QED
    BY <1>2, <2>1 DEF TypeOK
<1>6. OpenSeesRow'
  <2>1. ASSUME NEW r \in Requests, req'[r].pc = "finish"
        PROVE  /\ row' # Gone /\ req'[r].ent = row' /\ Allowed(row', req'[r])
               /\ \A q \in Requests : req'[q].pc = "finish" => q = r
    <3>1. /\ row # Gone /\ req[r].ent = row /\ Allowed(row, req[r])
          /\ \A q \in Requests : req[q].pc = "finish" => q = r
      BY <1>4, <2>1 DEF OpenSeesRow
    <3>2. Allowed(row', req'[r])
      BY <1>2, <1>4, <3>1 DEF Allowed
    <3>3. QED
      BY <1>2, <1>4, <3>1, <3>2
  <2>2. QED
    BY <2>1 DEF OpenSeesRow, Allowed, Complete
<1>7. ASSUME NEW r \in Requests PROVE LockSees(req[r])' /\ EndpointStep(req[r])'
  <2>1. LockSees(req[r]) /\ EndpointStep(req[r])
    OBVIOUS
  <2>2. EndpointStep(req[r])'
    BY <1>4, <2>1 DEF EndpointStep
  <2>3. LockSees(req[r])'
    <3>1. ASSUME req[r].op = "lock", NEW c \in Ports
          PROVE  <<c, live'[c]>> \in req'[r].seen
      <4>1. CASE c = p
        BY <1>2, <1>4, <3>1, <4>1
      <4>2. CASE c # p
        <5>1. <<c, live[c]>> \in req[r].seen
          BY <2>1, <3>1 DEF LockSees, Effective
        <5>2. QED
          BY <1>2, <1>4, <4>2, <5>1
      <4>3. QED
        BY <4>1, <4>2
    <3>2. QED
      BY <1>4, <2>1, <3>1 DEF LockSees, Effective
  <2>4. QED
    BY <2>2, <2>3
<1>8. QED
  BY <1>2, <1>5, <1>6, <1>7

-----------------------------------------------------------------------------
LEMMA InitInv == Init => IInv
<1> SUFFICES ASSUME Init PROVE IInv
  OBVIOUS
<1>1. WellFormed(row) /\ row \in Row
  BY StartAssumption DEF Init, WellFormed
<1>2. Idle \in Request /\ Idle.pc = "idle" /\ Idle.op = "none"
  <2>1. Sheets # {}
    BY <1>1 DEF Row
  <2>2. QED
    BY <2>1, IdleType DEF Idle
<1>3. req \in [Requests -> Request] /\ \A r \in Requests : req[r] = Idle
  BY <1>2 DEF Init
<1>4. TypeOK
  BY <1>1, <1>3, BoundAssumption DEF Init, TypeOK
<1>5. OpenSeesRow
  BY <1>2, <1>3 DEF OpenSeesRow
<1>6. \A r \in Requests : LockSees(req[r]) /\ EndpointStep(req[r])
  BY <1>2, <1>3 DEF LockSees, EndpointStep
<1>7. QED
  BY <1>1, <1>4, <1>5, <1>6 DEF IInv

LEMMA NextInv ==
    ASSUME NoStaleSaves
    PROVE  IInv /\ [Next]_vars => IInv' /\ RowStep
<1> SUFFICES ASSUME IInv, [Next]_vars PROVE IInv' /\ RowStep
  OBVIOUS
<1>1. CASE UNCHANGED vars
  BY <1>1 DEF vars, IInv, TypeOK, OpenSeesRow, LockSees, EndpointStep, Effective,
     WellFormed, Allowed, Complete, RowStep
<1>2. ASSUME NEW r \in Requests, Begin(r) PROVE IInv' /\ RowStep
  BY <1>2, BeginInv DEF RowStep
<1>3. ASSUME NEW r \in Requests, Step(r) PROVE IInv' /\ RowStep
  <2>1. req[r].pc \notin {"reload", "flush", "insert"}
    BY DEF IInv, EndpointStep
  <2>2. ~Reload(r) /\ ~Flush(r) /\ ~Reinsert(r)
    BY <2>1 DEF Reload, Flush, Reinsert
  <2>3. CASE Resolve(r) \/ Acquire(r)
    BY <2>3, ResolveInv, AcquireInv DEF RowStep
  <2>4. CASE Finish(r) \/ Archive(r) \/ Remove(r)
    BY <2>4, FinishInv, ArchiveInv, RemoveInv
  <2>5. QED
    BY <1>3, <2>2, <2>3, <2>4 DEF Step
<1>4. ASSUME NEW r \in Requests, Abort(r) PROVE IInv' /\ RowStep
  BY <1>4, AnswerInv DEF Abort, Reject, RowStep, IInv
<1>5. ASSUME NEW p \in Ports, EditRates(p) PROVE IInv' /\ RowStep
  BY <1>5, EditRatesInv DEF RowStep
<1>6. QED
  BY <1>1, <1>2, <1>3, <1>4, <1>5 DEF Next, Quiescent

LEMMA Inductive == ASSUME NoStaleSaves PROVE Spec => []IInv
<1>1. IInv /\ [Next]_vars => IInv'
  BY NextInv
<1>2. QED
  BY <1>1, InitInv, PTL DEF Spec

-----------------------------------------------------------------------------
(* Theorems                                                                *)

\* The row, the tariffs and the requests keep their types.
THEOREM TypeCorrect == ASSUME NoStaleSaves PROVE Spec => []TypeOK
<1>1. IInv => TypeOK
  BY DEF IInv
<1>2. QED
  BY <1>1, Inductive, PTL

\* A locked EPDA misses no required field and carries tariffs of its own port,
\* although lockEpda reads port and tariffs before it holds the row.
THEOREM LockedIsCompleteHolds == ASSUME NoStaleSaves PROVE Spec => []LockedIsComplete
<1>1. IInv => LockedIsComplete
  BY DEF IInv, LockedIsComplete, WellFormed
<1>2. QED
  BY <1>1, Inductive, PTL

\* The pinned parameters of a draft are of its port.
THEOREM WorkingFitsPortHolds == ASSUME NoStaleSaves PROVE Spec => []WorkingFitsPort
<1>1. IInv => WorkingFitsPort
  BY DEF IInv, WorkingFitsPort, WellFormed
<1>2. QED
  BY <1>1, Inductive, PTL

\* Both together: locked or not, an EPDA has the tariffs of its own port.
THEOREM TariffsFitPortHolds == ASSUME NoStaleSaves PROVE Spec => []TariffsFitPort
  BY LockedIsCompleteHolds, WorkingFitsPortHolds, PTL DEF TariffsFitPort

\* A lock freezes the pinned parameters, or some that were in force for this
\* port while its request ran.
THEOREM SnapshotWasOfferedHolds == ASSUME NoStaleSaves PROVE Spec => SnapshotWasOffered
<1> DEFINE Offered ==
      row # Gone /\ row' # Gone /\ ~row.locked /\ row'.locked =>
          \/ row'.snapshot = row.working
          \/ \E r \in Requests : /\ req[r].op = "lock" /\ req[r].pc = "finish"
                                 /\ row'.snapshot \in req[r].seen
                                 /\ row'.snapshot[1] = row.port
<1>1. IInv /\ [Next]_vars => [Offered]_vars
  <2> SUFFICES ASSUME IInv, [Next]_vars PROVE Offered
    OBVIOUS
  <2>1. RowStep
    BY NextInv
  <2>2. CASE Archived
    BY <2>2 DEF Archived
  <2>3. CASE Locked
    BY <2>3 DEF Locked
  <2>4. QED
    BY <2>1, <2>2, <2>3 DEF RowStep, Saved, Unlocked
<1>2. QED
  BY <1>1, Inductive, PTL DEF Spec, SnapshotWasOffered

\* Requests that interleave statement by statement change the EPDA as the
\* abstract record is changed, by one edit, lock, unlock or deletion at a time.
THEOREM EpdaIsLockableHolds == ASSUME NoStaleSaves PROVE Spec => EpdaIsLockable
<1> DEFINE content == IF row = Gone THEN Gone ELSE Content(row)
           locked  == row # Gone /\ row.locked
           issued  == IF row = Gone THEN NoParams ELSE row.snapshot
<1>1. ASSUME NEW e, WellFormed(e)
      PROVE  /\ Content(e) \in Contents /\ Content(e) # Gone
             /\ Complete(e) <=> Complete(Content(e))
             /\ Content(e).port = e.port /\ e.locked \in BOOLEAN
  <2>1. e \in Row
    BY <1>1 DEF WellFormed
  <2>2. Content(e) \in Contents
    BY <2>1 DEF Content, Contents, Row
  <2>3. /\ Content(e).port = e.port /\ Content(e).filled = e.filled
        /\ e.locked \in BOOLEAN
    BY <2>1 DEF Content, Row
  <2>4. QED
    BY <2>2, <2>3, NullAssumption DEF Complete
<1>2. Init => Record!RecordInit
  <2> SUFFICES ASSUME Init PROVE Record!RecordInit
    OBVIOUS
  <2>1. WellFormed(row) /\ row # Gone
    BY StartAssumption, NullAssumption DEF Init, WellFormed
  <2>2. content = Content(row) /\ issued = row.snapshot /\ (locked <=> row.locked)
    BY <2>1
  <2>3. CASE ~row.locked
    BY <1>1, <2>1, <2>2, <2>3 DEF Record!RecordInit
  <2>4. CASE row.locked
    <3>1. /\ Complete(row) /\ row.snapshot \in Params
          /\ row.snapshot[1] = row.port
      BY <2>1, <2>4, FieldsOfRow DEF WellFormed
    <3>2. <<Content(row), row.snapshot>> \in
            {q \in Contents \X Params : q[2][1] = q[1].port}
      BY <1>1, <2>1, <3>1
    <3>3. Content(row) \in {c \in Contents : Complete(c)}
      BY <1>1, <2>1, <3>1
    <3>4. QED
      BY <2>2, <2>4, <3>2, <3>3 DEF Record!RecordInit
  <2>5. QED
    BY <2>3, <2>4
<1>3. IInv /\ IInv' /\ RowStep => [Record!RecordNext]_(Record!recordVars)
  <2> SUFFICES ASSUME IInv, IInv', RowStep
               PROVE  [Record!RecordNext]_(Record!recordVars)
    OBVIOUS
  <2>1. CASE row' = row
    BY <2>1 DEF Record!recordVars, Content
  <2>2. CASE row # Gone /\ row' = Gone
    <3>1. WellFormed(row) /\ Content(row) # Gone
      BY <1>1, <2>2 DEF IInv
    <3>2. Record!Delete
      BY <2>2, <3>1 DEF Record!Delete
    <3>3. QED
      BY <3>2 DEF Record!RecordNext
  <2>3. CASE row # Gone /\ row' # Gone /\ (Archived \/ Saved \/ Locked \/ Unlocked)
    <3>1. WellFormed(row) /\ WellFormed(row')
      BY <2>3 DEF IInv, WellFormed, Complete
    <3>2. /\ Content(row) \in Contents /\ Content(row) # Gone
          /\ Complete(row) <=> Complete(Content(row))
          /\ Content(row).port = row.port /\ row.locked \in BOOLEAN
      BY <1>1, <3>1
    <3>3. Content(row') \in Contents /\ row'.locked \in BOOLEAN
      BY <1>1, <3>1
    <3>4. /\ content = Content(row) /\ issued = row.snapshot
          /\ (locked <=> row.locked)
          /\ content' = Content(row') /\ issued' = row'.snapshot
          /\ (locked' <=> row'.locked)
      BY <2>3 DEF Content
    <3>5. CASE Archived
      BY <2>3, <3>2, <3>3, <3>4, <3>5 DEF Archived, Record!recordVars
    <3>6. CASE Saved
      <4>1. Record!Edit
        BY <2>3, <3>2, <3>3, <3>4, <3>6 DEF Saved, Record!Edit
      <4>2. QED
        BY <4>1 DEF Record!RecordNext
    <3>7. CASE Locked
      <4>1. Record!Lock
        BY <2>3, <3>2, <3>3, <3>4, <3>7 DEF Locked, Record!Lock
      <4>2. QED
        BY <4>1 DEF Record!RecordNext
    <3>8. CASE Unlocked
      <4>1. Record!Unlock
        BY <2>3, <3>2, <3>3, <3>4, <3>8 DEF Unlocked, Record!Unlock
      <4>2. QED
        BY <4>1 DEF Record!RecordNext
    <3>9. QED
      BY <2>3, <3>5, <3>6, <3>7, <3>8
  <2>4. QED
    BY <2>1, <2>2, <2>3 DEF RowStep
<1>4. IInv /\ [Next]_vars => RowStep
  BY NextInv
<1>5. QED
  BY <1>2, <1>3, <1>4, Inductive, PTL DEF Spec, EpdaIsLockable, Record!RecordSpec
=============================================================================
