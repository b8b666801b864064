----------------------- MODULE BookingDocuments_proofs -----------------------
(***************************************************************************)
(* What TLAPS proves about BookingDocuments for any number of request      *)
(* slots, any cargo and any well-formed starting tables.                   *)
(***************************************************************************)
EXTENDS BookingDocuments, FiniteSetTheorems, TLAPS

(***************************************************************************)
(* Type correctness.  TypeOK is not inductive alone: what a step writes    *)
(* depends on the kind of request that can be at its control point.        *)
(***************************************************************************)
ControlOK ==
    \A r \in Requests :
        LET q == req[r] IN
        /\ q.pc \in {"booking", "slot", "insert"} => q.op = "create"
        /\ q.pc = "anRead" => q.op \in {"create", "update"} /\ q.booking # NoBooking
        /\ q.pc = "mutable" => q.op = "update"
        /\ q.pc = "cas" => q.op \in {"update", "lock", "unlock"}
        /\ q.pc \in {"sibling", "sibcas"} =>
              /\ q.op \in {"create", "update"}
              /\ q.type = "AN"
              /\ q.booking # NoBooking
              /\ q.id # 0
        /\ q.pc \in {"delCheck", "remove"} => q.op = "delete"

TypeInv == TypeOK /\ ControlOK

LEMMA BlankType == Blank \in Payload
<1>1. PICK c \in Cargo, f \in Forms : TRUE
  BY PayloadAssumption
<1>2. [cargo |-> c, form |-> f] \in Payload
  BY DEF Payload
<1>. QED
  BY <1>2 DEF Blank

LEMMA IdleType == /\ Idle \in Request
                  /\ Idle.pc = "idle"
  BY BlankType DEF Idle, Request, PCs, Types, Flows, NoBooking

LEMMA PCFacts == {"insert", "anRead", "booking", "mutable", "cas", "remove", "delCheck"}
                   \subseteq PCs
  BY DEF PCs

LEMMA StatusType == ASSUME NEW p \in Payload PROVE StatusFor(p) \in Status
  BY DEF StatusFor, Status

LEMMA NewRowType == ASSUME NEW q \in Request PROVE NewRow(q) \in Row
  BY StatusType DEF NewRow, Row, Request

LEMMA BumpType ==
    ASSUME NEW row \in Row PROVE [row EXCEPT !.version = @ + 1] \in Row
<1>1. row.version + 1 \in Nat
  BY DEF Row
<1>. QED
  BY <1>1 DEF Row

LEMMA EditedType ==
    ASSUME NEW row \in Row, NEW p \in Payload PROVE Edited(row, p) \in Row
<1>. DEFINE m == [row EXCEPT !.payload = p]
            n == [m EXCEPT !.status = StatusFor(p)]
<1>1. m \in Row
  BY DEF Row
<1>2. n \in Row
  BY <1>1, StatusType DEF Row
<1>. HIDE DEF n
<1>3. [n EXCEPT !.version = @ + 1] \in Row
  BY <1>2, BumpType
<1>. QED
  BY <1>3 DEF Edited, n

LEMMA LockedRowType == ASSUME NEW row \in Row PROVE LockedRow(row) \in Row
<1>. DEFINE m == [row EXCEPT !.locked = TRUE]
            n == [m EXCEPT !.status = "COMPLETED"]
<1>1. m \in Row
  BY DEF Row
<1>2. n \in Row
  BY <1>1 DEF Row, Status
<1>. HIDE DEF n
<1>3. [n EXCEPT !.version = @ + 1] \in Row
  BY <1>2, BumpType
<1>. QED
  BY <1>3 DEF LockedRow, n

LEMMA UnlockedRowType == ASSUME NEW row \in Row PROVE UnlockedRow(row) \in Row
<1>. DEFINE m == [row EXCEPT !.locked = FALSE]
<1>1. m \in Row
  BY DEF Row
<1>. HIDE DEF m
<1>2. [m EXCEPT !.version = @ + 1] \in Row
  BY <1>1, BumpType
<1>. QED
  BY <1>2 DEF UnlockedRow, m

LEMMA CargoPatchType ==
    ASSUME NEW row \in Row, NEW p \in Payload
    PROVE  Edited(row, [row.payload EXCEPT !.cargo = p.cargo]) \in Row
<1>1. [row.payload EXCEPT !.cargo = p.cargo] \in Payload
  BY DEF Row, Payload
<1>. QED
  BY <1>1, EditedType

LEMMA PatchType ==
    ASSUME NEW t, t \in [DOMAIN t -> Row], NEW i, NEW row,
           i \in DOMAIN t => row \in Row
    PROVE  /\ DOMAIN [t EXCEPT ![i] = row] = DOMAIN t
           /\ [t EXCEPT ![i] = row] \in [DOMAIN t -> Row]
  OBVIOUS

\* The tables stay well typed under a request's own write.
LEMMA OwnWriteType ==
    ASSUME TypeOK, NEW q \in Request, NEW i \in Nat \ {NoBooking},
           q.op \in {"create", "update", "lock", "unlock"}
    PROVE  LET t == OwnWrite(q, i) IN
           /\ DOMAIN t \subseteq Nat \ {NoBooking}
           /\ t \in [DOMAIN t -> Row]
<1>. q.payload \in Payload
  BY DEF Request
<1>1. CASE q.op = "create"
  <2>1. OwnWrite(q, i) = Inserted(rows, i, NewRow(q))
    BY <1>1 DEF OwnWrite
  <2>. QED
    BY <2>1, NewRowType DEF TypeOK, Inserted
<1>2. CASE q.op = "update"
  <2>1. OwnWrite(q, i) = [rows EXCEPT ![i] = Edited(@, q.payload)]
    BY <1>2 DEF OwnWrite
  <2>. QED
    <3>. DEFINE row == Edited(rows[i], q.payload)
    <3>1. i \in DOMAIN rows => row \in Row
      BY EditedType DEF TypeOK
    <3>. HIDE DEF row
    <3>2. /\ DOMAIN [rows EXCEPT ![i] = row] = DOMAIN rows
          /\ [rows EXCEPT ![i] = row] \in [DOMAIN rows -> Row]
      BY <3>1, PatchType DEF TypeOK
    <3>. QED
      BY <2>1, <3>2 DEF TypeOK, row
<1>3. CASE q.op = "lock"
  <2>1. OwnWrite(q, i) = [rows EXCEPT ![i] = LockedRow(@)]
    BY <1>3 DEF OwnWrite
  <2>. QED
    <3>. DEFINE row == LockedRow(rows[i])
    <3>1. i \in DOMAIN rows => row \in Row
      BY LockedRowType DEF TypeOK
    <3>. HIDE DEF row
    <3>2. /\ DOMAIN [rows EXCEPT ![i] = row] = DOMAIN rows
          /\ [rows EXCEPT ![i] = row] \in [DOMAIN rows -> Row]
      BY <3>1, PatchType DEF TypeOK
    <3>. QED
      BY <2>1, <3>2 DEF TypeOK, row
<1>4. CASE q.op = "unlock"
  <2>1. OwnWrite(q, i) = [rows EXCEPT ![i] = UnlockedRow(@)]
    BY <1>4 DEF OwnWrite
  <2>. QED
    <3>. DEFINE row == UnlockedRow(rows[i])
    <3>1. i \in DOMAIN rows => row \in Row
      BY UnlockedRowType DEF TypeOK
    <3>. HIDE DEF row
    <3>2. /\ DOMAIN [rows EXCEPT ![i] = row] = DOMAIN rows
          /\ [rows EXCEPT ![i] = row] \in [DOMAIN rows -> Row]
      BY <3>1, PatchType DEF TypeOK
    <3>. QED
      BY <2>1, <3>2 DEF TypeOK, row
<1>. QED
  BY <1>1, <1>2, <1>3, <1>4

\* Ending a request preserves what is known of the requests.
LEMMA AnswerType ==
    ASSUME TypeInv, NEW r \in Requests, Answer(r)
    PROVE  req' \in [Requests -> Request] /\ ControlOK'
<1>1. req' = [req EXCEPT ![r] = Idle]
  BY DEF Answer
<1>2. req' \in [Requests -> Request]
  BY <1>1, IdleType DEF TypeInv, TypeOK
<1>3. ControlOK'
  BY <1>1, IdleType DEF TypeInv, TypeOK, ControlOK
<1>. QED
  BY <1>2, <1>3

LEMMA RejectType ==
    ASSUME TypeInv, NEW r \in Requests, Reject(r), UNCHANGED begun
    PROVE  TypeInv'
<1>1. Answer(r) /\ UNCHANGED <<rows, nextId, begun>>
  BY DEF Reject
<1>. QED
  BY <1>1, AnswerType DEF TypeInv, TypeOK

LEMMA CommitType ==
    ASSUME TypeInv, NEW r \in Requests, NEW t, Commit(r, t), UNCHANGED begun,
           DOMAIN t \subseteq Nat \ {NoBooking}, t \in [DOMAIN t -> Row]
    PROVE  TypeInv'
<1>1. Answer(r) /\ rows' = t /\ UNCHANGED <<nextId, begun>>
  BY DEF Commit
<1>. QED
  BY <1>1, AnswerType DEF TypeInv, TypeOK

LEMMA StartType ==
    ASSUME TypeInv, NEW r \in Requests, NEW q \in Request, Start(r, q),
           q.pc \notin {"slot", "booking", "insert"} \/ q.op = "create",
           q.pc = "anRead" => q.op \in {"create", "update"} /\ q.booking # NoBooking,
           q.pc = "mutable" => q.op = "update",
           q.pc = "cas" => q.op \in {"update", "lock", "unlock"},
           q.pc \notin {"sibling", "sibcas"},
           q.pc \in {"delCheck", "remove"} => q.op = "delete"
    PROVE  TypeInv'
<1>1. /\ req' = [req EXCEPT ![r] = q]
      /\ begun < MaxRequests /\ begun' = begun + 1
      /\ UNCHANGED <<rows, nextId>>
  BY DEF Start
<1>2. TypeOK'
  BY <1>1, BoundAssumption DEF TypeInv, TypeOK
<1>3. ControlOK'
  BY <1>1 DEF TypeInv, TypeOK, ControlOK
<1>. QED
  BY <1>2, <1>3 DEF TypeInv

LEMMA GotoType ==
    ASSUME TypeInv, NEW r \in Requests, NEW pc \in PCs, Goto(r, pc),
           UNCHANGED <<rows, nextId, begun>>,
           \/ pc \in {"slot", "insert"} /\ req[r].op = "create"
           \/ pc = "cas" /\ req[r].op = "update"
           \/ pc = "remove" /\ req[r].op = "delete"
           \/ /\ pc = "sibling" /\ req[r].op = "update" /\ req[r].type = "AN"
              /\ req[r].booking # NoBooking /\ req[r].id # 0
    PROVE  TypeInv'
<1>1. req' = [req EXCEPT ![r].pc = pc]
  BY DEF Goto
<1>2. TypeOK'
  BY <1>1 DEF TypeInv, TypeOK, Request
<1>3. ControlOK'
  BY <1>1 DEF TypeInv, TypeOK, ControlOK
<1>. QED
  BY <1>2, <1>3 DEF TypeInv

\* Every step preserves the types.
THEOREM TypeStep == TypeInv /\ [Next]_vars => TypeInv'
<1>. SUFFICES ASSUME TypeInv, [Next]_vars PROVE TypeInv'
  OBVIOUS
<1>1. CASE UNCHANGED vars
  BY <1>1 DEF vars, TypeInv, TypeOK, ControlOK
<1>2. ASSUME NEW r \in Requests, BeginCreate(r) PROVE TypeInv'
  <2>1. PICK p \in Payload, t \in Types, f \in Flows,
             b \in DOMAIN rows \cup {NoBooking} :
          Start(r, [Idle EXCEPT
               !.pc = IF b = NoBooking THEN "insert"
                      ELSE IF t = "DO" THEN "anRead" ELSE "booking",
               !.op = "create", !.type = t,
               !.flow = IF t = "BC" THEN f ELSE "NONE",
               !.booking = b, !.payload = p])
    BY <1>2 DEF BeginCreate
  <2>2. "create" \in Kinds /\ b \in Nat
    BY <1>2 DEF BeginCreate, TypeInv, TypeOK, NoBooking
  <2>3. [Idle EXCEPT
               !.pc = IF b = NoBooking THEN "insert"
                      ELSE IF t = "DO" THEN "anRead" ELSE "booking",
               !.op = "create", !.type = t,
               !.flow = IF t = "BC" THEN f ELSE "NONE",
               !.booking = b, !.payload = p] \in Request
    BY <2>2 DEF Idle, Request, PCs
  <2>. QED
    BY <2>1, <2>3, StartType DEF Idle
<1>3. ASSUME NEW r \in Requests, BeginUpdate(r) PROVE TypeInv'
  <2>1. PICK i \in DOMAIN rows, p \in Payload :
          Start(r, [Idle EXCEPT
            !.pc = IF rows[i].type = "DO" /\ rows[i].booking # NoBooking
                   THEN "anRead" ELSE "mutable",
            !.op = "update", !.type = rows[i].type, !.booking = rows[i].booking,
            !.id = i, !.ver = rows[i].version, !.payload = p])
    BY <1>3 DEF BeginUpdate
  <2>. DEFINE q == [Idle EXCEPT
            !.pc = IF rows[i].type = "DO" /\ rows[i].booking # NoBooking
                   THEN "anRead" ELSE "mutable",
            !.op = "update", !.type = rows[i].type, !.booking = rows[i].booking,
            !.id = i, !.ver = rows[i].version, !.payload = p]
  <2>2. i \in Nat /\ rows[i] \in Row /\ "update" \in Kinds
    BY <1>3 DEF BeginUpdate, TypeInv, TypeOK
  <2>3. q \in Request
    BY <2>2, IdleType, PCFacts DEF Request, Row
  <2>. QED
    BY <2>1, <2>2, <2>3, StartType DEF Idle
<1>4. ASSUME NEW r \in Requests, BeginLock(r) PROVE TypeInv'
  <2>1. PICK i \in DOMAIN rows :
          Start(r, [Idle EXCEPT !.pc = "cas", !.op = "lock", !.id = i,
                         !.type = rows[i].type, !.ver = rows[i].version])
    BY <1>4 DEF BeginLock
  <2>. DEFINE q == [Idle EXCEPT !.pc = "cas", !.op = "lock", !.id = i,
                         !.type = rows[i].type, !.ver = rows[i].version]
  <2>2. i \in Nat /\ rows[i] \in Row /\ "lock" \in Kinds
    BY <1>4 DEF BeginLock, TypeInv, TypeOK
  <2>3. q \in Request
    BY <2>2, IdleType, PCFacts DEF Request, Row
  <2>. QED
    BY <2>1, <2>2, <2>3, StartType DEF Idle
<1>5. ASSUME NEW r \in Requests, BeginUnlock(r) PROVE TypeInv'
  <2>1. PICK i \in DOMAIN rows :
          Start(r, [Idle EXCEPT !.pc = "cas", !.op = "unlock", !.id = i,
                         !.type = rows[i].type, !.ver = rows[i].version])
    BY <1>5 DEF BeginUnlock
  <2>. DEFINE q == [Idle EXCEPT !.pc = "cas", !.op = "unlock", !.id = i,
                         !.type = rows[i].type, !.ver = rows[i].version]
  <2>2. i \in Nat /\ rows[i] \in Row /\ "unlock" \in Kinds
    BY <1>5 DEF BeginUnlock, TypeInv, TypeOK
  <2>3. q \in Request
    BY <2>2, IdleType, PCFacts DEF Request, Row
  <2>. QED
    BY <2>1, <2>2, <2>3, StartType DEF Idle
<1>6. ASSUME NEW r \in Requests, BeginDelete(r) PROVE TypeInv'
  <2>1. PICK i \in DOMAIN rows :
          Start(r, [Idle EXCEPT !.op = "delete", !.type = rows[i].type,
                 !.booking = rows[i].booking, !.id = i,
                 !.pc = IF rows[i].type # "BC" /\ rows[i].booking = NoBooking
                        THEN "remove" ELSE "delCheck"])
    BY <1>6 DEF BeginDelete
  <2>. DEFINE q == [Idle EXCEPT !.op = "delete", !.type = rows[i].type,
                 !.booking = rows[i].booking, !.id = i,
                 !.pc = IF rows[i].type # "BC" /\ rows[i].booking = NoBooking
                        THEN "remove" ELSE "delCheck"]
  <2>2. i \in Nat /\ rows[i] \in Row /\ "delete" \in Kinds
    BY <1>6 DEF BeginDelete, TypeInv, TypeOK
  <2>3. q \in Request
    BY <2>2, IdleType, PCFacts DEF Request, Row
  <2>. QED
    BY <2>1, <2>2, <2>3, StartType DEF Idle
<1>7. ASSUME NEW r \in Requests, ReadAnCargo(r) PROVE TypeInv'
  <2>. DEFINE an == ActiveChildren(req[r].booking, "AN")
              c == IF an = {} THEN req[r].payload.cargo
                   ELSE rows[CHOOSE i \in an : TRUE].payload.cargo
              pc == IF req[r].op = "create" THEN "booking" ELSE "mutable"
  <2>1. req[r] \in Request /\ req[r].pc = "anRead" /\ UNCHANGED <<rows, nextId, begun>>
    BY <1>7 DEF ReadAnCargo, TypeInv, TypeOK
  <2>2. c \in Cargo
    <3>1. CASE an = {}
      BY <2>1, <3>1 DEF Request, Payload
    <3>2. CASE an # {}
      <4>1. (CHOOSE i \in an : TRUE) \in DOMAIN rows
        BY <3>2 DEF ActiveChildren
      <4>2. rows[CHOOSE i \in an : TRUE].payload \in Payload
        BY <4>1 DEF TypeInv, TypeOK, Row
      <4>. QED
        BY <3>2, <4>2 DEF Payload
    <3>. QED
      BY <3>1, <3>2
  <2>3. req' = [req EXCEPT ![r].pc = pc, ![r].payload.cargo = c]
    BY <1>7 DEF ReadAnCargo
  <2>. HIDE DEF c
  <2>4. [req[r] EXCEPT !.pc = pc, !.payload.cargo = c] \in Request
    BY <2>1, <2>2 DEF Request, Payload, PCs
  <2>5. TypeOK'
    BY <2>1, <2>3, <2>4 DEF TypeInv, TypeOK
  <2>6. ControlOK'
    BY <2>1, <2>3 DEF TypeInv, TypeOK, ControlOK
  <2>. QED
    BY <2>5, <2>6 DEF TypeInv
<1>8. ASSUME NEW r \in Requests, CheckBooking(r) PROVE TypeInv'
  BY <1>8, RejectType, GotoType DEF CheckBooking, TypeInv, ControlOK, PCs
<1>9. ASSUME NEW r \in Requests, CheckSlot(r) PROVE TypeInv'
  BY <1>9, RejectType, GotoType DEF CheckSlot, TypeInv, ControlOK, PCs
<1>10. ASSUME NEW r \in Requests, Insert(r) PROVE TypeInv'
  <2>. DEFINE q == req[r]
  <2>1. /\ q \in Request /\ q.pc = "insert" /\ q.op = "create"
        /\ nextId \in Nat \ {NoBooking} /\ nextId + 1 \in Nat \ {0}
        /\ UNCHANGED begun
    BY <1>10 DEF Insert, TypeInv, TypeOK, ControlOK, NoBooking
  <2>2. CASE ~InsertAllowed(q)
    BY <1>10, <2>1, <2>2, RejectType DEF Insert
  <2>3. CASE InsertAllowed(q) /\ q.type = "AN" /\ q.booking # NoBooking
    <3>1. /\ req' = [req EXCEPT ![r].pc = "sibling", ![r].id = nextId]
          /\ nextId' = nextId + 1 /\ UNCHANGED <<rows, begun>>
      BY <1>10, <2>3 DEF Insert
    <3>2. TypeOK'
      BY <2>1, <3>1 DEF TypeInv, TypeOK, Request, PCs
    <3>3. ControlOK'
      BY <2>1, <2>3, <3>1 DEF TypeInv, TypeOK, ControlOK, NoBooking
    <3>. QED
      BY <3>2, <3>3 DEF TypeInv
  <2>4. CASE InsertAllowed(q) /\ ~(q.type = "AN" /\ q.booking # NoBooking)
    <3>1. /\ rows' = OwnWrite(q, nextId) /\ Answer(r)
          /\ nextId' = nextId + 1 /\ UNCHANGED begun
      BY <1>10, <2>4 DEF Insert
    <3>2. /\ DOMAIN rows' \subseteq Nat \ {NoBooking}
          /\ rows' \in [DOMAIN rows' -> Row]
      BY <2>1, <3>1, OwnWriteType DEF TypeInv
    <3>3. req' \in [Requests -> Request] /\ ControlOK'
      BY <3>1, AnswerType
    <3>. QED
      BY <2>1, <3>1, <3>2, <3>3 DEF TypeInv, TypeOK
  <2>. QED
    BY <2>2, <2>3, <2>4
<1>11. ASSUME NEW r \in Requests, CheckMutable(r) PROVE TypeInv'
  BY <1>11, RejectType, GotoType DEF CheckMutable, TypeInv, ControlOK, PCs
<1>12. ASSUME NEW r \in Requests, Cas(r) PROVE TypeInv'
  <2>. DEFINE q == req[r]
  <2>1. /\ q \in Request /\ q.pc = "cas" /\ UNCHANGED begun
        /\ q.op \in {"update", "lock", "unlock"}
    BY <1>12 DEF Cas, TypeInv, TypeOK, ControlOK
  <2>2. CASE ~CasMatches(q.id, q.ver, q.op = "unlock")
    BY <1>12, <2>1, <2>2, RejectType DEF Cas
  <2>3. CASE CasMatches(q.id, q.ver, q.op = "unlock")
    <3>1. q.id \in Nat \ {NoBooking}
      BY <2>3 DEF CasMatches, TypeInv, TypeOK
    <3>2. CASE q.op = "update" /\ q.type = "AN" /\ q.booking # NoBooking
      BY <1>12, <2>1, <2>3, <3>1, <3>2, GotoType DEF Cas, PCs, NoBooking
    <3>3. CASE ~(q.op = "update" /\ q.type = "AN" /\ q.booking # NoBooking)
      <4>1. Commit(r, OwnWrite(q, q.id))
        BY <1>12, <2>3, <3>3 DEF Cas
      <4>. QED
        BY <2>1, <3>1, <4>1, OwnWriteType, CommitType DEF TypeInv
    <3>. QED
      BY <3>2, <3>3
  <2>. QED
    BY <2>2, <2>3
<1>13. ASSUME NEW r \in Requests, ReadSibling(r) PROVE TypeInv'
  <2>. DEFINE q == req[r]
              do == ActiveChildren(q.booking, "DO")
              d == CHOOSE i \in do : TRUE
  <2>1. /\ q \in Request /\ q.pc = "sibling" /\ UNCHANGED begun
        /\ q.op \in {"create", "update"} /\ q.type = "AN" /\ q.booking # NoBooking
        /\ q.id \in Nat \ {NoBooking}
    BY <1>13 DEF ReadSibling, TypeInv, TypeOK, ControlOK, Request, NoBooking
  <2>2. CASE Commit(r, OwnWrite(q, q.id))
    BY <2>1, <2>2, OwnWriteType, CommitType DEF TypeInv
  <2>3. CASE Reject(r)
    BY <2>1, <2>3, RejectType
  <2>4. CASE /\ do # {}
             /\ req' = [req EXCEPT ![r].pc = "sibcas", ![r].sib = d,
                                   ![r].sibVer = rows[d].version]
             /\ UNCHANGED <<rows, nextId>>
    <3>1. d \in DOMAIN rows
      BY <2>4 DEF ActiveChildren
    <3>2. d \in Nat /\ rows[d].version \in Nat
      BY <3>1 DEF TypeInv, TypeOK, Row
    <3>. HIDE DEF d
    <3>3. TypeOK'
      BY <2>1, <2>4, <3>2 DEF TypeInv, TypeOK, Request, PCs
    <3>4. ControlOK'
      BY <2>1, <2>4 DEF TypeInv, TypeOK, ControlOK, NoBooking
    <3>. QED
      BY <3>3, <3>4 DEF TypeInv
  <2>. QED
    BY <1>13, <2>2, <2>3, <2>4 DEF ReadSibling
<1>14. ASSUME NEW r \in Requests, PatchSibling(r) PROVE TypeInv'
  <2>. DEFINE q == req[r]
              t == OwnWrite(q, q.id)
  <2>1. /\ q \in Request /\ q.pc = "sibcas" /\ UNCHANGED begun
        /\ q.op \in {"create", "update"} /\ q.id \in Nat \ {NoBooking}
        /\ q.payload \in Payload
    BY <1>14 DEF PatchSibling, TypeInv, TypeOK, ControlOK, Request, NoBooking
  <2>2. CASE Reject(r)
    BY <2>1, <2>2, RejectType
  <2>3. CASE Commit(r, PatchedSibling(q))
    <3>1. /\ DOMAIN t \subseteq Nat \ {NoBooking}
          /\ t \in [DOMAIN t -> Row]
      BY <2>1, OwnWriteType DEF TypeInv
    <3>. DEFINE row == Edited(t[q.sib], [t[q.sib].payload EXCEPT !.cargo = q.payload.cargo])
    <3>3. PatchedSibling(q) = [t EXCEPT ![q.sib] = row]
      BY DEF PatchedSibling
    <3>. HIDE DEF t
    <3>2. q.sib \in DOMAIN t => row \in Row
      BY <2>1, <3>1, CargoPatchType
    <3>. HIDE DEF row
    <3>4. /\ DOMAIN PatchedSibling(q) \subseteq Nat \ {NoBooking}
          /\ PatchedSibling(q) \in [DOMAIN PatchedSibling(q) -> Row]
      BY <3>1, <3>2, <3>3, PatchType
    <3>. QED
      BY <2>1, <2>3, <3>4, CommitType
  <2>. QED
    BY <1>14, <2>2, <2>3 DEF PatchSibling
<1>15. ASSUME NEW r \in Requests, CheckDeletable(r) PROVE TypeInv'
  BY <1>15, RejectType, GotoType DEF CheckDeletable, TypeInv, ControlOK, PCs
<1>16. ASSUME NEW r \in Requests, Remove(r) PROVE TypeInv'
  <2>. DEFINE t == [i \in DOMAIN rows \ Removed(req[r].id) |-> rows[i]]
  <2>1. /\ DOMAIN t \subseteq Nat \ {NoBooking}
        /\ t \in [DOMAIN t -> Row]
    BY DEF TypeInv, TypeOK
  <2>2. Commit(r, t) /\ UNCHANGED begun
    BY <1>16 DEF Remove
  <2>. HIDE DEF t
  <2>. QED
    BY <2>1, <2>2, CommitType
<1>17. ASSUME NEW r \in Requests, Abort(r) PROVE TypeInv'
  BY <1>17, RejectType DEF Abort
<1>. QED
  BY <1>1, <1>2, <1>3, <1>4, <1>5, <1>6, <1>7, <1>8, <1>9, <1>10, <1>11, <1>12,
     <1>13, <1>14, <1>15, <1>16, <1>17 DEF Next, Begin, Step, Quiescent

\* The starting tables are well formed, and nothing is running.
LEMMA TypeInit == Init => TypeInv
  BY StartAssumption, BoundAssumption, IdleType
  DEF Init, TypeInv, TypeOK, ControlOK, WellFormed, NoBooking

\* Every table, request and counter keeps its type in every behaviour.
THEOREM TypeCorrect == Spec => []TypeOK
<1>1. TypeInv => TypeOK
  BY DEF TypeInv
<1>. QED
  BY <1>1, TypeInit, TypeStep, PTL DEF Spec

-----------------------------------------------------------------------------
(***************************************************************************)
(* Integrity of the tables.  The invariant adds what the running requests  *)
(* know: which ids are taken, what an open transaction has made impossible *)
(* for the others, and what a stale version token still guarantees.        *)
(***************************************************************************)
OnlyBookingsHaveFlow ==
    \A i \in DOMAIN rows : /\ rows[i].type = "BC" <=> rows[i].flow \in Flows
                           /\ rows[i].type = "BC" => rows[i].booking = NoBooking

TablesOK ==
    /\ OnlyBookingsHaveFlow
    /\ ChildFitsFlow
    /\ OneActivePerType
    /\ StatusMatchesPayload
    /\ LockedIsComplete

IdsTaken ==
    /\ \A i \in DOMAIN rows : i < nextId
    /\ \A r \in Requests : req[r].id < nextId /\ req[r].booking < nextId

\* A create that passed its checks, a lock whose token still vouches for
\* completeness, and a delete that knows what kind of row it deletes.
RequestOK(q) ==
    /\ q.op = "create" =>
          /\ q.type = "BC" <=> q.flow \in Flows
          /\ q.type = "BC" => q.booking = NoBooking
          /\ q.booking \in DOMAIN rows =>
                /\ rows[q.booking].type = "BC"
                /\ q.pc \in {"slot", "insert", "sibling", "sibcas"} =>
                      q.type \in WorkflowTypes(rows[q.booking].flow)
    /\ (q.op = "lock" /\ q.id \in DOMAIN rows) =>
          /\ q.ver <= rows[q.id].version
          /\ q.ver = rows[q.id].version => Complete(rows[q.id].payload)
    /\ q.op = "delete" =>
          /\ q.id # NoBooking
          /\ q.id \in DOMAIN rows => q.type = rows[q.id].type

Uncommitted(r) == InTransaction(r) /\ req[r].op = "create"

\* What the row locks and the pending INSERT of an open transaction exclude.
TransactionOK(r) ==
    /\ Uncommitted(r) =>
          /\ req[r].id \notin DOMAIN rows
          /\ req[r].booking \in DOMAIN rows
          /\ ActiveChildren(req[r].booking, "AN") = {}
          /\ \A s \in Requests \ {r} :
                /\ req[s].id # req[r].id
                /\ req[s].booking # req[r].id
                /\ Uncommitted(s) => req[s].booking # req[r].booking
    /\ (InTransaction(r) /\ req[r].op = "update" /\ req[r].id \in DOMAIN rows) =>
          ~rows[req[r].id].locked

RowInv == /\ TypeInv
          /\ TablesOK
          /\ IdsTaken
          /\ \A r \in Requests : RequestOK(req[r]) /\ TransactionOK(r)

\* The tables t as one commit may leave them: rows edited or removed, and at
\* most the row n new.
Evolves(t, n) ==
    /\ DOMAIN t \subseteq DOMAIN rows \cup {n}
    /\ \A i \in DOMAIN t :
          /\ t[i].status = StatusFor(t[i].payload)
          /\ t[i].locked => Complete(t[i].payload)
          /\ t[i].booking # NoBooking => t[i].booking \in DOMAIN rows \cap DOMAIN t
    /\ \A i \in DOMAIN t \ {n} :
          /\ t[i].type = rows[i].type
          /\ t[i].flow = rows[i].flow
          /\ t[i].booking = rows[i].booking
          /\ t[i].version >= rows[i].version
          /\ t[i].version = rows[i].version => t[i].payload = rows[i].payload
    /\ n \notin DOMAIN rows
    /\ n \in DOMAIN t =>
          /\ t[n].type = "BC" <=> t[n].flow \in Flows
          /\ t[n].type = "BC" => t[n].booking = NoBooking
          /\ t[n].booking # NoBooking =>
                /\ rows[t[n].booking].type = "BC"
                /\ t[n].type \in WorkflowTypes(rows[t[n].booking].flow)
                /\ ActiveChildren(t[n].booking, t[n].type) = {}

LEMMA TablesEvolve ==
    ASSUME TypeOK, TablesOK, NEW n, Evolves(rows', n)
    PROVE  TablesOK'
<1>1. \A i \in DOMAIN rows' \ {n} : i \in DOMAIN rows
  BY DEF Evolves
<1>2. OnlyBookingsHaveFlow'
  BY <1>1 DEF Evolves, TablesOK, OnlyBookingsHaveFlow
<1>3. ChildFitsFlow'
  <2>. SUFFICES ASSUME NEW i \in DOMAIN rows', rows'[i].booking # NoBooking
                PROVE  LET b == rows'[i].booking IN
                       /\ b \in DOMAIN rows'
                       /\ rows'[b].type = "BC"
                       /\ rows'[i].type \in WorkflowTypes(rows'[b].flow)
    BY DEF ChildFitsFlow
  <2>. DEFINE b == rows'[i].booking
  <2>1. b \in DOMAIN rows /\ b \in DOMAIN rows' /\ b # n
    BY DEF Evolves
  <2>2. rows'[b].type = rows[b].type /\ rows'[b].flow = rows[b].flow
    BY <2>1 DEF Evolves
  <2>3. CASE i = n
    BY <2>1, <2>2, <2>3 DEF Evolves
  <2>4. CASE i # n
    <3>1. i \in DOMAIN rows /\ rows[i].booking = b /\ rows[i].type = rows'[i].type
      BY <1>1, <2>4 DEF Evolves
    <3>. QED
      BY <2>1, <2>2, <3>1 DEF TablesOK, ChildFitsFlow
  <2>. QED
    BY <2>3, <2>4
<1>4. OneActivePerType'
  <2>. SUFFICES ASSUME NEW i \in DOMAIN rows', NEW j \in DOMAIN rows',
                       rows'[i].booking # NoBooking,
                       rows'[i].booking = rows'[j].booking,
                       rows'[i].type = rows'[j].type
                PROVE  i = j
    BY DEF OneActivePerType
  <2>1. CASE i # n /\ j # n
    <3>1. /\ i \in DOMAIN rows /\ j \in DOMAIN rows
          /\ rows[i].booking = rows'[i].booking /\ rows[i].type = rows'[i].type
          /\ rows[j].booking = rows'[j].booking /\ rows[j].type = rows'[j].type
      BY <1>1, <2>1 DEF Evolves
    <3>. QED
      BY <3>1 DEF TablesOK, OneActivePerType
  <2>2. ASSUME NEW k \in DOMAIN rows' \ {n}, n \in DOMAIN rows',
               rows'[k].booking = rows'[n].booking, rows'[k].type = rows'[n].type,
               rows'[n].booking # NoBooking
        PROVE  FALSE
    <3>1. k \in ActiveChildren(rows'[n].booking, rows'[n].type)
      BY <1>1, <2>2 DEF Evolves, ActiveChildren
    <3>. QED
      BY <2>2, <3>1 DEF Evolves
  <2>. QED
    BY <2>1, <2>2
<1>5. StatusMatchesPayload' /\ LockedIsComplete'
  BY DEF Evolves, StatusMatchesPayload, LockedIsComplete
<1>. QED
  BY <1>2, <1>3, <1>4, <1>5 DEF TablesOK

\* A commit that evolves the tables, leaves the rows other transactions hold
\* unlocked, and neither takes their ids nor their place in a workflow.
LEMMA CommitInv ==
    ASSUME RowInv, TypeInv', NEW r \in Requests, NEW n \in Nat, Answer(r),
           Evolves(rows', n), nextId' >= nextId,
           n \in DOMAIN rows' => n < nextId',
           \A s \in Requests \ {r} :
              /\ n \in DOMAIN rows' => req[s].id # n /\ req[s].booking # n
              /\ Uncommitted(s) =>
                    /\ req[s].booking \in DOMAIN rows'
                    /\ ~(/\ n \in DOMAIN rows' /\ rows'[n].type = "AN"
                         /\ rows'[n].booking = req[s].booking)
              /\ (InTransaction(s) /\ req[s].op = "update" /\ req[s].id \in DOMAIN rows') =>
                    ~rows'[req[s].id].locked
    PROVE  RowInv'
<1>. USE DEF RowInv
<1>1. req' = [req EXCEPT ![r] = Idle] /\ req \in [Requests -> Request]
  BY DEF Answer, TypeInv, TypeOK
<1>2. TablesOK'
  BY TablesEvolve DEF TypeInv
<1>3. /\ Idle.pc = "idle" /\ Idle.op = "none" /\ Idle.id = 0 /\ Idle.booking = 0
  BY DEF Idle, NoBooking
<1>4. /\ req'[r] = Idle
      /\ \A s \in Requests \ {r} : req'[s] = req[s]
  BY <1>1
<1>5. \A i \in DOMAIN rows' : i # n => i \in DOMAIN rows
  BY DEF Evolves
<1>6. IdsTaken'
  <2>1. nextId \in Nat \ {0} /\ nextId' \in Nat \ {0}
    BY DEF TypeInv, TypeOK
  <2>2. \A i \in DOMAIN rows' : i < nextId'
    <3>. TAKE i \in DOMAIN rows'
    <3>1. CASE i = n
      BY <3>1
    <3>2. CASE i # n
      <4>1. i < nextId /\ i \in Nat
        BY <1>5, <3>2 DEF IdsTaken, TypeInv, TypeOK
      <4>. QED
        BY <2>1, <4>1
    <3>. QED
      BY <3>1, <3>2
  <2>3. ASSUME NEW s \in Requests PROVE req'[s].id < nextId' /\ req'[s].booking < nextId'
    <3>1. CASE s = r
      BY <1>3, <1>4, <2>1, <3>1
    <3>2. CASE s # r
      <4>1. req[s].id \in Nat /\ req[s].booking \in Nat
        BY <1>1 DEF Request
      <4>. QED
        BY <1>4, <2>1, <3>2, <4>1 DEF IdsTaken
    <3>. QED
      BY <3>1, <3>2
  <2>. QED
    BY <2>2, <2>3 DEF IdsTaken
<1>7. ASSUME NEW s \in Requests PROVE RequestOK(req[s])' /\ TransactionOK(s)'
  <2>1. CASE s = r
    BY <1>3, <1>4, <2>1 DEF RequestOK, TransactionOK, Uncommitted, InTransaction
  <2>2. CASE s # r
    <3>. DEFINE q == req[s]
    <3>0. req'[s] = q /\ q \in Request /\ RequestOK(q) /\ TransactionOK(s)
      BY <1>1, <1>4, <2>2
    <3>1. q.op = "create" =>
            /\ q.type = "BC" <=> q.flow \in Flows
            /\ q.type = "BC" => q.booking = NoBooking
            /\ q.booking \in DOMAIN rows' =>
                /\ rows'[q.booking].type = "BC"
                /\ q.pc \in {"slot", "insert", "sibling", "sibcas"} =>
                      q.type \in WorkflowTypes(rows'[q.booking].flow)
      <4>1. q.booking \in DOMAIN rows' => /\ q.booking \in DOMAIN rows
                                          /\ q.booking # n
        BY <1>5, <2>2
      <4>. QED
        BY <3>0, <4>1 DEF RequestOK, Evolves
    <3>2. (q.op = "lock" /\ q.id \in DOMAIN rows') =>
            /\ q.ver <= rows'[q.id].version
            /\ q.ver = rows'[q.id].version => Complete(rows'[q.id].payload)
      <4>. SUFFICES ASSUME q.op = "lock", q.id \in DOMAIN rows'
                    PROVE  /\ q.ver <= rows'[q.id].version
                           /\ q.ver = rows'[q.id].version => Complete(rows'[q.id].payload)
        OBVIOUS
      <4>1. q.id # n /\ q.id \in DOMAIN rows
        BY <1>5, <2>2
      <4>2. /\ rows'[q.id].version >= rows[q.id].version
            /\ rows'[q.id].version = rows[q.id].version =>
                  rows'[q.id].payload = rows[q.id].payload
        BY <4>1 DEF Evolves
      <4>3. /\ q.ver <= rows[q.id].version
            /\ q.ver = rows[q.id].version => Complete(rows[q.id].payload)
        BY <3>0, <4>1 DEF RequestOK
      <4>4. rows'[q.id].version \in Nat /\ rows[q.id].version \in Nat /\ q.ver \in Nat
        BY <3>0, <4>1 DEF TypeInv, TypeOK, Row, Request
      <4>. QED
        BY <4>2, <4>3, <4>4
    <3>9. q.op = "delete" =>
            /\ q.id # NoBooking
            /\ q.id \in DOMAIN rows' => q.type = rows'[q.id].type
      <4>1. q.id \in DOMAIN rows' => /\ q.id \in DOMAIN rows
                                     /\ q.id # n
        BY <1>5, <2>2
      <4>. QED
        BY <3>0, <4>1 DEF RequestOK, Evolves
    <3>3. RequestOK(req[s])'
      BY <3>0, <3>1, <3>2, <3>9 DEF RequestOK
    <3>4. Uncommitted(s)' <=> Uncommitted(s)
      BY <3>0 DEF Uncommitted, InTransaction
    <3>5. Uncommitted(s) =>
            /\ q.id \notin DOMAIN rows'
            /\ q.booking \in DOMAIN rows'
            /\ ActiveChildren(q.booking, "AN")' = {}
      <4>. SUFFICES ASSUME Uncommitted(s)
                    PROVE  /\ q.id \notin DOMAIN rows'
                           /\ q.booking \in DOMAIN rows'
                           /\ ActiveChildren(q.booking, "AN")' = {}
        OBVIOUS
      <4>1. q.id \notin DOMAIN rows'
        BY <1>5, <2>2, <3>0 DEF TransactionOK
      <4>2. q.booking \in DOMAIN rows'
        BY <2>2
      <4>3. ASSUME NEW i \in DOMAIN rows', rows'[i].booking = q.booking,
                   rows'[i].type = "AN"
            PROVE  FALSE
        <5>1. i # n
          BY <2>2, <4>3
        <5>2. i \in ActiveChildren(q.booking, "AN")
          BY <1>5, <4>3, <5>1 DEF ActiveChildren, Evolves
        <5>. QED
          BY <3>0, <5>2 DEF TransactionOK
      <4>. QED
        BY <3>0, <4>1, <4>2, <4>3 DEF ActiveChildren
    <3>6. Uncommitted(s) => \A u \in Requests \ {s} :
            /\ req'[u].id # q.id
            /\ req'[u].booking # q.id
            /\ Uncommitted(u)' => req'[u].booking # q.booking
      <4>. SUFFICES ASSUME Uncommitted(s), NEW u \in Requests \ {s}
                    PROVE  /\ req'[u].id # q.id
                           /\ req'[u].booking # q.id
                           /\ Uncommitted(u)' => req'[u].booking # q.booking
        OBVIOUS
      <4>1. CASE u = r
        <5>1. q.id # 0
          BY <3>0, <4>1 DEF Uncommitted, InTransaction, TypeInv, ControlOK
        <5>. QED
          BY <1>3, <1>4, <4>1, <5>1 DEF Uncommitted, InTransaction
      <4>2. CASE u # r
        <5>1. req'[u] = req[u] /\ (Uncommitted(u)' <=> Uncommitted(u))
          BY <1>4, <4>2 DEF Uncommitted, InTransaction
        <5>. QED
          BY <3>0, <5>1 DEF TransactionOK
      <4>. QED
        BY <4>1, <4>2
    <3>7. (InTransaction(s)' /\ q.op = "update" /\ q.id \in DOMAIN rows') =>
            ~rows'[q.id].locked
      BY <2>2, <3>0 DEF InTransaction
    <3>8. TransactionOK(s)'
      BY <3>0, <3>4, <3>5, <3>6, <3>7 DEF TransactionOK
    <3>. QED
      BY <3>3, <3>8
  <2>. QED
    BY <2>1, <2>2
<1>. QED
  BY <1>2, <1>6, <1>7

\* A step that commits nothing: it only changes what its own request knows.
LEMMA RequestInv ==
    ASSUME RowInv, TypeInv', NEW r \in Requests, NEW q \in Request,
           req' = [req EXCEPT ![r] = q], UNCHANGED rows, nextId' >= nextId,
           RequestOK(q), q.id < nextId', q.booking < nextId',
           \A s \in Requests \ {r} : Uncommitted(s) =>
              q.id # req[s].id /\ q.booking # req[s].id,
           TransactionOK(r)'
    PROVE  RowInv'
<1>1. /\ req'[r] = q
      /\ \A s \in Requests \ {r} : req'[s] = req[s] /\ req[s] \in Request
  BY DEF RowInv, TypeInv, TypeOK
<1>2. TablesOK'
  BY DEF RowInv, TablesOK, OnlyBookingsHaveFlow, ChildFitsFlow, OneActivePerType,
         StatusMatchesPayload, LockedIsComplete
<1>3. nextId \in Nat /\ nextId' \in Nat
  BY DEF RowInv, TypeInv, TypeOK
<1>4. IdsTaken'
  <2>1. \A i \in DOMAIN rows' : i \in Nat /\ i < nextId
    BY DEF RowInv, IdsTaken, TypeInv, TypeOK
  <2>2. \A s \in Requests \ {r} : req'[s].id < nextId' /\ req'[s].booking < nextId'
    <3>. TAKE s \in Requests \ {r}
    <3>1. req[s].id \in Nat /\ req[s].booking \in Nat
      BY <1>1 DEF Request
    <3>. QED
      BY <1>1, <1>3, <3>1 DEF RowInv, IdsTaken
  <2>. QED
    BY <1>1, <1>3, <2>1, <2>2 DEF IdsTaken
<1>5. ASSUME NEW s \in Requests PROVE RequestOK(req[s])' /\ TransactionOK(s)'
  <2>1. CASE s = r
    BY <1>1, <2>1 DEF RequestOK
  <2>2. CASE s # r
    <3>1. req'[s] = req[s] /\ RequestOK(req[s]) /\ TransactionOK(s)
      BY <1>1, <2>2 DEF RowInv
    <3>2. RequestOK(req[s])'
      BY <3>1 DEF RequestOK
    <3>3. \A u \in Requests \ {r} : Uncommitted(u)' <=> Uncommitted(u)
      BY <1>1 DEF Uncommitted, InTransaction
    <3>4. ASSUME Uncommitted(s), NEW u \in Requests \ {s}
          PROVE  /\ req'[u].id # req'[s].id
                 /\ req'[u].booking # req'[s].id
                 /\ Uncommitted(u)' => req'[u].booking # req'[s].booking
      <4>1. CASE u = r
        BY <1>1, <2>2, <3>3, <3>4, <4>1 DEF TransactionOK
      <4>2. CASE u # r
        BY <1>1, <2>2, <3>1, <3>3, <3>4, <4>2 DEF TransactionOK
      <4>. QED
        BY <4>1, <4>2
    <3>5. TransactionOK(s)'
      BY <2>2, <3>1, <3>3, <3>4 DEF TransactionOK, ActiveChildren, InTransaction
    <3>. QED
      BY <3>2, <3>5
  <2>. QED
    BY <2>1, <2>2
<1>. QED
  BY <1>2, <1>4, <1>5 DEF RowInv

LEMMA RejectInv ==
    ASSUME RowInv, TypeInv', NEW r \in Requests, Reject(r)
    PROVE  RowInv'
<1>1. req' = [req EXCEPT ![r] = Idle] /\ UNCHANGED <<rows, nextId>>
  BY DEF Reject, Answer
<1>2. /\ Idle \in Request /\ Idle.pc = "idle" /\ Idle.op = "none"
      /\ Idle.id = 0 /\ Idle.booking = 0
  BY IdleType DEF Idle, NoBooking
<1>3. nextId \in Nat \ {0}
  BY DEF RowInv, TypeInv, TypeOK
<1>4. RequestOK(Idle)
  BY <1>2 DEF RequestOK
<1>5. \A s \in Requests : Uncommitted(s) => req[s].id # 0
  BY DEF Uncommitted, InTransaction, RowInv, TypeInv, ControlOK
<1>6. TransactionOK(r)'
  BY <1>1, <1>2 DEF TransactionOK, Uncommitted, InTransaction, RowInv, TypeInv, TypeOK
<1>7. /\ UNCHANGED rows /\ nextId' >= nextId
      /\ Idle.id < nextId' /\ Idle.booking < nextId'
  BY <1>1, <1>2, <1>3
<1>8. \A s \in Requests \ {r} : Uncommitted(s) =>
        Idle.id # req[s].id /\ Idle.booking # req[s].id
  BY <1>2, <1>5
<1>9. Idle \in Request /\ req' = [req EXCEPT ![r] = Idle]
  BY <1>1, <1>2
<1>. QED
  BY <1>4, <1>6, <1>7, <1>8, <1>9, RequestInv

\* A new request names only rows that exist, so no uncommitted one.
LEMMA StartInv ==
    ASSUME RowInv, TypeInv', NEW r \in Requests, NEW q \in Request, Start(r, q),
           RequestOK(q), q.pc \notin {"sibling", "sibcas"},
           q.id \in DOMAIN rows \cup {0}, q.booking \in DOMAIN rows \cup {0}
    PROVE  RowInv'
<1>1. req' = [req EXCEPT ![r] = q] /\ UNCHANGED <<rows, nextId>>
  BY DEF Start
<1>2. nextId \in Nat \ {0} /\ \A i \in DOMAIN rows : i < nextId
  BY DEF RowInv, TypeInv, TypeOK, IdsTaken
<1>3. \A s \in Requests : Uncommitted(s) =>
        req[s].id # 0 /\ req[s].id \notin DOMAIN rows
  BY DEF Uncommitted, InTransaction, RowInv, TypeInv, ControlOK, TransactionOK
<1>4. TransactionOK(r)'
  BY <1>1 DEF TransactionOK, Uncommitted, InTransaction, RowInv, TypeInv, TypeOK
<1>5. UNCHANGED rows /\ nextId' >= nextId /\ q.id < nextId' /\ q.booking < nextId'
  BY <1>1, <1>2
<1>6. \A s \in Requests \ {r} : Uncommitted(s) =>
        q.id # req[s].id /\ q.booking # req[s].id
  BY <1>3
<1>. QED
  BY <1>1, <1>4, <1>5, <1>6, RequestInv

\* A request that goes on without new ids: pc and payload may change.
LEMMA GoOnInv ==
    ASSUME RowInv, TypeInv', NEW r \in Requests, NEW q \in Request,
           req' = [req EXCEPT ![r] = q], UNCHANGED <<rows, nextId>>,
           RequestOK(q), q.id = req[r].id, q.booking = req[r].booking,
           TransactionOK(r)'
    PROVE  RowInv'
<1>1. nextId \in Nat /\ req[r].id < nextId /\ req[r].booking < nextId
  BY DEF RowInv, TypeInv, TypeOK, IdsTaken
<1>2. UNCHANGED rows /\ nextId' >= nextId /\ q.id < nextId' /\ q.booking < nextId'
  BY <1>1
<1>3. \A s \in Requests \ {r} : Uncommitted(s) =>
        q.id # req[s].id /\ q.booking # req[s].id
  BY DEF RowInv, TransactionOK
<1>. QED
  BY <1>2, <1>3, RequestInv

LEMMA GotoInv ==
    ASSUME RowInv, TypeInv', NEW r \in Requests, NEW pc \in PCs, Goto(r, pc),
           UNCHANGED <<rows, nextId>>, pc \notin {"sibling", "sibcas"},
           RequestOK([req[r] EXCEPT !.pc = pc])
    PROVE  RowInv'
<1>. DEFINE q == [req[r] EXCEPT !.pc = pc]
<1>1. q \in Request /\ q.id = req[r].id /\ q.booking = req[r].booking /\ q.pc = pc
  BY DEF RowInv, TypeInv, TypeOK, Request
<1>2. req' = [req EXCEPT ![r] = q]
  BY DEF Goto
<1>3. req'[r].pc = pc
  BY <1>1, <1>2 DEF RowInv, TypeInv, TypeOK
<1>4. TransactionOK(r)'
  BY <1>3 DEF TransactionOK, Uncommitted, InTransaction
<1>. QED
  BY <1>1, <1>2, <1>4, GoOnInv

\* What a request's own write does to the tables, once nothing can be in its
\* way: the row it creates is free, the row it edits is unlocked, and the row
\* it locks is complete.
LEMMA OwnWriteEvolves ==
    ASSUME RowInv, NEW q \in Request, RequestOK(q),
           NEW i \in Nat \ {NoBooking}, NEW n \in Nat,
           q.op \in {"create", "update", "lock", "unlock"},
           n \notin DOMAIN rows,
           q.op = "create" => i = n,
           q.op = "create" /\ q.booking # NoBooking =>
              /\ q.booking \in DOMAIN rows
              /\ q.type \in WorkflowTypes(rows[q.booking].flow)
              /\ ActiveChildren(q.booking, q.type) = {},
           q.op # "create" => n = 0,
           q.op = "update" /\ i \in DOMAIN rows => ~rows[i].locked,
           q.op = "lock" /\ i \in DOMAIN rows => Complete(rows[i].payload)
    PROVE  /\ Evolves(OwnWrite(q, i), n)
           /\ DOMAIN OwnWrite(q, i) =
                 IF q.op = "create" THEN DOMAIN rows \cup {n} ELSE DOMAIN rows
           /\ \A j \in DOMAIN rows : j # i => OwnWrite(q, i)[j] = rows[j]
           /\ q.op \in {"create", "update"} =>
                 \A j \in DOMAIN rows : OwnWrite(q, i)[j].locked = rows[j].locked
<1>1. /\ rows \in [DOMAIN rows -> Row]
      /\ 0 \notin DOMAIN rows
      /\ \A j \in DOMAIN rows :
            /\ rows[j].status = StatusFor(rows[j].payload)
            /\ rows[j].locked => Complete(rows[j].payload)
            /\ rows[j].booking # NoBooking => rows[j].booking \in DOMAIN rows
            /\ rows[j].version \in Nat /\ rows[j].version + 1 > rows[j].version
            /\ rows[j].version >= rows[j].version
            /\ rows[j].version + 1 >= rows[j].version
            /\ rows[j].version + 1 # rows[j].version
  BY DEF RowInv, TypeInv, TypeOK, TablesOK, StatusMatchesPayload, LockedIsComplete,
         ChildFitsFlow, Row, NoBooking
<1>2. CASE q.op = "create"
  <2>1. OwnWrite(q, i) = Inserted(rows, n, NewRow(q))
    BY <1>2 DEF OwnWrite
  <2>. DEFINE t == Inserted(rows, n, NewRow(q))
  <2>2. /\ DOMAIN t = DOMAIN rows \cup {n}
        /\ t[n] = NewRow(q)
        /\ \A j \in DOMAIN rows : t[j] = rows[j]
    BY DEF Inserted
  <2>3. /\ NewRow(q).status = StatusFor(NewRow(q).payload) /\ ~NewRow(q).locked
        /\ NewRow(q).type = q.type /\ NewRow(q).flow = q.flow
        /\ NewRow(q).booking = q.booking
    BY DEF NewRow
  <2>. HIDE DEF t
  <2>4. Evolves(t, n)
    <3>1. \A j \in DOMAIN t :
            /\ t[j].status = StatusFor(t[j].payload)
            /\ t[j].locked => Complete(t[j].payload)
            /\ t[j].booking # NoBooking => t[j].booking \in DOMAIN rows \cap DOMAIN t
      BY <1>1, <1>2, <2>2, <2>3
    <3>2. \A j \in DOMAIN t \ {n} :
          /\ t[j].type = rows[j].type
          /\ t[j].flow = rows[j].flow
          /\ t[j].booking = rows[j].booking
          /\ t[j].version >= rows[j].version
          /\ t[j].version = rows[j].version => t[j].payload = rows[j].payload
      BY <1>1, <2>2
    <3>3. /\ t[n].type = "BC" <=> t[n].flow \in Flows
          /\ t[n].type = "BC" => t[n].booking = NoBooking
          /\ t[n].booking # NoBooking =>
                /\ rows[t[n].booking].type = "BC"
                /\ t[n].type \in WorkflowTypes(rows[t[n].booking].flow)
                /\ ActiveChildren(t[n].booking, t[n].type) = {}
      BY <1>2, <2>2, <2>3 DEF RequestOK
    <3>. QED
      BY <2>2, <3>1, <3>2, <3>3 DEF Evolves
  <2>. QED
    BY <1>2, <2>1, <2>2, <2>4 DEF t
<1>3. ASSUME q.op # "create", NEW row,
             OwnWrite(q, i) = [rows EXCEPT ![i] = row],
             i \in DOMAIN rows =>
                /\ row.type = rows[i].type /\ row.flow = rows[i].flow
                /\ row.booking = rows[i].booking /\ row.version = rows[i].version + 1
                /\ row.status = StatusFor(row.payload)
                /\ row.locked => Complete(row.payload)
      PROVE /\ Evolves(OwnWrite(q, i), n)
            /\ DOMAIN OwnWrite(q, i) = DOMAIN rows
            /\ \A j \in DOMAIN rows : j # i => OwnWrite(q, i)[j] = rows[j]
  <2>. DEFINE t == [rows EXCEPT ![i] = row]
  <2>1. /\ DOMAIN t = DOMAIN rows
        /\ \A j \in DOMAIN rows : t[j] = IF j = i THEN row ELSE rows[j]
    OBVIOUS
  <2>2. n = 0
    BY <1>3
  <2>. HIDE DEF t
  <2>3. Evolves(t, n)
    BY <1>1, <1>3, <2>1, <2>2 DEF Evolves
  <2>. QED
    BY <1>3, <2>1, <2>3 DEF t
<1>4. CASE q.op = "update"
  <2>. DEFINE row == Edited(rows[i], q.payload)
  <2>1. OwnWrite(q, i) = [rows EXCEPT ![i] = row]
    BY <1>4 DEF OwnWrite
  <2>2. i \in DOMAIN rows =>
          /\ row.type = rows[i].type /\ row.flow = rows[i].flow
          /\ row.booking = rows[i].booking /\ row.version = rows[i].version + 1
          /\ row.status = StatusFor(row.payload) /\ row.locked = rows[i].locked
    BY <1>1 DEF Edited, Row
  <2>. HIDE DEF row
  <2>3. \A j \in DOMAIN rows : OwnWrite(q, i)[j].locked = rows[j].locked
    BY <2>1, <2>2
  <2>. QED
    BY <1>3, <1>4, <2>1, <2>2, <2>3
<1>5. CASE q.op = "lock"
  <2>. DEFINE row == LockedRow(rows[i])
  <2>1. OwnWrite(q, i) = [rows EXCEPT ![i] = row]
    BY <1>5 DEF OwnWrite
  <2>2. i \in DOMAIN rows =>
          /\ row.type = rows[i].type /\ row.flow = rows[i].flow
          /\ row.booking = rows[i].booking /\ row.version = rows[i].version + 1
          /\ row.status = "COMPLETED" /\ row.payload = rows[i].payload
    BY <1>1 DEF LockedRow, Row
  <2>. HIDE DEF row
  <2>. QED
    BY <1>3, <1>5, <2>1, <2>2 DEF StatusFor
<1>6. CASE q.op = "unlock"
  <2>. DEFINE row == UnlockedRow(rows[i])
  <2>1. OwnWrite(q, i) = [rows EXCEPT ![i] = row]
    BY <1>6 DEF OwnWrite
  <2>2. i \in DOMAIN rows =>
          /\ row.type = rows[i].type /\ row.flow = rows[i].flow
          /\ row.booking = rows[i].booking /\ row.version = rows[i].version + 1
          /\ row.status = rows[i].status /\ row.payload = rows[i].payload
          /\ ~row.locked
    BY <1>1 DEF UnlockedRow, Row
  <2>. HIDE DEF row
  <2>. QED
    BY <1>1, <1>3, <1>6, <2>1, <2>2
<1>. QED
  BY <1>2, <1>4, <1>5, <1>6

\* Rewriting the cargo of an unlocked sibling on top of a write that evolves.
LEMMA PatchEvolves ==
    ASSUME NEW t, NEW n, Evolves(t, n), t \in [DOMAIN t -> Row],
           TypeOK, NEW k \in DOMAIN rows \cap DOMAIN t, ~t[k].locked,
           NEW p \in Payload
    PROVE  LET u == [t EXCEPT ![k] = Edited(@, p)] IN
           /\ Evolves(u, n)
           /\ DOMAIN u = DOMAIN t
           /\ \A j \in DOMAIN t : j # k => u[j] = t[j]
           /\ ~u[k].locked
<1>. DEFINE row == Edited(t[k], p)
            u == [t EXCEPT ![k] = row]
<1>1. /\ row.type = t[k].type /\ row.flow = t[k].flow
      /\ row.booking = t[k].booking /\ row.version = t[k].version + 1
      /\ row.status = StatusFor(row.payload) /\ row.locked = t[k].locked
  BY DEF Edited, Row
<1>. HIDE DEF row
<1>2. /\ DOMAIN u = DOMAIN t
      /\ \A j \in DOMAIN t : u[j] = IF j = k THEN row ELSE t[j]
  OBVIOUS
<1>. HIDE DEF u
<1>3. k # n /\ t[k].version \in Nat /\ rows[k].version \in Nat
  BY DEF Evolves, TypeOK, Row
<1>4. \A i \in DOMAIN u :
          /\ u[i].status = StatusFor(u[i].payload)
          /\ u[i].locked => Complete(u[i].payload)
          /\ u[i].booking # NoBooking => u[i].booking \in DOMAIN rows \cap DOMAIN u
  BY <1>1, <1>2 DEF Evolves
<1>5. \A i \in DOMAIN u \ {n} :
          /\ u[i].type = rows[i].type
          /\ u[i].flow = rows[i].flow
          /\ u[i].booking = rows[i].booking
          /\ u[i].version >= rows[i].version
          /\ u[i].version = rows[i].version => u[i].payload = rows[i].payload
  <2>. SUFFICES ASSUME NEW i \in DOMAIN u \ {n}
                PROVE  /\ u[i].type = rows[i].type
                       /\ u[i].flow = rows[i].flow
                       /\ u[i].booking = rows[i].booking
                       /\ u[i].version >= rows[i].version
                       /\ u[i].version = rows[i].version => u[i].payload = rows[i].payload
    OBVIOUS
  <2>1. CASE i = k
    <3>1. t[k].version >= rows[k].version
      BY <1>3 DEF Evolves
    <3>2. u[k].version = t[k].version + 1
      BY <1>1, <1>2
    <3>3. u[k].version >= rows[k].version /\ u[k].version # rows[k].version
      BY <1>3, <3>1, <3>2
    <3>. QED
      BY <1>1, <1>2, <1>3, <2>1, <3>3 DEF Evolves
  <2>2. CASE i # k
    BY <1>2, <2>2 DEF Evolves
  <2>. QED
    BY <2>1, <2>2
<1>6. Evolves(u, n)
  BY <1>2, <1>3, <1>4, <1>5 DEF Evolves
<1>. QED
  BY <1>1, <1>2, <1>6 DEF u, row

\* The commit of a transaction that is open: its own write, alone or under the
\* rewrite of the DO.
LEMMA TransactionEvolves ==
    ASSUME RowInv, NEW r \in Requests, InTransaction(r)
    PROVE  LET q == req[r]
               n == IF q.op = "create" THEN q.id ELSE 0
               t == OwnWrite(q, q.id)
           IN  /\ Evolves(t, n)
               /\ n \notin DOMAIN rows
               /\ n \in Nat /\ n < nextId
               /\ DOMAIN rows \subseteq DOMAIN t
               /\ t \in [DOMAIN t -> Row]
               /\ n \in DOMAIN t => t[n].type = "AN" /\ t[n].booking = q.booking
               /\ \A j \in DOMAIN rows : t[j].locked = rows[j].locked
<1>. DEFINE q == req[r]
            n == IF q.op = "create" THEN q.id ELSE 0
            t == OwnWrite(q, q.id)
<1>1. /\ q \in Request /\ q.op \in {"create", "update"} /\ q.type = "AN"
      /\ q.booking # NoBooking /\ q.id \in Nat \ {NoBooking}
      /\ RequestOK(q) /\ TransactionOK(r)
      /\ nextId \in Nat \ {0} /\ q.id < nextId
      /\ q.pc \in {"sibling", "sibcas"} /\ 0 \notin DOMAIN rows
  BY DEF RowInv, TypeInv, TypeOK, ControlOK, InTransaction, Request, IdsTaken, NoBooking
<1>2. n \notin DOMAIN rows /\ n \in Nat /\ n < nextId
  BY <1>1 DEF TransactionOK, Uncommitted
<1>3. q.op = "create" =>
        /\ q.booking \in DOMAIN rows
        /\ q.type \in WorkflowTypes(rows[q.booking].flow)
        /\ ActiveChildren(q.booking, q.type) = {}
  BY <1>1 DEF TransactionOK, Uncommitted, RequestOK
<1>4. q.op = "update" /\ q.id \in DOMAIN rows => ~rows[q.id].locked
  BY <1>1 DEF TransactionOK
<1>5. /\ Evolves(t, n)
      /\ DOMAIN t = IF q.op = "create" THEN DOMAIN rows \cup {n} ELSE DOMAIN rows
      /\ \A j \in DOMAIN rows : t[j].locked = rows[j].locked
  <2>1. /\ q \in Request /\ RequestOK(q) /\ q.id \in Nat \ {NoBooking}
        /\ n \in Nat /\ n \notin DOMAIN rows
        /\ q.op \in {"create", "update", "lock", "unlock"}
        /\ q.op = "create" => q.id = n
        /\ q.op # "create" => n = 0
        /\ q.op = "lock" /\ q.id \in DOMAIN rows => Complete(rows[q.id].payload)
        /\ q.op \in {"create", "update"}
    BY <1>1, <1>2
  <2>2. q.op = "create" /\ q.booking # NoBooking =>
              /\ q.booking \in DOMAIN rows
              /\ q.type \in WorkflowTypes(rows[q.booking].flow)
              /\ ActiveChildren(q.booking, q.type) = {}
    BY <1>3
  <2>. HIDE DEF q, n, t
  <2>3. /\ Evolves(OwnWrite(q, q.id), n)
        /\ DOMAIN OwnWrite(q, q.id) =
              IF q.op = "create" THEN DOMAIN rows \cup {n} ELSE DOMAIN rows
        /\ q.op \in {"create", "update"} =>
              \A j \in DOMAIN rows : OwnWrite(q, q.id)[j].locked = rows[j].locked
    BY <1>4, <2>1, <2>2, OwnWriteEvolves
  <2>. QED
    BY <2>1, <2>3 DEF t
<1>6. t \in [DOMAIN t -> Row]
  BY <1>1, OwnWriteType DEF RowInv, TypeInv
<1>7. n \in DOMAIN t => t[n].type = "AN" /\ t[n].booking = q.booking
  <2>1. CASE q.op = "create"
    BY <1>1, <2>1 DEF OwnWrite, Inserted, NewRow
  <2>2. CASE q.op # "create"
    BY <1>1, <1>2, <1>5, <2>2
  <2>. QED
    BY <2>1, <2>2
<1>. QED
  BY <1>2, <1>5, <1>6, <1>7

LEMMA TransactionCommit ==
    ASSUME RowInv, TypeInv', NEW r \in Requests, InTransaction(r), NEW u, Commit(r, u),
           LET n == IF req[r].op = "create" THEN req[r].id ELSE 0
               t == OwnWrite(req[r], req[r].id)
           IN  /\ Evolves(u, n)
               /\ DOMAIN u = DOMAIN t
               /\ \A j \in DOMAIN rows : u[j].locked = rows[j].locked
               /\ n \in DOMAIN u => u[n].type = t[n].type /\ u[n].booking = t[n].booking
    PROVE  RowInv'
<1>. DEFINE q == req[r]
            n == IF q.op = "create" THEN q.id ELSE 0
            t == OwnWrite(q, q.id)
<1>1. /\ n \notin DOMAIN rows /\ n \in Nat /\ n < nextId
      /\ DOMAIN rows \subseteq DOMAIN t
      /\ n \in DOMAIN t => t[n].type = "AN" /\ t[n].booking = q.booking
  BY TransactionEvolves
<1>2. rows' = u /\ Answer(r) /\ nextId' = nextId /\ nextId \in Nat
  BY DEF Commit, RowInv, TypeInv, TypeOK
<1>3. n \in DOMAIN rows' => Uncommitted(r) /\ n = q.id
  <2>1. 0 \notin DOMAIN rows'
    BY DEF TypeInv, TypeOK, NoBooking
  <2>. QED
    BY <2>1 DEF Uncommitted
<1>4. ASSUME NEW s \in Requests \ {r}
      PROVE  /\ n \in DOMAIN rows' => req[s].id # n /\ req[s].booking # n
             /\ Uncommitted(s) =>
                    /\ req[s].booking \in DOMAIN rows'
                    /\ ~(/\ n \in DOMAIN rows' /\ rows'[n].type = "AN"
                         /\ rows'[n].booking = req[s].booking)
             /\ (InTransaction(s) /\ req[s].op = "update" /\ req[s].id \in DOMAIN rows') =>
                    ~rows'[req[s].id].locked
  <2>1. n \in DOMAIN rows' => req[s].id # n /\ req[s].booking # n
    BY <1>3 DEF RowInv, TransactionOK
  <2>2. Uncommitted(s) => req[s].booking \in DOMAIN rows'
    BY <1>1, <1>2 DEF RowInv, TransactionOK
  <2>3. Uncommitted(s) => ~(/\ n \in DOMAIN rows' /\ rows'[n].type = "AN"
                           /\ rows'[n].booking = req[s].booking)
    BY <1>1, <1>2, <1>3 DEF RowInv, TransactionOK
  <2>4. (InTransaction(s) /\ req[s].op = "update" /\ req[s].id \in DOMAIN rows') =>
                    ~rows'[req[s].id].locked
    <3>. SUFFICES ASSUME InTransaction(s), req[s].op = "update", req[s].id \in DOMAIN rows'
                  PROVE  ~rows'[req[s].id].locked
      OBVIOUS
    <3>1. req[s].id \in DOMAIN rows
      BY <1>2, <2>1 DEF Evolves
    <3>. QED
      BY <1>2, <3>1 DEF RowInv, TransactionOK
  <2>. QED
    BY <2>1, <2>2, <2>3, <2>4
<1>5. Evolves(rows', n) /\ nextId' >= nextId /\ (n \in DOMAIN rows' => n < nextId')
  BY <1>1, <1>2
<1>. HIDE DEF n
<1>. QED
  BY <1>1, <1>2, <1>4, <1>5, CommitInv

-----------------------------------------------------------------------------
(***************************************************************************)
(* Every step preserves RowInv, one lemma per group of actions.            *)
(***************************************************************************)
LEMMA BeginStep ==
    ASSUME RowInv, TypeInv', NEW r \in Requests, Begin(r)
    PROVE  RowInv'
<1>. USE DEF NoBooking
<1>1. /\ \A i \in DOMAIN rows : /\ rows[i] \in Row /\ i \in Nat
                                /\ rows[i].type = "BC" => rows[i].booking = NoBooking
                                /\ rows[i].booking \in DOMAIN rows \cup {0}
      /\ TypeOK /\ req[r] \in Request
  BY DEF RowInv, TypeInv, TypeOK, TablesOK, OnlyBookingsHaveFlow, ChildFitsFlow
<1>2. CASE BeginCreate(r)
  <2>1. PICK p \in Payload, t \in Types, f \in Flows, b \in DOMAIN rows \cup {NoBooking} :
          /\ t = "BC" => b = NoBooking
          /\ b # NoBooking => rows[b].type = "BC"
          /\ Start(r, [Idle EXCEPT
               !.pc = IF b = NoBooking THEN "insert"
                      ELSE IF t = "DO" THEN "anRead" ELSE "booking",
               !.op = "create", !.type = t,
               !.flow = IF t = "BC" THEN f ELSE "NONE",
               !.booking = b, !.payload = p])
    BY <1>2 DEF BeginCreate
  <2>. DEFINE q == [Idle EXCEPT
               !.pc = IF b = NoBooking THEN "insert"
                      ELSE IF t = "DO" THEN "anRead" ELSE "booking",
               !.op = "create", !.type = t,
               !.flow = IF t = "BC" THEN f ELSE "NONE",
               !.booking = b, !.payload = p]
  <2>2. /\ q.op = "create" /\ q.type = t /\ q.booking = b /\ q.id = 0
        /\ q.flow = IF t = "BC" THEN f ELSE "NONE"
        /\ q.pc = IF b = NoBooking THEN "insert"
                  ELSE IF t = "DO" THEN "anRead" ELSE "booking"
    BY DEF Idle
  <2>3. q \in Request
    <3>1. "create" \in Kinds /\ b \in Nat
      BY <1>1, <1>2 DEF BeginCreate
    <3>. QED
      BY <3>1, IdleType, PCFacts DEF Request
  <2>4. "NONE" \notin Flows /\ 0 \notin DOMAIN rows
    BY <1>1 DEF Flows, TypeOK
  <2>5. Start(r, q)
    BY <2>1
  <2>. HIDE DEF q
  <2>6. RequestOK(q)
    <3>1. q.type = "BC" <=> q.flow \in Flows
      BY <2>2, <2>4
    <3>2. q.pc \notin {"slot", "sibling", "sibcas"} /\ (q.pc = "insert" => b = 0)
      BY <2>2
    <3>. QED
      BY <2>1, <2>2, <2>4, <3>1, <3>2 DEF RequestOK
  <2>7. /\ q.pc \notin {"sibling", "sibcas"}
        /\ q.id \in DOMAIN rows \cup {0} /\ q.booking \in DOMAIN rows \cup {0}
    BY <2>2
  <2>. QED
    BY <2>3, <2>5, <2>6, <2>7, StartInv
<1>3. CASE BeginUpdate(r)
  <2>1. PICK i \in DOMAIN rows, p \in Payload :
          Start(r, [Idle EXCEPT
            !.pc = IF rows[i].type = "DO" /\ rows[i].booking # NoBooking
                   THEN "anRead" ELSE "mutable",
            !.op = "update", !.type = rows[i].type, !.booking = rows[i].booking,
            !.id = i, !.ver = rows[i].version, !.payload = p])
    BY <1>3 DEF BeginUpdate
  <2>. DEFINE q == [Idle EXCEPT
            !.pc = IF rows[i].type = "DO" /\ rows[i].booking # NoBooking
                   THEN "anRead" ELSE "mutable",
            !.op = "update", !.type = rows[i].type, !.booking = rows[i].booking,
            !.id = i, !.ver = rows[i].version, !.payload = p]
  <2>2. /\ q.op = "update" /\ q.booking = rows[i].booking /\ q.id = i
        /\ q.pc \in {"anRead", "mutable"}
    BY DEF Idle
  <2>3. q \in Request
    <3>1. "update" \in Kinds /\ rows[i] \in Row /\ i \in Nat
      BY <1>1, <1>3 DEF BeginUpdate
    <3>. QED
      BY <3>1, IdleType, PCFacts DEF Request, Row
  <2>4. Start(r, q)
    BY <2>1
  <2>. HIDE DEF q
  <2>5. RequestOK(q)
    BY <2>2 DEF RequestOK
  <2>6. /\ q.pc \notin {"sibling", "sibcas"}
        /\ q.id \in DOMAIN rows \cup {0} /\ q.booking \in DOMAIN rows \cup {0}
    BY <1>1, <2>2
  <2>. QED
    BY <2>3, <2>4, <2>5, <2>6, StartInv
<1>4. CASE BeginLock(r)
  <2>1. PICK i \in DOMAIN rows :
          /\ Complete(rows[i].payload)
          /\ Start(r, [Idle EXCEPT !.pc = "cas", !.op = "lock", !.id = i,
                         !.type = rows[i].type, !.ver = rows[i].version])
    BY <1>4 DEF BeginLock
  <2>. DEFINE q == [Idle EXCEPT !.pc = "cas", !.op = "lock", !.id = i,
                         !.type = rows[i].type, !.ver = rows[i].version]
  <2>2. /\ q.op = "lock" /\ q.booking = 0 /\ q.id = i /\ q.ver = rows[i].version
        /\ q.pc = "cas"
    BY DEF Idle
  <2>3. q \in Request
    <3>1. "lock" \in Kinds /\ rows[i] \in Row /\ i \in Nat
      BY <1>1, <1>4 DEF BeginLock
    <3>. QED
      BY <3>1, IdleType, PCFacts DEF Request, Row
  <2>4. Start(r, q)
    BY <2>1
  <2>. HIDE DEF q
  <2>5. RequestOK(q)
    <3>1. q.ver <= rows[q.id].version
      BY <1>1, <2>2 DEF Row
    <3>. QED
      BY <2>1, <2>2, <3>1 DEF RequestOK
  <2>6. /\ q.pc \notin {"sibling", "sibcas"}
        /\ q.id \in DOMAIN rows \cup {0} /\ q.booking \in DOMAIN rows \cup {0}
    BY <2>2
  <2>. QED
    BY <2>3, <2>4, <2>5, <2>6, StartInv
<1>5. CASE BeginUnlock(r)
  <2>1. PICK i \in DOMAIN rows :
          Start(r, [Idle EXCEPT !.pc = "cas", !.op = "unlock", !.id = i,
                         !.type = rows[i].type, !.ver = rows[i].version])
    BY <1>5 DEF BeginUnlock
  <2>. DEFINE q == [Idle EXCEPT !.pc = "cas", !.op = "unlock", !.id = i,
                         !.type = rows[i].type, !.ver = rows[i].version]
  <2>2. q.op = "unlock" /\ q.booking = 0 /\ q.id = i /\ q.pc = "cas"
    BY DEF Idle
  <2>3. q \in Request
    <3>1. "unlock" \in Kinds /\ rows[i] \in Row /\ i \in Nat
      BY <1>1, <1>5 DEF BeginUnlock
    <3>. QED
      BY <3>1, IdleType, PCFacts DEF Request, Row
  <2>4. Start(r, q)
    BY <2>1
  <2>. HIDE DEF q
  <2>5. RequestOK(q)
    BY <2>2 DEF RequestOK
  <2>6. /\ q.pc \notin {"sibling", "sibcas"}
        /\ q.id \in DOMAIN rows \cup {0} /\ q.booking \in DOMAIN rows \cup {0}
    BY <2>2
  <2>. QED
    BY <2>3, <2>4, <2>5, <2>6, StartInv
<1>6. CASE BeginDelete(r)
  <2>1. PICK i \in DOMAIN rows :
          Start(r, [Idle EXCEPT !.op = "delete", !.type = rows[i].type,
                 !.booking = rows[i].booking, !.id = i,
                 !.pc = IF rows[i].type # "BC" /\ rows[i].booking = NoBooking
                        THEN "remove" ELSE "delCheck"])
    BY <1>6 DEF BeginDelete
  <2>. DEFINE q == [Idle EXCEPT !.op = "delete", !.type = rows[i].type,
                 !.booking = rows[i].booking, !.id = i,
                 !.pc = IF rows[i].type # "BC" /\ rows[i].booking = NoBooking
                        THEN "remove" ELSE "delCheck"]
  <2>2. /\ q.op = "delete" /\ q.booking = rows[i].booking /\ q.id = i
        /\ q.pc \in {"remove", "delCheck"} /\ q.type = rows[i].type
    BY DEF Idle
  <2>3. q \in Request
    <3>1. "delete" \in Kinds /\ rows[i] \in Row /\ i \in Nat
      BY <1>1, <1>6 DEF BeginDelete
    <3>. QED
      BY <3>1, IdleType, PCFacts DEF Request, Row
  <2>4. Start(r, q)
    BY <2>1
  <2>. HIDE DEF q
  <2>5. RequestOK(q)
    BY <1>1, <2>2 DEF RequestOK, TypeOK
  <2>6. /\ q.pc \notin {"sibling", "sibcas"}
        /\ q.id \in DOMAIN rows \cup {0} /\ q.booking \in DOMAIN rows \cup {0}
    BY <1>1, <2>2
  <2>. QED
    BY <2>3, <2>4, <2>5, <2>6, StartInv
<1>. QED
  BY <1>2, <1>3, <1>4, <1>5, <1>6 DEF Begin

\* The reads before a write: they only change what their request knows.
LEMMA CheckStep ==
    ASSUME RowInv, TypeInv', NEW r \in Requests,
           \/ ReadAnCargo(r) \/ CheckBooking(r) \/ CheckSlot(r)
           \/ CheckMutable(r) \/ CheckDeletable(r)
    PROVE  RowInv'
<1>1. /\ req[r] \in Request /\ req \in [Requests -> Request] /\ RequestOK(req[r])
      /\ ControlOK /\ TypeOK
  BY DEF RowInv, TypeInv, TypeOK
<1>2. ASSUME NEW pc \in PCs, pc \notin {"slot", "sibling", "sibcas", "insert"},
             NEW q, q = [req[r] EXCEPT !.pc = pc]
      PROVE  RequestOK(q)
  <2>1. /\ q.op = req[r].op /\ q.type = req[r].type /\ q.flow = req[r].flow
        /\ q.booking = req[r].booking /\ q.id = req[r].id /\ q.ver = req[r].ver
        /\ q.pc = pc
    BY <1>1, <1>2 DEF Request
  <2>. QED
    BY <1>1, <1>2, <2>1 DEF RequestOK
<1>3. CASE ReadAnCargo(r)
  <2>. DEFINE an == ActiveChildren(req[r].booking, "AN")
              c == IF an = {} THEN req[r].payload.cargo
                   ELSE rows[CHOOSE i \in an : TRUE].payload.cargo
              pc == IF req[r].op = "create" THEN "booking" ELSE "mutable"
              q == [req[r] EXCEPT !.pc = pc, !.payload.cargo = c]
  <2>1. req' = [req EXCEPT ![r] = q] /\ UNCHANGED <<rows, nextId>>
    BY <1>3 DEF ReadAnCargo
  <2>2. pc \in {"booking", "mutable"}
    OBVIOUS
  <2>. HIDE DEF c, pc
  <2>3. /\ q.op = req[r].op /\ q.type = req[r].type /\ q.flow = req[r].flow
        /\ q.booking = req[r].booking /\ q.id = req[r].id /\ q.ver = req[r].ver
        /\ q.pc = pc
    BY <1>1 DEF Request
  <2>. HIDE DEF q
  <2>4. req'[r] = q
    BY <1>1, <2>1
  <2>5. q \in Request
    BY <2>4 DEF TypeInv, TypeOK
  <2>6. RequestOK(q)
    BY <1>1, <2>2, <2>3 DEF RequestOK
  <2>7. TransactionOK(r)'
    BY <2>2, <2>3, <2>4 DEF TransactionOK, Uncommitted, InTransaction
  <2>. QED
    BY <2>1, <2>3, <2>5, <2>6, <2>7, GoOnInv
<1>4. CASE CheckBooking(r)
  <2>1. CASE Reject(r)
    BY <2>1, RejectInv
  <2>2. CASE /\ BookingOpen(req[r].booking)
             /\ req[r].type \in WorkflowTypes(rows[req[r].booking].flow)
             /\ Goto(r, "slot") /\ UNCHANGED <<rows, nextId>>
    <3>. DEFINE q == [req[r] EXCEPT !.pc = "slot"]
    <3>1. /\ q.op = req[r].op /\ q.type = req[r].type /\ q.flow = req[r].flow
          /\ q.booking = req[r].booking /\ q.id = req[r].id /\ q.ver = req[r].ver
          /\ q.pc = "slot"
      BY <1>1 DEF Request
    <3>2. RequestOK(q)
      BY <1>1, <2>2, <3>1 DEF RequestOK
    <3>3. "slot" \in PCs
      BY DEF PCs
    <3>. QED
      BY <2>2, <3>2, <3>3, GotoInv
  <2>. QED
    BY <1>4, <2>1, <2>2 DEF CheckBooking
<1>5. CASE CheckSlot(r)
  <2>1. CASE Reject(r)
    BY <2>1, RejectInv
  <2>2. CASE Goto(r, "insert") /\ UNCHANGED <<rows, nextId>>
    <3>. DEFINE q == [req[r] EXCEPT !.pc = "insert"]
    <3>1. /\ q.op = req[r].op /\ q.type = req[r].type /\ q.flow = req[r].flow
          /\ q.booking = req[r].booking /\ q.id = req[r].id /\ q.ver = req[r].ver
          /\ q.pc = "insert" /\ req[r].pc = "slot"
      BY <1>1, <1>5 DEF Request, CheckSlot
    <3>2. RequestOK(q)
      BY <1>1, <2>2, <3>1 DEF RequestOK
    <3>3. "insert" \in PCs
      BY DEF PCs
    <3>. QED
      BY <2>2, <3>2, <3>3, GotoInv
  <2>. QED
    BY <1>5, <2>1, <2>2 DEF CheckSlot
<1>6. ASSUME NEW pc \in {"cas", "remove"}, Goto(r, pc), UNCHANGED <<rows, nextId>>
      PROVE  RowInv'
  <2>1. pc \in PCs /\ pc \notin {"slot", "sibling", "sibcas", "insert"}
    BY <1>6 DEF PCs
  <2>2. RequestOK([req[r] EXCEPT !.pc = pc])
    BY <1>2, <2>1
  <2>. QED
    BY <1>6, <2>1, <2>2, GotoInv
<1>7. CASE CheckMutable(r)
  BY <1>6, <1>7, RejectInv DEF CheckMutable
<1>8. CASE CheckDeletable(r)
  BY <1>6, <1>8, RejectInv DEF CheckDeletable
<1>. QED
  BY <1>3, <1>4, <1>5, <1>7, <1>8

\* A commit of a write that is not part of a longer transaction.  Row i is the
\* one it writes, n the new one (0: none); nobody else holds row i.
LEMMA DirectCommit ==
    ASSUME RowInv, TypeInv', NEW r \in Requests, NEW n \in Nat, Answer(r),
           ~InTransaction(r), NEW i,
           Evolves(rows', n), nextId' >= nextId,
           DOMAIN rows \subseteq DOMAIN rows',
           \A j \in DOMAIN rows : j # i => rows'[j] = rows[j],
           \A s \in Requests \ {r} : InTransaction(s) => req[s].id # i,
           n \in DOMAIN rows' =>
              /\ n >= nextId /\ n < nextId'
              /\ \A s \in Requests \ {r} : Uncommitted(s) =>
                    ~(rows'[n].type = "AN" /\ rows'[n].booking = req[s].booking)
    PROVE  RowInv'
<1>1. ASSUME NEW s \in Requests \ {r}, n \in DOMAIN rows'
      PROVE  req[s].id # n /\ req[s].booking # n
  <2>1. /\ req[s].id < nextId /\ req[s].booking < nextId /\ n >= nextId
        /\ req[s].id \in Nat /\ req[s].booking \in Nat /\ nextId \in Nat
    BY <1>1 DEF RowInv, IdsTaken, TypeInv, TypeOK, Request
  <2>. QED
    BY <2>1
<1>2. ASSUME NEW s \in Requests \ {r}, Uncommitted(s)
      PROVE  req[s].booking \in DOMAIN rows'
  BY <1>2 DEF RowInv, TransactionOK
<1>3. ASSUME NEW s \in Requests \ {r}, InTransaction(s), req[s].op = "update",
             req[s].id \in DOMAIN rows'
      PROVE  ~rows'[req[s].id].locked
  <2>1. req[s].id \in DOMAIN rows
    BY <1>1, <1>3 DEF Evolves
  <2>. QED
    BY <1>3, <2>1 DEF RowInv, TransactionOK
<1>4. ASSUME NEW s \in Requests \ {r}
      PROVE  /\ n \in DOMAIN rows' => req[s].id # n /\ req[s].booking # n
             /\ Uncommitted(s) =>
                    /\ req[s].booking \in DOMAIN rows'
                    /\ ~(/\ n \in DOMAIN rows' /\ rows'[n].type = "AN"
                         /\ rows'[n].booking = req[s].booking)
             /\ (InTransaction(s) /\ req[s].op = "update" /\ req[s].id \in DOMAIN rows') =>
                    ~rows'[req[s].id].locked
  BY <1>1, <1>2, <1>3, <1>4
<1>5. n \in DOMAIN rows' => n < nextId'
  OBVIOUS
<1>. QED
  BY <1>4, <1>5, CommitInv

LEMMA InsertStep ==
    ASSUME RowInv, TypeInv', NEW r \in Requests, Insert(r)
    PROVE  RowInv'
<1>. DEFINE q == req[r]
<1>1. /\ q \in Request /\ q.pc = "insert" /\ q.op = "create" /\ RequestOK(q)
      /\ nextId \in Nat \ {NoBooking} /\ nextId \notin DOMAIN rows
      /\ req \in [Requests -> Request]
      /\ \A i \in DOMAIN rows : i \in Nat /\ i < nextId
  <2>1. \A i \in DOMAIN rows : i \in Nat /\ i < nextId
    BY DEF RowInv, TypeInv, TypeOK, IdsTaken
  <2>2. nextId \in Nat \ {NoBooking}
    BY DEF RowInv, TypeInv, TypeOK, NoBooking
  <2>3. nextId \notin DOMAIN rows
    BY <2>1, <2>2
  <2>. QED
    BY <2>1, <2>2, <2>3 DEF Insert, RowInv, TypeInv, TypeOK, ControlOK
<1>2. CASE ~InsertAllowed(q)
  BY <1>2, RejectInv DEF Insert
<1>3. CASE InsertAllowed(q) /\ q.type = "AN" /\ q.booking # NoBooking
  <2>. DEFINE u == [req[r] EXCEPT !.pc = "sibling", !.id = nextId]
  <2>1. /\ req' = [req EXCEPT ![r] = u] /\ UNCHANGED rows /\ nextId' = nextId + 1
        /\ ~InsertPending(q.booking, r)
    BY <1>3 DEF Insert
  <2>2. /\ u.op = "create" /\ u.type = "AN" /\ u.flow = q.flow /\ u.booking = q.booking
        /\ u.id = nextId /\ u.pc = "sibling"
    BY <1>1, <1>3 DEF Request
  <2>. HIDE DEF u
  <2>3. req'[r] = u /\ \A s \in Requests \ {r} : req'[s] = req[s]
    BY <1>1, <2>1
  <2>4. u \in Request
    BY <2>3 DEF TypeInv, TypeOK
  <2>5. /\ q.booking \in DOMAIN rows /\ ActiveChildren(q.booking, "AN") = {}
    BY <1>3 DEF InsertAllowed
  <2>6. RequestOK(u)
    BY <1>1, <1>3, <2>2 DEF RequestOK
  <2>7. q.booking \in Nat /\ q.booking < nextId /\ nextId' >= nextId
        /\ u.id < nextId' /\ u.booking < nextId'
    BY <1>1, <2>1, <2>2, <2>5
  <2>8. \A s \in Requests : req[s].id \in Nat /\ req[s].id < nextId
                            /\ req[s].booking \in Nat /\ req[s].booking < nextId
    BY <1>1 DEF RowInv, IdsTaken, Request
  <2>9. \A s \in Requests : req[s].id # nextId /\ req[s].booking # nextId
    BY <1>1, <2>8
  <2>10. \A s \in Requests \ {r} : Uncommitted(s) =>
              u.id # req[s].id /\ u.booking # req[s].id
    BY <2>2, <2>5, <2>9 DEF RowInv, TransactionOK
  <2>11. TransactionOK(r)'
    <3>1. req'[r].id \notin DOMAIN rows' /\ req'[r].booking \in DOMAIN rows'
      BY <1>1, <2>1, <2>2, <2>3, <2>5
    <3>2. ActiveChildren(req[r].booking, "AN")' = {}
      BY <2>1, <2>2, <2>3, <2>5 DEF ActiveChildren
    <3>3. ASSUME NEW s \in Requests \ {r}
          PROVE  /\ req'[s].id # req'[r].id
                 /\ req'[s].booking # req'[r].id
                 /\ Uncommitted(s)' => req'[s].booking # req'[r].booking
      BY <2>1, <2>2, <2>3, <2>9 DEF InsertPending, Uncommitted, InTransaction
    <3>4. req'[r].op = "create"
      BY <2>2, <2>3
    <3>. QED
      BY <3>1, <3>2, <3>3, <3>4 DEF TransactionOK
  <2>. QED
    BY <2>1, <2>4, <2>6, <2>7, <2>10, <2>11, RequestInv
<1>4. CASE InsertAllowed(q) /\ ~(q.type = "AN" /\ q.booking # NoBooking)
  <2>1. /\ rows' = OwnWrite(q, nextId) /\ Answer(r) /\ nextId' = nextId + 1
    BY <1>4 DEF Insert
  <2>2. q.op = "create" /\ q.booking # NoBooking =>
              /\ q.booking \in DOMAIN rows
              /\ q.type \in WorkflowTypes(rows[q.booking].flow)
              /\ ActiveChildren(q.booking, q.type) = {}
    BY <1>1, <1>4 DEF InsertAllowed, RequestOK
  <2>3. /\ Evolves(OwnWrite(q, nextId), nextId)
        /\ DOMAIN OwnWrite(q, nextId) = DOMAIN rows \cup {nextId}
        /\ \A j \in DOMAIN rows : j # nextId => OwnWrite(q, nextId)[j] = rows[j]
    BY <1>1, <2>2, OwnWriteEvolves
  <2>4. /\ rows'[nextId].type = q.type /\ rows'[nextId].booking = q.booking
    BY <1>1, <2>1 DEF OwnWrite, Inserted, NewRow
  <2>5. ASSUME NEW s \in Requests \ {r}, Uncommitted(s)
        PROVE  ~(rows'[nextId].type = "AN" /\ rows'[nextId].booking = req[s].booking)
    BY <1>4, <2>4, <2>5 DEF Uncommitted, InTransaction, RowInv, TypeInv, ControlOK
  <2>6. ASSUME NEW s \in Requests \ {r}, InTransaction(s) PROVE req[s].id # nextId
    <3>1. req[s].id < nextId /\ req[s].id \in Nat
      BY <1>1 DEF RowInv, IdsTaken, Request
    <3>. QED
      BY <1>1, <3>1
  <2>7. nextId' >= nextId /\ nextId >= nextId /\ nextId < nextId' /\ nextId \in Nat
    BY <1>1, <2>1
  <2>8. ~InTransaction(r)
    BY <1>1 DEF InTransaction
  <2>9. /\ Evolves(rows', nextId)
        /\ DOMAIN rows \subseteq DOMAIN rows'
        /\ \A j \in DOMAIN rows : j # nextId => rows'[j] = rows[j]
    BY <2>1, <2>3
  <2>. QED
    BY <2>1, <2>5, <2>6, <2>7, <2>8, <2>9, DirectCommit
<1>. QED
  BY <1>2, <1>3, <1>4

LEMMA CasStep ==
    ASSUME RowInv, TypeInv', NEW r \in Requests, Cas(r)
    PROVE  RowInv'
<1>. DEFINE q == req[r]
<1>1. /\ q \in Request /\ q.pc = "cas" /\ q.op \in {"update", "lock", "unlock"}
      /\ RequestOK(q) /\ Free(q.id, r) /\ req \in [Requests -> Request]
  BY DEF Cas, RowInv, TypeInv, TypeOK, ControlOK
<1>2. CASE ~CasMatches(q.id, q.ver, q.op = "unlock")
  BY <1>2, RejectInv DEF Cas
<1>3. ASSUME CasMatches(q.id, q.ver, q.op = "unlock")
      PROVE  /\ q.id \in DOMAIN rows /\ q.id \in Nat \ {NoBooking}
             /\ rows[q.id].version = q.ver
             /\ q.op # "unlock" => ~rows[q.id].locked
  BY <1>3 DEF CasMatches, RowInv, TypeInv, TypeOK
<1>4. CASE /\ CasMatches(q.id, q.ver, q.op = "unlock")
           /\ Goto(r, "sibling") /\ UNCHANGED <<rows, nextId>>
           /\ q.op = "update"
  <2>. DEFINE u == [req[r] EXCEPT !.pc = "sibling"]
  <2>1. /\ req' = [req EXCEPT ![r] = u] /\ UNCHANGED <<rows, nextId>>
    BY <1>4 DEF Goto
  <2>2. /\ u.op = "update" /\ u.booking = q.booking /\ u.id = q.id
    BY <1>1, <1>4 DEF Request
  <2>. HIDE DEF u
  <2>3. req'[r] = u
    BY <1>1, <2>1
  <2>4. u \in Request
    BY <2>3 DEF TypeInv, TypeOK
  <2>5. RequestOK(u)
    BY <2>2 DEF RequestOK
  <2>6. TransactionOK(r)'
    BY <1>3, <1>4, <2>1, <2>2, <2>3 DEF TransactionOK, Uncommitted
  <2>. QED
    BY <2>1, <2>2, <2>4, <2>5, <2>6, GoOnInv
<1>5. CASE CasMatches(q.id, q.ver, q.op = "unlock") /\ Commit(r, OwnWrite(q, q.id))
  <2>1. /\ rows' = OwnWrite(q, q.id) /\ Answer(r) /\ nextId' = nextId
        /\ nextId \in Nat /\ 0 \notin DOMAIN rows
    BY <1>5 DEF Commit, RowInv, TypeInv, TypeOK, NoBooking
  <2>2. q.op = "lock" /\ q.id \in DOMAIN rows => Complete(rows[q.id].payload)
    BY <1>3, <1>5 DEF RequestOK, RowInv
  <2>3. /\ q.op # "create" /\ q.op \in {"create", "update", "lock", "unlock"}
        /\ q.op = "update" /\ q.id \in DOMAIN rows => ~rows[q.id].locked
        /\ q.id \in Nat \ {NoBooking}
    BY <1>1, <1>3, <1>5
  <2>4. /\ Evolves(OwnWrite(q, q.id), 0)
        /\ DOMAIN OwnWrite(q, q.id) = DOMAIN rows
        /\ \A j \in DOMAIN rows : j # q.id => OwnWrite(q, q.id)[j] = rows[j]
    BY <1>1, <2>1, <2>2, <2>3, OwnWriteEvolves
  <2>5. \A s \in Requests \ {r} : InTransaction(s) => req[s].id # q.id
    BY <1>1 DEF Free, Holds
  <2>6. ~InTransaction(r)
    BY <1>1 DEF InTransaction
  <2>7. /\ Evolves(rows', 0) /\ nextId' >= nextId /\ 0 \in Nat
        /\ DOMAIN rows \subseteq DOMAIN rows'
        /\ \A j \in DOMAIN rows : j # q.id => rows'[j] = rows[j]
        /\ 0 \notin DOMAIN rows'
    BY <2>1, <2>4
  <2>. QED
    BY <2>1, <2>5, <2>6, <2>7, DirectCommit
<1>. QED
  BY <1>2, <1>4, <1>5 DEF Cas

LEMMA ReadSiblingStep ==
    ASSUME RowInv, TypeInv', NEW r \in Requests, ReadSibling(r)
    PROVE  RowInv'
<1>. DEFINE q == req[r]
<1>1. /\ q \in Request /\ q.pc = "sibling" /\ InTransaction(r)
      /\ RequestOK(q) /\ TransactionOK(r) /\ req \in [Requests -> Request]
  BY DEF ReadSibling, RowInv, TypeInv, TypeOK, InTransaction
<1>2. CASE Reject(r)
  BY <1>2, RejectInv
<1>3. CASE Commit(r, OwnWrite(q, q.id))
  BY <1>1, <1>3, TransactionEvolves, TransactionCommit
<1>4. ASSUME NEW d, NEW v,
             req' = [req EXCEPT ![r].pc = "sibcas", ![r].sib = d, ![r].sibVer = v],
             UNCHANGED <<rows, nextId>>
      PROVE  RowInv'
  <2>. DEFINE u == [req[r] EXCEPT !.pc = "sibcas", !.sib = d, !.sibVer = v]
  <2>1. /\ req' = [req EXCEPT ![r] = u] /\ UNCHANGED <<rows, nextId>>
    BY <1>4
  <2>2. /\ u.op = q.op /\ u.type = q.type /\ u.flow = q.flow /\ u.ver = q.ver
        /\ u.booking = q.booking /\ u.id = q.id /\ u.pc = "sibcas"
    BY <1>1 DEF Request
  <2>. HIDE DEF u
  <2>3. req'[r] = u /\ \A s \in Requests \ {r} : req'[s] = req[s]
    BY <1>1, <2>1
  <2>4. u \in Request
    BY <2>3 DEF TypeInv, TypeOK
  <2>5. RequestOK(u)
    BY <1>1, <2>2 DEF RequestOK
  <2>6. TransactionOK(r)'
    <3>1. InTransaction(r)' /\ (Uncommitted(r)' <=> Uncommitted(r))
      BY <1>1, <2>2, <2>3 DEF Uncommitted, InTransaction
    <3>2. ActiveChildren(req[r].booking, "AN")' = ActiveChildren(req[r].booking, "AN")
      BY <2>1, <2>2, <2>3 DEF ActiveChildren
    <3>3. \A s \in Requests \ {r} : Uncommitted(s)' <=> Uncommitted(s)
      BY <2>3 DEF Uncommitted, InTransaction
    <3>. QED
      BY <1>1, <2>1, <2>2, <2>3, <3>1, <3>2, <3>3 DEF TransactionOK
  <2>. QED
    BY <2>1, <2>2, <2>4, <2>5, <2>6, GoOnInv
<1>. QED
  BY <1>2, <1>3, <1>4 DEF ReadSibling

LEMMA PatchSiblingStep ==
    ASSUME RowInv, TypeInv', NEW r \in Requests, PatchSibling(r)
    PROVE  RowInv'
<1>. DEFINE q == req[r]
            n == IF q.op = "create" THEN q.id ELSE 0
            t == OwnWrite(q, q.id)
            k == q.sib
            p == [t[k].payload EXCEPT !.cargo = q.payload.cargo]
            u == [t EXCEPT ![k] = Edited(@, p)]
<1>1. q \in Request /\ InTransaction(r) /\ TypeOK
  BY DEF PatchSibling, RowInv, TypeInv, TypeOK, InTransaction
<1>2. CASE Reject(r)
  BY <1>2, RejectInv
<1>3. CASE CasMatches(k, q.sibVer, FALSE) /\ Commit(r, PatchedSibling(q))
  <2>1. k \in DOMAIN rows /\ rows[k].locked = FALSE
    BY <1>3 DEF CasMatches
  <2>2. /\ Evolves(t, n) /\ n \notin DOMAIN rows
        /\ DOMAIN rows \subseteq DOMAIN t
        /\ t \in [DOMAIN t -> Row]
        /\ \A j \in DOMAIN rows : t[j].locked = rows[j].locked
    BY <1>1, TransactionEvolves
  <2>3. u = PatchedSibling(q) /\ rows' = u
    BY <1>3 DEF PatchedSibling, Commit
  <2>. HIDE DEF t, n, k
  <2>4. p \in Payload
    <3>1. t[k].payload \in Payload /\ q.payload \in Payload
      BY <1>1, <2>1, <2>2 DEF Row, Request
    <3>. QED
      BY <3>1 DEF Payload
  <2>5. k \in DOMAIN rows \cap DOMAIN t /\ ~t[k].locked
    BY <2>1, <2>2
  <2>. HIDE DEF p
  <2>6. /\ Evolves(u, n)
        /\ DOMAIN u = DOMAIN t
        /\ \A j \in DOMAIN t : j # k => u[j] = t[j]
        /\ ~u[k].locked
    BY <1>1, <2>2, <2>4, <2>5, PatchEvolves
  <2>. HIDE DEF u
  <2>7. u[k].locked \in BOOLEAN
    BY <2>3, <2>5, <2>6 DEF TypeInv, TypeOK, Row
  <2>8. \A j \in DOMAIN rows : u[j].locked = rows[j].locked
    <3>. TAKE j \in DOMAIN rows
    <3>1. CASE j = k
      BY <2>1, <2>6, <2>7, <3>1
    <3>2. CASE j # k
      BY <2>2, <2>6, <3>2
    <3>. QED
      BY <3>1, <3>2
  <2>9. n \in DOMAIN u => u[n].type = t[n].type /\ u[n].booking = t[n].booking
    BY <2>1, <2>2, <2>6
  <2>10. Commit(r, u)
    BY <1>3, <2>3
  <2>. QED
    BY <1>1, <2>6, <2>8, <2>9, <2>10, TransactionCommit DEF n, t
<1>. QED
  BY <1>2, <1>3 DEF PatchSibling

LEMMA RemoveStep ==
    ASSUME RowInv, TypeInv', NEW r \in Requests, Remove(r)
    PROVE  RowInv'
<1>. DEFINE q == req[r]
            t == [i \in DOMAIN rows \ Removed(q.id) |-> rows[i]]
<1>1. /\ q.op = "delete" /\ RequestOK(q) /\ q.id # NoBooking
      /\ \A i \in Removed(q.id) : Free(i, r)
      /\ q.type = "BC" => ~InsertPending(q.id, r)
      /\ rows' = t /\ Answer(r) /\ nextId' = nextId /\ nextId \in Nat
      /\ 0 \notin DOMAIN rows
  BY DEF Remove, Commit, RowInv, TypeInv, TypeOK, ControlOK, RequestOK, NoBooking
<1>2. /\ DOMAIN t = DOMAIN rows \ Removed(q.id)
      /\ \A i \in DOMAIN t : t[i] = rows[i]
  OBVIOUS
<1>. HIDE DEF t
<1>3. \A b \in DOMAIN rows : rows[b].type = "BC" /\ b # q.id => b \in DOMAIN t
  BY <1>1, <1>2 DEF Removed, RowInv, TablesOK, OnlyBookingsHaveFlow
<1>4. ASSUME NEW i \in DOMAIN t, t[i].booking # NoBooking
      PROVE  t[i].booking \in DOMAIN rows \cap DOMAIN t
  <2>1. t[i] = rows[i] /\ i \in DOMAIN rows /\ rows[i].booking # q.id
    BY <1>2 DEF Removed
  <2>2. rows[i].booking \in DOMAIN rows /\ rows[rows[i].booking].type = "BC"
    BY <1>4, <2>1 DEF RowInv, TablesOK, ChildFitsFlow
  <2>. QED
    BY <1>3, <2>1, <2>2
<1>5. Evolves(t, 0)
  <2>1. \A i \in DOMAIN t : i \in DOMAIN rows /\ t[i] = rows[i]
    BY <1>2
  <2>2. \A i \in DOMAIN t :
          /\ t[i].status = StatusFor(t[i].payload)
          /\ t[i].locked => Complete(t[i].payload)
    BY <2>1 DEF RowInv, TablesOK, StatusMatchesPayload, LockedIsComplete
  <2>3. \A i \in DOMAIN rows : rows[i].version >= rows[i].version
    BY DEF RowInv, TypeInv, TypeOK, Row
  <2>. QED
    BY <1>1, <1>4, <2>1, <2>2, <2>3 DEF Evolves
<1>6. ASSUME NEW s \in Requests \ {r}, Uncommitted(s)
      PROVE  req[s].booking \in DOMAIN rows'
  <2>1. /\ req[s].booking \in DOMAIN rows /\ rows[req[s].booking].type = "BC"
    BY <1>6 DEF RowInv, TransactionOK, RequestOK, Uncommitted
  <2>2. req[s].booking # q.id
    BY <1>1, <1>6, <2>1 DEF RequestOK, InsertPending, Uncommitted
  <2>. QED
    BY <1>1, <1>3, <2>1, <2>2
<1>7. ASSUME NEW s \in Requests \ {r}, InTransaction(s), req[s].op = "update",
             req[s].id \in DOMAIN rows'
      PROVE  ~rows'[req[s].id].locked
  BY <1>1, <1>2, <1>7 DEF RowInv, TransactionOK
<1>8. 0 \notin DOMAIN rows'
  BY <1>1, <1>2
<1>9. ASSUME NEW s \in Requests \ {r}
      PROVE  /\ 0 \in DOMAIN rows' => req[s].id # 0 /\ req[s].booking # 0
             /\ Uncommitted(s) =>
                    /\ req[s].booking \in DOMAIN rows'
                    /\ ~(/\ 0 \in DOMAIN rows' /\ rows'[0].type = "AN"
                         /\ rows'[0].booking = req[s].booking)
             /\ (InTransaction(s) /\ req[s].op = "update" /\ req[s].id \in DOMAIN rows') =>
                    ~rows'[req[s].id].locked
  BY <1>6, <1>7, <1>8, <1>9
<1>10. /\ Evolves(rows', 0) /\ nextId' >= nextId /\ 0 \in Nat
       /\ 0 \in DOMAIN rows' => 0 < nextId'
  BY <1>1, <1>5, <1>8
<1>. QED
  BY <1>1, <1>9, <1>10, CommitInv

\* Every step of every request preserves the whole inductive invariant.
THEOREM RowStep == RowInv /\ [Next]_vars => RowInv'
<1>. SUFFICES ASSUME RowInv, [Next]_vars PROVE RowInv'
  OBVIOUS
<1>1. TypeInv'
  BY TypeStep DEF RowInv
<1>2. CASE UNCHANGED vars
  BY <1>1, <1>2 DEF vars, RowInv, TablesOK, OnlyBookingsHaveFlow, ChildFitsFlow,
     OneActivePerType, StatusMatchesPayload, LockedIsComplete, IdsTaken, RequestOK,
     TransactionOK, Uncommitted, InTransaction, ActiveChildren
<1>3. ASSUME NEW r \in Requests, Begin(r) PROVE RowInv'
  BY <1>1, <1>3, BeginStep
<1>4. ASSUME NEW r \in Requests, Step(r) PROVE RowInv'
  BY <1>1, <1>4, CheckStep, InsertStep, CasStep, ReadSiblingStep, PatchSiblingStep,
     RemoveStep DEF Step
<1>5. ASSUME NEW r \in Requests, Abort(r) PROVE RowInv'
  BY <1>1, <1>5, RejectInv DEF Abort
<1>. QED
  BY <1>2, <1>3, <1>4, <1>5 DEF Next, Quiescent

LEMMA RowInit == Init => RowInv
<1>. SUFFICES ASSUME Init PROVE RowInv
  OBVIOUS
<1>1. WellFormed(rows) /\ \A r \in Requests : req[r] = Idle
  BY StartAssumption DEF Init
<1>2. /\ Idle.pc = "idle" /\ Idle.op = "none" /\ Idle.id = 0 /\ Idle.booking = 0
  BY DEF Idle, NoBooking
<1>3. TablesOK
  BY <1>1 DEF WellFormed, TablesOK, OnlyBookingsHaveFlow, ChildFitsFlow,
     OneActivePerType, StatusMatchesPayload, LockedIsComplete
<1>4. TypeInv /\ nextId \in Nat \ {0}
  BY TypeInit DEF TypeInv, TypeOK
<1>5. IdsTaken
  BY <1>1, <1>2, <1>4 DEF Init, IdsTaken
<1>6. \A r \in Requests : RequestOK(req[r]) /\ TransactionOK(r)
  BY <1>1, <1>2 DEF RequestOK, TransactionOK, Uncommitted, InTransaction
<1>. QED
  BY <1>3, <1>4, <1>5, <1>6 DEF RowInv

\* The integrity of the tables, however many requests interleave: the rows, and
\* what the requests still rely on, stay consistent.
THEOREM RowsCorrect == Spec => []RowInv
  BY RowInit, RowStep, PTL DEF Spec

\* At most one document of a type per booking (resolveWorkflowFields and the
\* partial unique index of the child tables).
THEOREM OneActivePerTypeHolds == Spec => []OneActivePerType
<1>1. RowInv => OneActivePerType
  BY DEF RowInv, TablesOK
<1>. QED
  BY <1>1, RowsCorrect, PTL

\* A child hangs on an existing booking whose flow has its type (the foreign
\* key, its cascade, and the check made before the insert).
THEOREM ChildFitsFlowHolds == Spec => []ChildFitsFlow
<1>1. RowInv => ChildFitsFlow
  BY DEF RowInv, TablesOK
<1>. QED
  BY <1>1, RowsCorrect, PTL

\* Both together: what hangs on a booking fits it.
THEOREM ChildrenFitBookingHolds == Spec => []ChildrenFitBooking
  BY OneActivePerTypeHolds, ChildFitsFlowHolds, PTL DEF ChildrenFitBooking

\* A locked document is complete (lock's read and casUpdate's version test).
THEOREM LockedIsCompleteHolds == Spec => []LockedIsComplete
<1>1. RowInv => LockedIsComplete
  BY DEF RowInv, TablesOK
<1>. QED
  BY <1>1, RowsCorrect, PTL

\* The stored status is the one the payload determines (statusFor).
THEOREM StatusMatchesPayloadHolds == Spec => []StatusMatchesPayload
<1>1. RowInv => StatusMatchesPayload
  BY DEF RowInv, TablesOK
<1>. QED
  BY <1>1, RowsCorrect, PTL

-----------------------------------------------------------------------------
(***************************************************************************)
(* The two computations of a booking's status agree.                       *)
(***************************************************************************)
\* The row the report joins for a type, 0 when there is none, says of that type
\* what the workflow endpoint says.
LEMMA JoinIsSingle ==
    ASSUME TypeOK, OneActivePerType, NEW b \in DOMAIN rows, NEW t \in {"BL", "AN", "DO"}
    PROVE  \E x : LeftJoin(b, t) = {x} /\ (JoinedCompleted(x) <=> Completed(b, t))
<1>1. b # NoBooking /\ 0 \notin DOMAIN rows
  BY DEF TypeOK, NoBooking
<1>2. CASE ActiveChildren(b, t) = {}
  <2>1. LeftJoin(b, t) = {0} /\ ~JoinedCompleted(0) /\ ~Completed(b, t)
    BY <1>2 DEF LeftJoin, JoinedCompleted, Completed
  <2>. QED
    BY <2>1
<1>3. ASSUME NEW x \in ActiveChildren(b, t) PROVE
        LeftJoin(b, t) = {x} /\ (JoinedCompleted(x) <=> Completed(b, t))
  <2>1. x \in DOMAIN rows /\ rows[x].booking = b /\ rows[x].type = t /\ x # 0
    BY <1>1, <1>3 DEF ActiveChildren
  <2>2. \A y \in ActiveChildren(b, t) : y = x
    BY <1>1, <2>1 DEF ActiveChildren, OneActivePerType
  <2>3. ActiveChildren(b, t) = {x}
    BY <1>3, <2>2
  <2>. QED
    BY <2>1, <2>3 DEF LeftJoin, JoinedCompleted, Completed
<1>. QED
  BY <1>2, <1>3

LEMMA ReportAgrees ==
    ASSUME TypeOK, OneActivePerType, OnlyBookingsHaveFlow
    PROVE  ReportAgreesWithWorkflow
<1>. SUFFICES ASSUME NEW b \in DOMAIN rows, rows[b].type = "BC"
              PROVE  /\ Cardinality(ReportRows(b)) = 1
                     /\ \A j \in ReportRows(b) : ReportStatus(b, j) = WorkflowStatusFor(b)
  BY DEF ReportAgreesWithWorkflow
<1>1. PICK x : LeftJoin(b, "BL") = {x} /\ (JoinedCompleted(x) <=> Completed(b, "BL"))
  BY JoinIsSingle
<1>2. PICK y : LeftJoin(b, "AN") = {y} /\ (JoinedCompleted(y) <=> Completed(b, "AN"))
  BY JoinIsSingle
<1>3. PICK z : LeftJoin(b, "DO") = {z} /\ (JoinedCompleted(z) <=> Completed(b, "DO"))
  BY JoinIsSingle
<1>4. ReportRows(b) = {<<x, y, z>>}
  BY <1>1, <1>2, <1>3 DEF ReportRows
<1>5. Cardinality(ReportRows(b)) = 1
  BY <1>4, FS_Singleton
<1>6. Completed(b, "BC") <=> rows[b].status = "COMPLETED"
  BY DEF Completed
<1>7. rows[b].flow \in {"EXPORT", "IMPORT"}
  BY DEF OnlyBookingsHaveFlow, Flows
<1>8. CASE rows[b].flow = "EXPORT"
  <2>1. WorkflowTypes(rows[b].flow) = {"BC", "BL"}
    BY <1>8 DEF WorkflowTypes
  <2>2. (\A t \in WorkflowTypes(rows[b].flow) : Completed(b, t))
           <=> Completed(b, "BC") /\ Completed(b, "BL")
    BY <2>1
  <2>3. ReportStatus(b, <<x, y, z>>) = WorkflowStatusFor(b)
    BY <1>1, <1>6, <1>8, <2>2 DEF ReportStatus, WorkflowStatusFor
  <2>. QED
    BY <1>4, <1>5, <2>3
<1>9. CASE rows[b].flow = "IMPORT"
  <2>1. WorkflowTypes(rows[b].flow) = {"BC", "AN", "DO"}
    BY <1>9 DEF WorkflowTypes
  <2>2. (\A t \in WorkflowTypes(rows[b].flow) : Completed(b, t))
           <=> Completed(b, "BC") /\ Completed(b, "AN") /\ Completed(b, "DO")
    BY <2>1
  <2>3. ReportStatus(b, <<x, y, z>>) = WorkflowStatusFor(b)
    BY <1>2, <1>3, <1>6, <1>9, <2>2 DEF ReportStatus, WorkflowStatusFor
  <2>. QED
    BY <1>4, <1>5, <2>3
<1>. QED
  BY <1>7, <1>8, <1>9

\* The report's LEFT JOINs show a booking once, with the status the endpoint
\* computes (booking_reporting_v1 beside workflowStatusFor).
THEOREM ReportAgreesWithWorkflowHolds == Spec => []ReportAgreesWithWorkflow
<1>1. RowInv => ReportAgreesWithWorkflow
  BY ReportAgrees DEF RowInv, TablesOK, TypeInv
<1>. QED
  BY <1>1, RowsCorrect, PTL

-----------------------------------------------------------------------------
(***************************************************************************)
(* What a step does to one row.  The invariant LockInv adds what a request *)
(* knows of the rows it read: the row locks of an open AN transaction keep *)
(* its AN as it was, and the rows named by a request keep type and         *)
(* booking.                                                                *)
(***************************************************************************)
KnowsRow(r) ==
    LET q == req[r] IN
    /\ q.sib < nextId
    /\ \A s \in Requests : Uncommitted(s) => req[s].id # q.sib
    /\ (q.op = "update" /\ q.id \in DOMAIN rows) =>
          q.type = rows[q.id].type /\ q.booking = rows[q.id].booking
    /\ (q.pc = "sibcas" /\ q.sib \in DOMAIN rows) =>
          rows[q.sib].type = "DO" /\ rows[q.sib].booking = q.booking

HoldsRow(r) ==
    (InTransaction(r) /\ req[r].op = "update") =>
        /\ req[r].id \in DOMAIN rows
        /\ rows[req[r].id].version = req[r].ver
        /\ \A s \in Requests \ {r} : InTransaction(s) => req[s].id # req[r].id

LockInv == RowInv /\ \A r \in Requests : KnowsRow(r) /\ HoldsRow(r)

\* The row a compare-and-set of the request leaves in place of `row`.
Replaced(q, row) ==
    CASE q.op = "update" -> Edited(row, q.payload)
      [] q.op = "lock"   -> LockedRow(row)
      [] q.op = "unlock" -> UnlockedRow(row)

Kept(i)     == i \in DOMAIN rows \cap DOMAIN rows'
Same(i)     == Kept(i) /\ rows'[i] = rows[i]
Adds(r, i)  == /\ i \in DOMAIN rows' \ DOMAIN rows
               /\ req[r].op = "create"
               /\ rows'[i] = NewRow(req[r])
               /\ \/ req[r].pc = "insert" /\ i = nextId
                  \/ Uncommitted(r) /\ i = req[r].id
Drops(r, i) == i \in DOMAIN rows \ DOMAIN rows' /\ Free(i, r)
Owns(r, i)  == /\ Kept(i)
               /\ i = req[r].id /\ rows[i].version = req[r].ver
               /\ req[r].op \in {"update", "lock", "unlock"}
               /\ rows[i].locked = (req[r].op = "unlock")
               /\ \/ req[r].pc = "cas" /\ Free(i, r)
                  \/ InTransaction(r)
               /\ rows'[i] = Replaced(req[r], rows[i])
Patches(r, i) == /\ Kept(i)
                 /\ req[r].pc = "sibcas" /\ Free(i, r)
                 /\ i = req[r].sib /\ rows[i].version = req[r].sibVer
                 /\ ~rows[i].locked
                 /\ rows'[i] = Edited(rows[i],
                        [rows[i].payload EXCEPT !.cargo = req[r].payload.cargo])

RowChange(r, i) ==
    Same(i) \/ Adds(r, i) \/ Drops(r, i) \/ Owns(r, i) \/ Patches(r, i)

Changes(r) ==
    /\ UNCHANGED rows \/ Answer(r)
    /\ nextId' \in Nat /\ nextId' >= nextId
    /\ \A s \in Requests \ {r} : req'[s] = req[s]
    /\ \A i \in DOMAIN rows \cup DOMAIN rows' : RowChange(r, i)

LEMMA QuietChanges ==
    ASSUME NEW r \in Requests, UNCHANGED rows, nextId' \in Nat, nextId' >= nextId,
           \A s \in Requests \ {r} : req'[s] = req[s]
    PROVE  Changes(r)
  BY DEF Changes, RowChange, Same, Kept

LEMMA OwnWriteChanges ==
    ASSUME LockInv, NEW r \in Requests, InTransaction(r),
           NEW i \in DOMAIN rows \cup DOMAIN rows',
           DOMAIN rows' = DOMAIN OwnWrite(req[r], req[r].id),
           rows'[i] = OwnWrite(req[r], req[r].id)[i]
    PROVE  Same(i) \/ Adds(r, i) \/ Owns(r, i)
<1>1. /\ req[r] \in Request /\ req[r].op \in {"create", "update"}
      /\ HoldsRow(r) /\ TransactionOK(r)
  BY DEF LockInv, RowInv, TypeInv, TypeOK, ControlOK, InTransaction
<1>2. CASE req[r].op = "create"
  <2>1. DOMAIN rows' = DOMAIN rows \cup {req[r].id}
    BY <1>2 DEF OwnWrite, Inserted
  <2>2. rows'[i] = IF i = req[r].id THEN NewRow(req[r]) ELSE rows[i]
    BY <1>2, <2>1 DEF OwnWrite, Inserted
  <2>3. req[r].id \notin DOMAIN rows /\ Uncommitted(r)
    BY <1>1, <1>2 DEF TransactionOK, Uncommitted
  <2>. QED
    BY <1>2, <2>1, <2>2, <2>3 DEF Same, Adds, Kept
<1>3. CASE req[r].op = "update"
  <2>1. DOMAIN rows' = DOMAIN rows
    BY <1>3 DEF OwnWrite
  <2>2. rows'[i] = IF i = req[r].id THEN Edited(rows[i], req[r].payload) ELSE rows[i]
    BY <1>3, <2>1 DEF OwnWrite
  <2>3. /\ req[r].id \in DOMAIN rows /\ rows[req[r].id].version = req[r].ver
        /\ ~rows[req[r].id].locked
    BY <1>1, <1>3 DEF HoldsRow, TransactionOK
  <2>4. rows[req[r].id].locked \in BOOLEAN
    BY <2>3 DEF LockInv, RowInv, TypeInv, TypeOK, Row
  <2>. QED
    BY <1>3, <2>1, <2>2, <2>3, <2>4 DEF Same, Owns, Kept, Replaced
<1>. QED
  BY <1>1, <1>2, <1>3

LEMMA CommitChanges ==
    ASSUME LockInv, NEW r \in Requests, NEW t, Commit(r, t),
           \A i \in DOMAIN rows \cup DOMAIN rows' : RowChange(r, i)
    PROVE  Changes(r)
<1>1. req \in [Requests -> Request] /\ nextId \in Nat
  BY DEF LockInv, RowInv, TypeInv, TypeOK
<1>. QED
  BY <1>1 DEF Commit, Answer, Changes

LEMMA InsertChanges ==
    ASSUME LockInv, NEW r \in Requests, Insert(r) PROVE Changes(r)
<1>1. /\ req \in [Requests -> Request] /\ nextId \in Nat /\ req[r].op = "create"
      /\ req[r].pc = "insert" /\ nextId \notin DOMAIN rows
  BY DEF LockInv, RowInv, TypeInv, TypeOK, ControlOK, Insert, IdsTaken
<1>2. CASE Reject(r)
  BY <1>1, <1>2, QuietChanges DEF Reject, Answer
<1>3. CASE /\ nextId' = nextId + 1 /\ UNCHANGED rows
           /\ req' = [req EXCEPT ![r].pc = "sibling", ![r].id = nextId]
  <2>. DEFINE u == [req[r] EXCEPT !.pc = "sibling", !.id = nextId]
  <2>1. req' = [req EXCEPT ![r] = u]
    BY <1>3
  <2>. HIDE DEF u
  <2>. QED
    BY <1>1, <1>3, <2>1, QuietChanges
<1>4. CASE /\ nextId' = nextId + 1 /\ Answer(r)
           /\ rows' = OwnWrite(req[r], nextId)
  <2>1. rows' = Inserted(rows, nextId, NewRow(req[r]))
    BY <1>1, <1>4 DEF OwnWrite
  <2>2. ASSUME NEW i \in DOMAIN rows \cup DOMAIN rows' PROVE RowChange(r, i)
    BY <1>1, <2>1 DEF Inserted, RowChange, Same, Adds, Kept
  <2>. QED
    BY <1>1, <1>4, <2>2 DEF Changes, Answer
<1>. QED
  BY <1>2, <1>3, <1>4 DEF Insert

LEMMA CasChanges ==
    ASSUME LockInv, NEW r \in Requests, Cas(r) PROVE Changes(r)
<1>1. /\ req \in [Requests -> Request] /\ nextId \in Nat
      /\ req[r].op \in {"update", "lock", "unlock"}
      /\ req[r].pc = "cas" /\ Free(req[r].id, r)
  BY DEF LockInv, RowInv, TypeInv, TypeOK, ControlOK, Cas
<1>2. CASE Reject(r)
  BY <1>1, <1>2, QuietChanges DEF Reject, Answer
<1>3. CASE Goto(r, "sibling") /\ UNCHANGED <<rows, nextId>>
  BY <1>1, <1>3, QuietChanges DEF Goto
<1>4. CASE /\ CasMatches(req[r].id, req[r].ver, req[r].op = "unlock")
           /\ Commit(r, OwnWrite(req[r], req[r].id))
  <2>1. /\ req[r].id \in DOMAIN rows /\ rows[req[r].id].version = req[r].ver
        /\ rows[req[r].id].locked = (req[r].op = "unlock")
    BY <1>4 DEF CasMatches
  <2>2. rows' = [rows EXCEPT ![req[r].id] = Replaced(req[r], rows[req[r].id])]
    BY <1>1, <1>4, <2>1 DEF Commit, OwnWrite, Replaced
  <2>3. ASSUME NEW i \in DOMAIN rows \cup DOMAIN rows' PROVE RowChange(r, i)
    BY <1>1, <2>1, <2>2 DEF RowChange, Same, Owns, Kept
  <2>. QED
    BY <1>4, <2>3, CommitChanges
<1>. QED
  BY <1>2, <1>3, <1>4 DEF Cas

LEMMA SiblingChanges ==
    ASSUME LockInv, NEW r \in Requests, ReadSibling(r) \/ PatchSibling(r)
    PROVE  Changes(r)
<1>. DEFINE q == req[r]
<1>1. /\ req \in [Requests -> Request] /\ nextId \in Nat /\ InTransaction(r)
      /\ KnowsRow(r) /\ HoldsRow(r) /\ TransactionOK(r)
      /\ q.op \in {"create", "update"} /\ q.type = "AN"
  BY DEF LockInv, RowInv, TypeInv, TypeOK, ControlOK, ReadSibling, PatchSibling, InTransaction
<1>2. CASE Reject(r)
  BY <1>1, <1>2, QuietChanges DEF Reject, Answer
<1>3. CASE Commit(r, OwnWrite(q, q.id))
  <2>1. rows' = OwnWrite(q, q.id)
    BY <1>3 DEF Commit
  <2>2. ASSUME NEW i \in DOMAIN rows \cup DOMAIN rows' PROVE RowChange(r, i)
    BY <1>1, <2>1, OwnWriteChanges DEF RowChange
  <2>. QED
    BY <1>3, <2>2, CommitChanges
<1>4. CASE \E d \in Nat : /\ UNCHANGED <<rows, nextId>>
                          /\ req' = [req EXCEPT ![r].pc = "sibcas", ![r].sib = d,
                                                ![r].sibVer = rows[d].version]
  <2>1. PICK d \in Nat : /\ UNCHANGED <<rows, nextId>>
                         /\ req' = [req EXCEPT ![r].pc = "sibcas", ![r].sib = d,
                                               ![r].sibVer = rows[d].version]
    BY <1>4
  <2>. DEFINE u == [q EXCEPT !.pc = "sibcas", !.sib = d, !.sibVer = rows[d].version]
  <2>2. req' = [req EXCEPT ![r] = u]
    BY <2>1
  <2>. HIDE DEF u
  <2>. QED
    BY <1>1, <2>1, <2>2, QuietChanges
<1>5. CASE /\ q.pc = "sibcas" /\ CasMatches(q.sib, q.sibVer, FALSE) /\ Free(q.sib, r)
           /\ Commit(r, PatchedSibling(q))
  <2>. DEFINE t == OwnWrite(q, q.id)
              k == q.sib
  <2>1. /\ k \in DOMAIN rows /\ rows[k].version = q.sibVer /\ ~rows[k].locked
    BY <1>5 DEF CasMatches
  <2>2. k # q.id
    BY <1>1, <1>5, <2>1 DEF KnowsRow, HoldsRow, TransactionOK, Uncommitted
  <2>3. DOMAIN rows \subseteq DOMAIN t
    BY <1>1, TransactionEvolves DEF LockInv
  <2>4. t[k] = rows[k]
    BY <1>1, <2>1, <2>2 DEF OwnWrite, Inserted
  <2>. HIDE DEF t
  <2>5. /\ rows' = [t EXCEPT ![k] = Edited(t[k], [t[k].payload EXCEPT !.cargo = q.payload.cargo])]
    BY <1>5 DEF Commit, PatchedSibling, t
  <2>6. ASSUME NEW i \in DOMAIN rows \cup DOMAIN rows' PROVE RowChange(r, i)
    <3>1. CASE i = k
      BY <1>5, <2>1, <2>3, <2>4, <2>5, <3>1 DEF RowChange, Patches, Kept
    <3>2. CASE i # k
      <4>1. DOMAIN rows' = DOMAIN t /\ rows'[i] = t[i]
        BY <2>3, <2>5, <3>2
      <4>. QED
        BY <1>1, <4>1, OwnWriteChanges DEF RowChange, t
    <3>. QED
      BY <3>1, <3>2
  <2>. QED
    BY <1>5, <2>6, CommitChanges
<1>6. CASE ReadSibling(r)
  <2>. DEFINE do == ActiveChildren(q.booking, "DO")
              d == CHOOSE i \in do : TRUE
  <2>1. do # {} => d \in Nat
    <3>1. DOMAIN rows \subseteq Nat
      BY DEF LockInv, RowInv, TypeInv, TypeOK
    <3>. QED
      BY <3>1 DEF ActiveChildren
  <2>. QED
    BY <1>2, <1>3, <1>4, <1>6, <2>1 DEF ReadSibling
<1>7. CASE PatchSibling(r)
  BY <1>2, <1>5, <1>7 DEF PatchSibling
<1>. QED
  BY <1>6, <1>7

\* Each step leaves every row alone, or does one of four things to it.
LEMMA StepChanges ==
    ASSUME LockInv, NEW r \in Requests, Step(r) PROVE Changes(r)
<1>1. /\ req \in [Requests -> Request] /\ nextId \in Nat
  BY DEF LockInv, RowInv, TypeInv, TypeOK
<1>2. ASSUME NEW pc, Goto(r, pc) /\ UNCHANGED <<rows, nextId>> PROVE Changes(r)
  BY <1>1, <1>2, QuietChanges DEF Goto
<1>3. CASE Reject(r)
  BY <1>1, <1>3, QuietChanges DEF Reject, Answer
<1>4. CASE ReadAnCargo(r)
  <2>1. PICK pc, c : /\ req' = [req EXCEPT ![r].pc = pc, ![r].payload.cargo = c]
                     /\ UNCHANGED <<rows, nextId>>
    BY <1>4 DEF ReadAnCargo
  <2>. DEFINE u == [req[r] EXCEPT !.pc = pc, !.payload.cargo = c]
  <2>2. req' = [req EXCEPT ![r] = u]
    BY <2>1
  <2>. HIDE DEF u
  <2>. QED
    BY <1>1, <2>1, <2>2, QuietChanges
<1>5. CASE CheckBooking(r) \/ CheckSlot(r) \/ CheckMutable(r) \/ CheckDeletable(r)
  BY <1>2, <1>3, <1>5 DEF CheckBooking, CheckSlot, CheckMutable, CheckDeletable
<1>6. CASE Remove(r)
  <2>. DEFINE t == [i \in DOMAIN rows \ Removed(req[r].id) |-> rows[i]]
  <2>1. Commit(r, t) /\ rows' = t /\ \A i \in Removed(req[r].id) : Free(i, r)
    BY <1>6 DEF Remove, Commit
  <2>2. ASSUME NEW i \in DOMAIN rows \cup DOMAIN rows' PROVE RowChange(r, i)
    BY <2>1 DEF RowChange, Same, Drops, Kept
  <2>. HIDE DEF t
  <2>. QED
    BY <2>1, <2>2, CommitChanges
<1>. QED
  BY <1>4, <1>5, <1>6, InsertChanges, CasChanges, SiblingChanges DEF Step

-----------------------------------------------------------------------------
(* LockInv is inductive. *)

\* The rows a request other than r names stay what they were, as far as they
\* stay.
LEMMA RowsNamed ==
    ASSUME LockInv, NEW r \in Requests, Changes(r), NEW i \in DOMAIN rows', i < nextId,
           Uncommitted(r) => i # req[r].id
    PROVE  /\ i \in DOMAIN rows
           /\ rows'[i].type = rows[i].type
           /\ rows'[i].booking = rows[i].booking
<1>1. nextId \in Nat /\ ~Adds(r, i)
  BY DEF LockInv, RowInv, TypeInv, TypeOK, Adds
<1>2. i \in DOMAIN rows
  BY <1>1 DEF Changes, RowChange, Same, Drops, Owns, Patches, Kept
<1>3. rows[i] \in Row
  BY <1>2 DEF LockInv, RowInv, TypeInv, TypeOK
<1>4. \A p : /\ Edited(rows[i], p).type = rows[i].type
             /\ Edited(rows[i], p).booking = rows[i].booking
  BY <1>3 DEF Edited, Row
<1>5. /\ LockedRow(rows[i]).type = rows[i].type
      /\ LockedRow(rows[i]).booking = rows[i].booking
      /\ UnlockedRow(rows[i]).type = rows[i].type
      /\ UnlockedRow(rows[i]).booking = rows[i].booking
  BY <1>3 DEF LockedRow, UnlockedRow, Row
<1>6. RowChange(r, i) /\ ~Drops(r, i)
  BY DEF Changes, Drops
<1>. QED
  BY <1>1, <1>2, <1>4, <1>5, <1>6 DEF RowChange, Same, Owns, Patches, Replaced

\* Nobody else writes or deletes the row an open transaction holds.
LEMMA RowsHeld ==
    ASSUME LockInv, NEW r \in Requests, Changes(r), NEW s \in Requests \ {r},
           InTransaction(s), req[s].op = "update"
    PROVE  Same(req[s].id)
<1>. DEFINE i == req[s].id
<1>1. /\ i \in DOMAIN rows /\ ~Free(i, r)
      /\ InTransaction(r) => req[r].id # i
  BY DEF LockInv, HoldsRow, Free, Holds
<1>2. RowChange(r, i)
  BY <1>1 DEF Changes
<1>. QED
  BY <1>1, <1>2 DEF RowChange, Adds, Drops, Owns, Patches

LEMMA OthersKeepLockInv ==
    ASSUME LockInv, RowInv', NEW r \in Requests, Changes(r), NEW s \in Requests \ {r},
           Uncommitted(r)' => \/ Uncommitted(r) /\ req'[r].id = req[r].id
                              \/ req'[r].id >= nextId,
           InTransaction(r)' => \/ InTransaction(r) /\ req'[r].id = req[r].id
                                \/ req'[r].id >= nextId
                                \/ Free(req'[r].id, r)
    PROVE  /\ KnowsRow(s)' /\ HoldsRow(s)'
           /\ \A q \in Requests \ {r} : Uncommitted(q)' => req'[q].id # req'[s].sib
<1>1. /\ req'[s] = req[s] /\ nextId' >= nextId /\ nextId' \in Nat /\ nextId \in Nat
      /\ req[s] \in Request /\ KnowsRow(s) /\ HoldsRow(s)
      /\ req'[s] \in Request /\ req'[r] \in Request
  BY DEF Changes, LockInv, RowInv, TypeInv, TypeOK
<1>2. /\ req[s].id < nextId /\ req[s].sib < nextId
      /\ req[s].id \in Nat /\ req[s].sib \in Nat /\ req'[r].id \in Nat
  BY <1>1 DEF LockInv, RowInv, IdsTaken, KnowsRow, Request
<1>3. Uncommitted(r) => req[r].id # req[s].id /\ req[r].id # req[s].sib
  BY <1>1 DEF LockInv, RowInv, TransactionOK, KnowsRow
<1>4. \A q \in Requests \ {r} : Uncommitted(q)' => req'[q].id # req'[s].sib
  <2>1. ASSUME NEW q \in Requests \ {r}, Uncommitted(q)' PROVE req'[q].id # req'[s].sib
    <3>1. req'[q] = req[q]
      BY DEF Changes
    <3>. QED
      BY <1>1, <2>1, <3>1 DEF Uncommitted, InTransaction, KnowsRow
  <2>. QED
    BY <2>1
<1>5. Uncommitted(r)' => req'[r].id # req'[s].sib
  <2>1. CASE Uncommitted(r) /\ req'[r].id = req[r].id
    BY <1>1, <1>3, <2>1
  <2>2. CASE req'[r].id >= nextId
    BY <1>1, <1>2, <2>2
  <2>. QED
    BY <2>1, <2>2
<1>6. KnowsRow(s)'
  <2>1. req'[s].sib < nextId'
    BY <1>1, <1>2
  <2>2. \A q \in Requests : Uncommitted(q)' => req'[q].id # req'[s].sib
    BY <1>4, <1>5
  <2>3. ASSUME req[s].op = "update", req[s].id \in DOMAIN rows'
        PROVE  req[s].type = rows'[req[s].id].type /\ req[s].booking = rows'[req[s].id].booking
    BY <1>1, <1>2, <1>3, <2>3, RowsNamed DEF KnowsRow
  <2>4. ASSUME req[s].pc = "sibcas", req[s].sib \in DOMAIN rows'
        PROVE  rows'[req[s].sib].type = "DO" /\ rows'[req[s].sib].booking = req[s].booking
    BY <1>1, <1>2, <1>3, <2>4, RowsNamed DEF KnowsRow
  <2>. QED
    BY <1>1, <2>1, <2>2, <2>3, <2>4 DEF KnowsRow
<1>7. HoldsRow(s)'
  <2>. SUFFICES ASSUME InTransaction(s)', req'[s].op = "update"
                PROVE  /\ req'[s].id \in DOMAIN rows'
                       /\ rows'[req'[s].id].version = req'[s].ver
                       /\ \A q \in Requests \ {s} : InTransaction(q)' => req'[q].id # req'[s].id
    BY DEF HoldsRow
  <2>1. InTransaction(s) /\ req[s].op = "update"
    BY <1>1 DEF InTransaction
  <2>2. Same(req[s].id)
    BY <2>1, RowsHeld
  <2>3. ASSUME NEW q \in Requests \ {s}, q # r, InTransaction(q)'
        PROVE  req'[q].id # req'[s].id
    <3>1. req'[q] = req[q]
      BY <2>3 DEF Changes
    <3>. QED
      BY <1>1, <2>1, <2>3, <3>1 DEF HoldsRow, InTransaction
  <2>4. ASSUME InTransaction(r)' PROVE req'[r].id # req'[s].id
    <3>1. CASE InTransaction(r) /\ req'[r].id = req[r].id
      BY <1>1, <2>1, <3>1 DEF HoldsRow
    <3>2. CASE req'[r].id >= nextId
      BY <1>1, <1>2, <3>2
    <3>3. CASE Free(req'[r].id, r)
      BY <1>1, <2>1, <3>3 DEF Free, Holds
    <3>. QED
      BY <2>4, <3>1, <3>2, <3>3
  <2>. QED
    BY <1>1, <2>1, <2>2, <2>3, <2>4 DEF HoldsRow, Same, Kept
<1>. QED
  BY <1>4, <1>6, <1>7

\* Enough for the request that moves: it stands outside the AN transaction with
\* nothing remembered, or moves on with the rows unchanged.
LEMMA LockInvByStep ==
    ASSUME LockInv, RowInv', NEW r \in Requests, Changes(r),
           Uncommitted(r)' => \/ Uncommitted(r) /\ req'[r].id = req[r].id
                              \/ req'[r].id >= nextId,
           InTransaction(r)' => \/ InTransaction(r) /\ req'[r].id = req[r].id
                                \/ req'[r].id >= nextId
                                \/ Free(req'[r].id, r),
           req'[r].sib < nextId,
           \A s \in Requests \ {r} : Uncommitted(s) => req[s].id # req'[r].sib,
           Uncommitted(r)' => req'[r].id # req'[r].sib,
           req'[r].op = "update" /\ req'[r].id \in DOMAIN rows' =>
              /\ req'[r].type = rows'[req'[r].id].type
              /\ req'[r].booking = rows'[req'[r].id].booking,
           req'[r].pc = "sibcas" /\ req'[r].sib \in DOMAIN rows' =>
              /\ rows'[req'[r].sib].type = "DO"
              /\ rows'[req'[r].sib].booking = req'[r].booking,
           InTransaction(r)' /\ req'[r].op = "update" =>
              /\ req'[r].id \in DOMAIN rows'
              /\ rows'[req'[r].id].version = req'[r].ver
              /\ \/ InTransaction(r) /\ req[r].op = "update"
                 \/ Free(req'[r].id, r)
    PROVE  LockInv'
<1>1. /\ \A s \in Requests \ {r} : req'[s] = req[s] /\ req[s] \in Request
      /\ nextId' >= nextId /\ nextId' \in Nat /\ nextId \in Nat
      /\ req'[r] \in Request
  BY DEF Changes, LockInv, RowInv, TypeInv, TypeOK
<1>2. \A s \in Requests \ {r} : KnowsRow(s)' /\ HoldsRow(s)'
  BY OthersKeepLockInv
<1>3. KnowsRow(r)'
  <2>1. req'[r].sib \in Nat
    BY <1>1 DEF Request
  <2>2. ASSUME NEW s \in Requests, Uncommitted(s)' PROVE req'[s].id # req'[r].sib
    BY <1>1, <2>2 DEF Uncommitted, InTransaction
  <2>. QED
    BY <1>1, <2>1, <2>2 DEF KnowsRow
<1>4. HoldsRow(r)'
  <2>. SUFFICES ASSUME InTransaction(r)', req'[r].op = "update",
                       NEW s \in Requests \ {r}, InTransaction(s)'
                PROVE  req'[s].id # req'[r].id
    BY DEF HoldsRow
  <2>1. req'[s] = req[s] /\ InTransaction(s)
    BY <1>1 DEF InTransaction
  <2>2. CASE Free(req'[r].id, r)
    BY <2>1, <2>2 DEF Free, Holds
  <2>3. CASE InTransaction(r) /\ req[r].op = "update" /\ ~Free(req'[r].id, r)
    <3>1. req'[r].id = req[r].id \/ req'[r].id >= nextId
      BY <2>3
    <3>2. req[s].id < nextId /\ req[s].id \in Nat /\ req'[r].id \in Nat
      BY <1>1 DEF LockInv, RowInv, IdsTaken, Request
    <3>. QED
      BY <1>1, <2>1, <2>3, <3>1, <3>2 DEF LockInv, HoldsRow
  <2>. QED
    BY <2>2, <2>3
<1>. QED
  BY <1>2, <1>3, <1>4 DEF LockInv

LEMMA LockInvByAnswer ==
    ASSUME LockInv, RowInv', NEW r \in Requests, Changes(r), Answer(r)
    PROVE  LockInv'
<1>1. req'[r] = Idle /\ nextId \in Nat \ {0}
  BY DEF Answer, LockInv, RowInv, TypeInv, TypeOK
<1>2. /\ Idle.pc = "idle" /\ Idle.op = "none" /\ Idle.sib = 0
      /\ ~InTransaction(r)' /\ ~Uncommitted(r)'
  BY <1>1 DEF Idle, InTransaction, Uncommitted
<1>3. \A s \in Requests \ {r} : Uncommitted(s) => req[s].id # 0
  BY DEF LockInv, RowInv, TypeInv, ControlOK, Uncommitted, InTransaction
<1>. QED
  BY <1>1, <1>2, <1>3, LockInvByStep

LEMMA LockInvBegins ==
    ASSUME LockInv, RowInv', NEW r \in Requests, Begin(r)
    PROVE  LockInv'
<1>1. /\ req \in [Requests -> Request] /\ nextId \in Nat \ {0}
      /\ \A i \in DOMAIN rows : i \in Nat
  BY DEF LockInv, RowInv, TypeInv, TypeOK
<1>2. UNCHANGED <<rows, nextId>> /\ \E q : Start(r, q)
  BY DEF Begin, BeginCreate, BeginUpdate, BeginLock, BeginUnlock, BeginDelete, Start
<1>3. \A s \in Requests \ {r} : req'[s] = req[s]
  BY <1>1, <1>2 DEF Start
<1>4. Changes(r)
  BY <1>1, <1>2, <1>3, QuietChanges
<1>5. \A s \in Requests \ {r} : Uncommitted(s) => req[s].id # 0
  BY DEF LockInv, RowInv, TypeInv, ControlOK, Uncommitted, InTransaction
<1>6. /\ req'[r].pc \notin {"sibling", "sibcas"} /\ req'[r].sib = 0
      /\ req'[r].op = "update" /\ req'[r].id \in DOMAIN rows =>
              /\ req'[r].type = rows[req'[r].id].type
              /\ req'[r].booking = rows[req'[r].id].booking
  <2>1. CASE BeginCreate(r)
    BY <1>1, <2>1 DEF BeginCreate, Start, Idle
  <2>2. CASE BeginUpdate(r)
    BY <1>1, <2>2 DEF BeginUpdate, Start, Idle
  <2>3. CASE BeginLock(r)
    BY <1>1, <2>3 DEF BeginLock, Start, Idle
  <2>4. CASE BeginUnlock(r)
    BY <1>1, <2>4 DEF BeginUnlock, Start, Idle
  <2>5. CASE BeginDelete(r)
    BY <1>1, <2>5 DEF BeginDelete, Start, Idle
  <2>. QED
    BY <2>1, <2>2, <2>3, <2>4, <2>5 DEF Begin
<1>7. ~InTransaction(r)' /\ ~Uncommitted(r)'
  BY <1>6 DEF InTransaction, Uncommitted
<1>. QED
  BY <1>1, <1>2, <1>4, <1>5, <1>6, <1>7, LockInvByStep

\* A request that goes on with the rows unchanged and opens no transaction.
LEMMA LockInvGoesOn ==
    ASSUME LockInv, RowInv', NEW r \in Requests, Changes(r), UNCHANGED rows,
           req'[r].op = req[r].op, req'[r].id = req[r].id, req'[r].sib = req[r].sib,
           req'[r].type = req[r].type, req'[r].booking = req[r].booking,
           req'[r].pc \notin {"sibling", "sibcas"}
    PROVE  LockInv'
<1>1. KnowsRow(r) /\ ~InTransaction(r)' /\ ~Uncommitted(r)'
  BY DEF LockInv, InTransaction, Uncommitted
<1>. QED
  BY <1>1, LockInvByStep DEF KnowsRow

LEMMA LockInvSteps ==
    ASSUME LockInv, RowInv', NEW r \in Requests, Step(r)
    PROVE  LockInv'
<1>. DEFINE q == req[r]
<1>1. Changes(r)
  BY StepChanges
<1>2. /\ req \in [Requests -> Request] /\ nextId \in Nat \ {0} /\ q \in Request
      /\ KnowsRow(r) /\ HoldsRow(r) /\ \A i \in DOMAIN rows : i \in Nat /\ i < nextId
      /\ q.sib \in Nat
  BY DEF LockInv, RowInv, TypeInv, TypeOK, IdsTaken, Request
<1>3. CASE Answer(r)
  BY <1>1, <1>3, LockInvByAnswer
<1>4. ASSUME NEW pc, pc \notin {"sibling", "sibcas"}, UNCHANGED rows, Goto(r, pc)
      PROVE  LockInv'
  <2>1. /\ req'[r] = [q EXCEPT !.pc = pc]
    BY <1>2, <1>4 DEF Goto
  <2>2. /\ req'[r].op = q.op /\ req'[r].id = q.id /\ req'[r].sib = q.sib
        /\ req'[r].type = q.type /\ req'[r].booking = q.booking /\ req'[r].pc = pc
    BY <1>2, <2>1 DEF Request
  <2>. QED
    BY <1>1, <1>4, <2>2, LockInvGoesOn
<1>5. CASE ReadAnCargo(r)
  <2>. DEFINE pc == IF q.op = "create" THEN "booking" ELSE "mutable"
  <2>1. PICK c : /\ req' = [req EXCEPT ![r].pc = pc, ![r].payload.cargo = c]
                 /\ UNCHANGED <<rows, nextId>>
    BY <1>5 DEF ReadAnCargo
  <2>4. pc \in {"booking", "mutable"}
    OBVIOUS
  <2>. HIDE DEF pc
  <2>2. req'[r] = [q EXCEPT !.pc = pc, !.payload.cargo = c]
    BY <1>2, <2>1
  <2>3. /\ req'[r].op = q.op /\ req'[r].id = q.id /\ req'[r].sib = q.sib
        /\ req'[r].type = q.type /\ req'[r].booking = q.booking /\ req'[r].pc = pc
    BY <1>2, <2>2 DEF Request
  <2>. QED
    BY <1>1, <2>1, <2>3, <2>4, LockInvGoesOn
<1>6. CASE CheckBooking(r) \/ CheckSlot(r) \/ CheckMutable(r) \/ CheckDeletable(r)
  BY <1>3, <1>4, <1>6 DEF CheckBooking, CheckSlot, CheckMutable, CheckDeletable, Reject
<1>7. CASE Insert(r)
  <2>1. CASE /\ nextId' = nextId + 1 /\ UNCHANGED rows
             /\ req' = [req EXCEPT ![r].pc = "sibling", ![r].id = nextId]
    <3>1. req'[r] = [q EXCEPT !.pc = "sibling", !.id = nextId]
      BY <1>2, <2>1
    <3>2. /\ req'[r].op = "create" /\ req'[r].id = nextId /\ req'[r].sib = q.sib
          /\ req'[r].pc = "sibling"
      BY <1>2, <1>7, <3>1 DEF Request, LockInv, RowInv, TypeInv, ControlOK, Insert
    <3>. QED
      BY <1>1, <1>2, <2>1, <3>2, LockInvByStep DEF KnowsRow
  <2>. QED
    BY <1>3, <1>7, <2>1 DEF Insert, Reject
<1>8. CASE Cas(r)
  <2>1. CASE /\ CasMatches(q.id, q.ver, q.op = "unlock") /\ q.op = "update"
             /\ Goto(r, "sibling") /\ UNCHANGED <<rows, nextId>>
    <3>1. req'[r] = [q EXCEPT !.pc = "sibling"]
      BY <1>2, <2>1 DEF Goto
    <3>2. /\ req'[r].op = "update" /\ req'[r].id = q.id /\ req'[r].sib = q.sib
          /\ req'[r].type = q.type /\ req'[r].booking = q.booking
          /\ req'[r].ver = q.ver /\ req'[r].pc = "sibling"
      BY <1>2, <2>1, <3>1 DEF Request
    <3>3. q.id \in DOMAIN rows /\ rows[q.id].version = q.ver /\ Free(q.id, r)
      BY <1>8, <2>1 DEF CasMatches, Cas
    <3>4. ~Uncommitted(r)'
      BY <3>2 DEF Uncommitted
    <3>. QED
      BY <1>1, <1>2, <2>1, <3>2, <3>3, <3>4, LockInvByStep DEF KnowsRow
  <2>. QED
    BY <1>3, <1>8, <2>1 DEF Cas, Reject, Commit
<1>9. CASE ReadSibling(r)
  <2>1. ASSUME NEW d \in ActiveChildren(q.booking, "DO"), UNCHANGED <<rows, nextId>>,
               req' = [req EXCEPT ![r].pc = "sibcas", ![r].sib = d,
                                  ![r].sibVer = rows[d].version]
        PROVE  LockInv'
    <3>1. req'[r] = [q EXCEPT !.pc = "sibcas", !.sib = d, !.sibVer = rows[d].version]
      BY <1>2, <2>1
    <3>2. /\ req'[r].op = q.op /\ req'[r].id = q.id /\ req'[r].sib = d
          /\ req'[r].type = q.type /\ req'[r].booking = q.booking
          /\ req'[r].ver = q.ver /\ req'[r].pc = "sibcas"
      BY <1>2, <3>1 DEF Request
    <3>3. InTransaction(r) /\ (Uncommitted(r)' => Uncommitted(r))
      BY <1>9, <3>2 DEF ReadSibling, InTransaction, Uncommitted
    <3>4. d \in DOMAIN rows /\ rows[d].type = "DO" /\ rows[d].booking = q.booking
      BY <2>1 DEF ActiveChildren
    <3>5. \A s \in Requests : Uncommitted(s) => req[s].id # d
      BY <3>4 DEF LockInv, RowInv, TransactionOK
    <3>. QED
      BY <1>1, <1>2, <2>1, <3>2, <3>3, <3>4, <3>5, LockInvByStep DEF KnowsRow, HoldsRow
  <2>. DEFINE do == ActiveChildren(q.booking, "DO")
              d == CHOOSE i \in do : TRUE
  <2>2. do # {} => d \in do
    OBVIOUS
  <2>. QED
    BY <1>3, <1>9, <2>1, <2>2 DEF ReadSibling, Reject, Commit
<1>10. CASE PatchSibling(r) \/ Remove(r)
  BY <1>3, <1>10 DEF PatchSibling, Remove, Reject, Commit
<1>. QED
  BY <1>5, <1>6, <1>7, <1>8, <1>9, <1>10 DEF Step

\* Every step of every request preserves LockInv.
THEOREM LockStep == LockInv /\ [Next]_vars => LockInv'
<1>. SUFFICES ASSUME LockInv, [Next]_vars PROVE LockInv'
  OBVIOUS
<1>1. RowInv'
  BY RowStep DEF LockInv
<1>2. CASE UNCHANGED vars
  BY <1>1, <1>2 DEF vars, LockInv, KnowsRow, HoldsRow, Uncommitted, InTransaction
<1>3. ASSUME NEW r \in Requests, Abort(r) PROVE LockInv'
  <2>1. /\ req \in [Requests -> Request] /\ nextId \in Nat
    BY DEF LockInv, RowInv, TypeInv, TypeOK
  <2>2. Answer(r) /\ UNCHANGED <<rows, nextId>>
    BY <1>3 DEF Abort, Reject
  <2>3. Changes(r)
    BY <2>1, <2>2, QuietChanges DEF Answer
  <2>. QED
    BY <1>1, <2>2, <2>3, LockInvByAnswer
<1>. QED
  BY <1>1, <1>2, <1>3, LockInvBegins, LockInvSteps DEF Next, Quiescent

\* The row locks an AN transaction holds do what they are for: the AN it read
\* is still there, at the version the client was shown, when it commits.
THEOREM LocksCorrect == Spec => []LockInv
<1>1. Init => LockInv
  <2>. SUFFICES ASSUME Init PROVE LockInv
    OBVIOUS
  <2>1. RowInv /\ nextId \in Nat \ {0} /\ \A r \in Requests : req[r] = Idle
    BY RowInit DEF Init, RowInv, TypeInv, TypeOK
  <2>. QED
    BY <2>1 DEF LockInv, KnowsRow, HoldsRow, Uncommitted, InTransaction, Idle
<1>. QED
  BY <1>1, LockStep, PTL DEF Spec

\* No lost update (casUpdate's version test, and the row lock that carries its
\* verdict to the end of the AN transaction).
THEOREM NoLostUpdateHolds == Spec => NoLostUpdate
<1>. DEFINE Overwrites ==
        \A r \in Requests : rows' # rows /\ req'[r].pc = "idle" =>
          /\ req[r].pc \in {"cas", "sibling", "sibcas"} /\ req[r].op # "create" =>
                rows[req[r].id].version = req[r].ver
          /\ req[r].pc = "sibcas" =>
                rows[req[r].sib].version = req[r].sibVer
<1>1. LockInv /\ [Next]_vars => [Overwrites]_vars
  <2>. SUFFICES ASSUME LockInv, Next, NEW r \in Requests, rows' # rows,
                       req'[r].pc = "idle", req[r].pc \in {"cas", "sibling", "sibcas"}
                PROVE  /\ req[r].op # "create" => rows[req[r].id].version = req[r].ver
                       /\ req[r].pc = "sibcas" => rows[req[r].sib].version = req[r].sibVer
    OBVIOUS
  <2>1. PICK s \in Requests : Step(s)
    BY DEF Next, Quiescent, vars, Abort, Reject, Begin, BeginCreate, BeginUpdate, BeginLock,
       BeginUnlock, BeginDelete, Start
  <2>2. s = r
    <3>1. Changes(s)
      BY <2>1, StepChanges
    <3>. QED
      BY <3>1 DEF Changes
  <2>3. /\ Cas(r) \/ ReadSibling(r) \/ PatchSibling(r)
        /\ req[r].op # "create" => req[r].op \in {"update", "lock", "unlock"}
        /\ HoldsRow(r)
        /\ InTransaction(r) => req[r].op \in {"create", "update"}
    <3>1. Cas(r) \/ ReadSibling(r) \/ PatchSibling(r)
      BY <2>1, <2>2 DEF Step, ReadAnCargo, CheckBooking, CheckSlot, Insert, CheckMutable,
         CheckDeletable, Remove
    <3>. QED
      BY <3>1 DEF LockInv, RowInv, TypeInv, ControlOK, InTransaction
  <2>4. CASE Cas(r)
    BY <2>3, <2>4 DEF Cas, CasMatches, Reject
  <2>5. CASE ReadSibling(r)
    BY <2>3, <2>5 DEF ReadSibling, InTransaction, HoldsRow
  <2>6. CASE PatchSibling(r)
    BY <2>3, <2>6 DEF PatchSibling, InTransaction, HoldsRow, CasMatches, Reject
  <2>. QED
    BY <2>3, <2>4, <2>5, <2>6
<1>. QED
  BY <1>1, LocksCorrect, PTL DEF Spec, NoLostUpdate

\* One row's committed change is one a lockable record allows.
LEMMA LockableRow ==
    ASSUME LockInv, LockInv', NEW r \in Requests, Changes(r),
           NEW i \in DOMAIN rows \cup DOMAIN rows'
    PROVE  Record(i)!RecordNext \/ UNCHANGED Record(i)!recordVars
<1>. DEFINE content == IF i \in DOMAIN rows THEN rows[i].payload ELSE Gone
            contentN == IF i \in DOMAIN rows' THEN rows'[i].payload ELSE Gone
            lock  == i \in DOMAIN rows /\ rows[i].locked
            lockN == i \in DOMAIN rows' /\ rows'[i].locked
            Finished == {p \in Payload : Complete(p)}
<1>1. /\ i \in DOMAIN rows  => rows[i] \in Row /\ rows[i].payload \in Payload
      /\ i \in DOMAIN rows' => rows'[i] \in Row /\ rows'[i].payload \in Payload
      /\ req[r] \in Request /\ req[r].payload \in Payload
  BY DEF LockInv, RowInv, TypeInv, TypeOK, Row, Request
<1>2. /\ i \in DOMAIN rows  => rows[i].locked \in BOOLEAN
      /\ i \in DOMAIN rows' => rows'[i].locked \in BOOLEAN
  BY <1>1 DEF Row
<1>3. CASE Same(i)
  BY <1>3 DEF Same, Kept, Record!recordVars
<1>4. CASE Adds(r, i)
  <2>1. ~rows'[i].locked
    BY <1>4 DEF Adds, NewRow
  <2>. QED
    BY <1>1, <1>4, <2>1 DEF Adds, Record!RecordNext, Record!Create
<1>5. CASE Drops(r, i)
  BY <1>1, <1>5, GoneAssumption DEF Drops, Record!RecordNext, Record!Delete
<1>6. ASSUME NEW p \in Payload, Kept(i), ~rows[i].locked, rows'[i] = Edited(rows[i], p)
      PROVE  Record(i)!Edit
  <2>1. rows'[i].payload = p /\ rows'[i].locked = rows[i].locked
    BY <1>1, <1>6 DEF Kept, Edited, Row
  <2>. QED
    BY <1>1, <1>6, <2>1, GoneAssumption DEF Kept, Record!Edit
<1>7. CASE Owns(r, i)
  <2>1. CASE req[r].op = "update"
    BY <1>1, <1>6, <1>7, <2>1 DEF Owns, Replaced, Record!RecordNext
  <2>2. CASE req[r].op = "lock"
    <3>1. /\ rows'[i].payload = rows[i].payload /\ rows'[i].locked = TRUE
          /\ ~rows[i].locked /\ Kept(i)
      BY <1>1, <1>7, <2>2 DEF Owns, Replaced, LockedRow, Row, Kept
    <3>2. Complete(rows'[i].payload)
      BY <3>1 DEF Kept, LockInv, RowInv, TablesOK, LockedIsComplete
    <3>. QED
      BY <1>1, <3>1, <3>2 DEF Kept, Record!RecordNext, Record!Lock
  <2>3. CASE req[r].op = "unlock"
    <3>1. /\ rows'[i].payload = rows[i].payload /\ rows'[i].locked = FALSE
          /\ rows[i].locked /\ Kept(i)
      BY <1>1, <1>7, <2>3 DEF Owns, Replaced, UnlockedRow, Row, Kept
    <3>. QED
      BY <3>1 DEF Kept, Record!RecordNext, Record!Unlock
  <2>. QED
    BY <1>7, <2>1, <2>2, <2>3 DEF Owns
<1>8. CASE Patches(r, i)
  <2>1. [rows[i].payload EXCEPT !.cargo = req[r].payload.cargo] \in Payload
    BY <1>1, <1>8 DEF Patches, Kept, Payload
  <2>. QED
    BY <1>6, <1>8, <2>1 DEF Patches, Record!RecordNext
<1>9. RowChange(r, i)
  BY DEF Changes
<1>. QED
  BY <1>3, <1>4, <1>5, <1>7, <1>8, <1>9 DEF RowChange

\* Every booking document is a lockable record (casUpdate's test of locked_at,
\* lock's of completeness, and the sibling patch that spares a locked DO).
THEOREM DocumentsAreLockableHolds == Spec => DocumentsAreLockable
<1>. DEFINE Lockable == \A i \in DOMAIN rows \cup DOMAIN rows' :
                            Record(i)!RecordNext \/ UNCHANGED Record(i)!recordVars
<1>1. LockInv /\ LockInv' /\ [Next]_vars => [Lockable]_vars
  <2>. SUFFICES ASSUME LockInv, LockInv', Next,
                       NEW i \in DOMAIN rows \cup DOMAIN rows'
                PROVE  Record(i)!RecordNext \/ UNCHANGED Record(i)!recordVars
    OBVIOUS
  <2>1. CASE UNCHANGED rows
    BY <2>1 DEF Record!recordVars
  <2>2. ASSUME NEW r \in Requests, Step(r)
        PROVE  Record(i)!RecordNext \/ UNCHANGED Record(i)!recordVars
    <3>1. Changes(r)
      BY <2>2, StepChanges
    <3>. QED
      BY <3>1, LockableRow
  <2>. QED
    BY <2>1, <2>2 DEF Next, Quiescent, vars, Abort, Reject, Begin, BeginCreate, BeginUpdate,
       BeginLock, BeginUnlock, BeginDelete, Start
<1>. QED
  BY <1>1, LocksCorrect, PTL DEF Spec, DocumentsAreLockable

-----------------------------------------------------------------------------
(***************************************************************************)
(* The cargo of AN and DO.  A DO created between the read of the AN and    *)
(* the insert can miss the AN's new cargo, so the theorem is about         *)
(* behaviours without creates.                                             *)
(***************************************************************************)
InLockstep(t) ==
    \A i, j \in DOMAIN t :
        /\ t[i].booking # NoBooking
        /\ t[i].booking = t[j].booking
        /\ t[i].type = "AN"
        /\ t[j].type = "DO"
        => t[i].payload.cargo = t[j].payload.cargo

\* A DO update carries the cargo of the AN, or a version token that is stale.
AnCargo(r) ==
    LET q == req[r] IN
    (/\ q.op = "update" /\ q.type = "DO" /\ q.booking # NoBooking
     /\ q.id \in DOMAIN rows)
    => /\ q.ver <= rows[q.id].version
       /\ (q.pc \in {"mutable", "cas"} /\ q.ver = rows[q.id].version) =>
             \A i \in ActiveChildren(q.booking, "AN") :
                rows[i].payload.cargo = q.payload.cargo

CargoInv == LockInv /\ CargoInLockstep /\ \A r \in Requests : AnCargo(r)

\* Without creates a step adds no row, and no row changes type or booking.
LEMMA NothingAdded ==
    ASSUME "create" \notin Kinds, LockInv, NEW r \in Requests, Changes(r),
           NEW i \in DOMAIN rows'
    PROVE  /\ i \in DOMAIN rows
           /\ rows'[i].type = rows[i].type /\ rows'[i].booking = rows[i].booking
           /\ Same(i) \/ Owns(r, i) \/ Patches(r, i)
<1>1. req[r].op # "create"
  BY DEF LockInv, RowInv, TypeInv, TypeOK, Request
<1>2. i \in DOMAIN rows /\ (Same(i) \/ Owns(r, i) \/ Patches(r, i))
  BY <1>1 DEF Changes, RowChange, Adds, Drops, Same, Owns, Patches, Kept
<1>3. i < nextId
  BY <1>2 DEF LockInv, RowInv, IdsTaken
<1>. QED
  BY <1>1, <1>2, <1>3, RowsNamed DEF Uncommitted

LEMMA RewrittenCargo ==
    ASSUME NEW row \in Row, NEW p \in Payload
    PROVE  /\ Edited(row, p).payload = p
           /\ LockedRow(row).payload = row.payload
           /\ UnlockedRow(row).payload = row.payload
           /\ Edited(row, p).version = row.version + 1
           /\ LockedRow(row).version = row.version + 1
           /\ UnlockedRow(row).version = row.version + 1
  BY DEF Edited, LockedRow, UnlockedRow, Row

LEMMA LockstepStep ==
    ASSUME "create" \notin Kinds, CargoInv, NEW r \in Requests, Step(r)
    PROVE  CargoInLockstep'
<1>. SUFFICES ASSUME NEW i \in DOMAIN rows', NEW j \in DOMAIN rows',
                     rows'[i].booking # NoBooking,
                     rows'[i].booking = rows'[j].booking,
                     rows'[i].type = "AN", rows'[j].type = "DO"
              PROVE  rows'[i].payload.cargo = rows'[j].payload.cargo
  BY DEF CargoInLockstep
<1>. DEFINE q == req[r]
<1>1. Changes(r) /\ LockInv
  BY StepChanges DEF CargoInv
<1>2. /\ i \in DOMAIN rows /\ rows[i].type = "AN" /\ rows[i].booking = rows[j].booking
      /\ j \in DOMAIN rows /\ rows[j].type = "DO" /\ rows[i].booking # NoBooking
      /\ rows[i].payload.cargo = rows[j].payload.cargo
  <2>1. /\ i \in DOMAIN rows /\ rows[i].type = "AN" /\ rows[i].booking = rows[j].booking
        /\ j \in DOMAIN rows /\ rows[j].type = "DO" /\ rows[i].booking # NoBooking
    BY <1>1, NothingAdded
  <2>. QED
    BY <2>1 DEF CargoInv, CargoInLockstep
<1>3. /\ q \in Request /\ q.op # "create" /\ q.payload \in Payload
      /\ rows[i] \in Row /\ rows[j] \in Row
      /\ KnowsRow(r) /\ HoldsRow(r) /\ AnCargo(r)
      /\ InTransaction(r) => q.op = "update" /\ q.type = "AN" /\ q.booking # NoBooking
  BY <1>2 DEF CargoInv, LockInv, RowInv, TypeInv, TypeOK, ControlOK, Request, InTransaction
<1>4. \A k \in ActiveChildren(rows[i].booking, "DO") : k = j
  BY <1>2 DEF LockInv, CargoInv, RowInv, TablesOK, OneActivePerType, ActiveChildren
<1>5. \A k \in ActiveChildren(rows[i].booking, "AN") : k = i
  BY <1>2 DEF LockInv, CargoInv, RowInv, TablesOK, OneActivePerType, ActiveChildren
<1>6. CASE UNCHANGED rows
  BY <1>2, <1>6
<1>7. CASE Cas(r) /\ Commit(r, OwnWrite(q, q.id))
  <2>1. /\ CasMatches(q.id, q.ver, q.op = "unlock") \/ UNCHANGED rows
        /\ ~InTransaction(r) /\ q.pc = "cas" /\ q.op \in {"update", "lock", "unlock"}
        /\ ~(q.op = "update" /\ q.type = "AN" /\ q.booking # NoBooking) \/ UNCHANGED rows
    BY <1>1, <1>7 DEF Cas, Reject, InTransaction, LockInv, RowInv, TypeInv, ControlOK
  <2>. SUFFICES ASSUME rows' # rows PROVE rows'[i].payload.cargo = rows'[j].payload.cargo
    BY <1>6
  <2>2. /\ q.id \in DOMAIN rows /\ rows[q.id].version = q.ver
        /\ rows' = OwnWrite(q, q.id)
    BY <1>7, <2>1 DEF CasMatches, Commit
  <2>3. \A k \in DOMAIN rows : k # q.id => rows'[k] = rows[k]
    BY <2>1, <2>2 DEF OwnWrite
  <2>4. CASE q.op = "update"
    <3>1. q.id # i
      BY <1>2, <1>3, <2>1, <2>2, <2>4 DEF KnowsRow
    <3>2. ASSUME q.id = j PROVE rows'[j].payload.cargo = rows[i].payload.cargo
      <4>1. q.type = "DO" /\ q.booking = rows[i].booking
        BY <1>2, <1>3, <2>2, <2>4, <3>2 DEF KnowsRow
      <4>2. rows[i].payload.cargo = q.payload.cargo
        BY <1>2, <1>3, <2>1, <2>2, <2>4, <4>1 DEF AnCargo, ActiveChildren
      <4>3. rows'[j] = Edited(rows[j], q.payload)
        BY <1>2, <2>2, <2>4, <3>2 DEF OwnWrite
      <4>. QED
        BY <1>3, <4>2, <4>3, RewrittenCargo
    <3>. QED
      BY <1>2, <2>3, <3>1, <3>2
  <2>5. CASE q.op \in {"lock", "unlock"}
    <3>1. \A k \in {i, j} : rows'[k] \in {rows[k], LockedRow(rows[k]), UnlockedRow(rows[k])}
      BY <1>2, <2>2, <2>5 DEF OwnWrite
    <3>2. \A k \in {i, j} : rows'[k].payload = rows[k].payload
      BY <1>3, <3>1, RewrittenCargo
    <3>. QED
      BY <1>2, <3>2
  <2>. QED
    BY <2>1, <2>4, <2>5
<1>8. ASSUME InTransaction(r)
      PROVE  /\ q.id \in DOMAIN rows /\ rows[q.id].type = "AN"
             /\ rows[q.id].booking = q.booking
             /\ q.id = i <=> q.booking = rows[i].booking
             /\ q.id # j
             /\ OwnWrite(q, q.id) = [rows EXCEPT ![q.id] = Edited(rows[q.id], q.payload)]
  <2>1. /\ q.id \in DOMAIN rows /\ rows[q.id].type = "AN" /\ rows[q.id].booking = q.booking
    BY <1>3, <1>8 DEF KnowsRow, HoldsRow
  <2>2. q.booking = rows[i].booking => q.id = i
    BY <1>5, <2>1 DEF ActiveChildren
  <2>. QED
    BY <1>2, <1>3, <1>8, <2>1, <2>2 DEF OwnWrite
<1>9. CASE ReadSibling(r) /\ Commit(r, OwnWrite(q, q.id))
  <2>1. InTransaction(r) /\ rows' = OwnWrite(q, q.id)
    BY <1>9 DEF ReadSibling, InTransaction, Commit
  <2>2. rows'[j] = rows[j] /\ (q.id # i => rows'[i] = rows[i])
    BY <1>2, <1>8, <2>1
  <2>3. CASE q.id = i
    <3>1. rows'[i] = Edited(rows[i], q.payload) /\ rows'[i].payload = q.payload
      BY <1>2, <1>3, <1>8, <2>1, <2>3, RewrittenCargo
    <3>2. rows' # rows
      <4>1. rows[i].version \in Nat /\ rows'[i].version = rows[i].version + 1
        BY <1>3, <3>1, RewrittenCargo DEF Row
      <4>. QED
        BY <4>1
    <3>3. j \in ActiveChildren(q.booking, "DO")
      BY <1>2, <1>8, <2>1, <2>3 DEF ActiveChildren
    <3>4. \A k \in ActiveChildren(q.booking, "DO") : k = j
      BY <1>4, <1>8, <2>1, <2>3
    <3>5. (CHOOSE k \in ActiveChildren(q.booking, "DO") : TRUE) = j
      BY <3>3, <3>4
    <3>6. rows[j].payload.cargo = q.payload.cargo
      BY <1>9, <3>2, <3>3, <3>5 DEF ReadSibling, Reject
    <3>. QED
      BY <2>2, <3>1, <3>6
  <2>. QED
    BY <1>2, <2>2, <2>3
<1>10. CASE PatchSibling(r) /\ Commit(r, PatchedSibling(q))
  <2>. SUFFICES ASSUME rows' # rows PROVE rows'[i].payload.cargo = rows'[j].payload.cargo
    BY <1>6
  <2>. DEFINE k == q.sib
  <2>1. /\ InTransaction(r) /\ rows' = PatchedSibling(q)
        /\ k \in DOMAIN rows /\ rows[k].type = "DO" /\ rows[k].booking = q.booking
    BY <1>3, <1>10 DEF PatchSibling, InTransaction, Commit, CasMatches, KnowsRow, Reject
  <2>2. k # i /\ k # q.id /\ (k = j <=> q.booking = rows[i].booking)
    BY <1>2, <1>4, <1>8, <2>1 DEF ActiveChildren
  <2>3. rows' = [[rows EXCEPT ![q.id] = Edited(rows[q.id], q.payload)] EXCEPT
                   ![k] = Edited(rows[k], [rows[k].payload EXCEPT !.cargo = q.payload.cargo])]
    BY <1>8, <2>1, <2>2 DEF PatchedSibling
  <2>4. CASE q.booking = rows[i].booking
    <3>1. rows'[i] = Edited(rows[i], q.payload)
      BY <1>2, <1>8, <2>1, <2>2, <2>3, <2>4
    <3>2. rows'[j] = Edited(rows[j], [rows[j].payload EXCEPT !.cargo = q.payload.cargo])
      BY <1>2, <2>1, <2>2, <2>3, <2>4
    <3>3. rows[j].payload \in Payload
      BY <1>3 DEF Row
    <3>4. /\ [rows[j].payload EXCEPT !.cargo = q.payload.cargo] \in Payload
          /\ [rows[j].payload EXCEPT !.cargo = q.payload.cargo].cargo = q.payload.cargo
      BY <1>3, <3>3 DEF Payload
    <3>. QED
      BY <1>3, <3>1, <3>2, <3>4, RewrittenCargo, ZenonT(40)
  <2>5. CASE q.booking # rows[i].booking
    <3>1. rows'[i] = rows[i] /\ rows'[j] = rows[j]
      BY <1>2, <1>8, <2>1, <2>2, <2>3, <2>5
    <3>. QED
      BY <1>2, <3>1
  <2>. QED
    BY <2>4, <2>5
<1>11. CASE Remove(r)
  <2>1. rows' = [k \in DOMAIN rows \ Removed(q.id) |-> rows[k]]
    BY <1>11 DEF Remove, Commit
  <2>2. rows'[i] = rows[i] /\ rows'[j] = rows[j]
    BY <2>1
  <2>. QED
    BY <1>2, <2>2
<1>12. CASE Insert(r)
  BY <1>3, <1>12 DEF Insert, LockInv, CargoInv, RowInv, TypeInv, ControlOK
<1>. QED
  BY <1>6, <1>7, <1>9, <1>10, <1>11, <1>12
  DEF Step, ReadAnCargo, CheckBooking, CheckSlot, CheckMutable, CheckDeletable, Cas,
      ReadSibling, PatchSibling, Reject, Goto

LEMMA OthersKeepAnCargo ==
    ASSUME "create" \notin Kinds, CargoInv, LockInv', CargoInLockstep', NEW r \in Requests,
           Changes(r), NEW s \in Requests \ {r}
    PROVE  AnCargo(s)'
<1>. DEFINE q == req[s]
            i == q.id
<1>1. req'[s] = q /\ LockInv /\ AnCargo(s) /\ q \in Request
  BY DEF Changes, CargoInv, LockInv, RowInv, TypeInv, TypeOK
<1>. SUFFICES ASSUME q.op = "update", q.type = "DO", q.booking # NoBooking,
                     i \in DOMAIN rows'
              PROVE  /\ q.ver <= rows'[i].version
                     /\ (q.pc \in {"mutable", "cas"} /\ q.ver = rows'[i].version) =>
                           \A k \in ActiveChildren(q.booking, "AN")' :
                              rows'[k].payload.cargo = q.payload.cargo
  BY <1>1 DEF AnCargo, ActiveChildren
<1>2. i \in DOMAIN rows /\ (Same(i) \/ Owns(r, i) \/ Patches(r, i))
  BY <1>1, NothingAdded
<1>3. /\ rows[i] \in Row /\ rows[i].version \in Nat /\ rows[i].payload \in Payload
      /\ q.ver <= rows[i].version /\ q.ver \in Nat
      /\ req[r].payload \in Payload
  <2>1. rows[i] \in Row /\ req[r] \in Request /\ q \in Request
    BY <1>1, <1>2 DEF LockInv, RowInv, TypeInv, TypeOK
  <2>. QED
    BY <1>1, <1>2, <2>1 DEF Row, Request, AnCargo
<1>4. Same(i) \/ rows'[i].version = rows[i].version + 1
  <2>1. Patches(r, i) => [rows[i].payload EXCEPT !.cargo = req[r].payload.cargo] \in Payload
    BY <1>3 DEF Payload
  <2>. QED
    BY <1>2, <1>3, <2>1, RewrittenCargo DEF Owns, Patches, Replaced
<1>5. q.ver <= rows'[i].version
  BY <1>2, <1>3, <1>4 DEF Same
<1>6. ASSUME q.pc \in {"mutable", "cas"}, q.ver = rows'[i].version,
             NEW k \in ActiveChildren(q.booking, "AN")'
      PROVE  rows'[k].payload.cargo = q.payload.cargo
  <2>1. rows'[i] = rows[i] /\ q.ver = rows[i].version
    BY <1>3, <1>4, <1>6 DEF Same
  <2>2. /\ k \in DOMAIN rows' /\ rows'[k].type = "AN" /\ rows'[k].booking = q.booking
    BY <1>1, <1>6 DEF ActiveChildren
  <2>3. rows'[i].type = "DO" /\ rows'[i].booking = q.booking
    BY <1>1 DEF LockInv, KnowsRow
  <2>4. rows'[k].payload.cargo = rows[i].payload.cargo
    BY <2>1, <2>2, <2>3 DEF CargoInLockstep
  <2>5. k \in DOMAIN rows /\ rows[k].type = "AN" /\ rows[k].booking = q.booking
    BY <1>1, <2>2, NothingAdded
  <2>6. rows[k].payload.cargo = rows[i].payload.cargo
    BY <1>2, <2>1, <2>3, <2>5 DEF CargoInv, CargoInLockstep
  <2>7. rows[k].payload.cargo = q.payload.cargo
    BY <1>1, <1>2, <1>6, <2>1, <2>5 DEF AnCargo, ActiveChildren
  <2>. QED
    BY <2>4, <2>6, <2>7
<1>. QED
  BY <1>5, <1>6

LEMMA OwnAnCargo ==
    ASSUME "create" \notin Kinds, CargoInv, LockInv', NEW r \in Requests,
           Begin(r) \/ Step(r) \/ Abort(r)
    PROVE  AnCargo(r)'
<1>. DEFINE q == req[r]
<1>1. /\ req \in [Requests -> Request] /\ q \in Request /\ AnCargo(r)
      /\ \A i \in DOMAIN rows : rows[i].version \in Nat
  BY DEF CargoInv, LockInv, RowInv, TypeInv, TypeOK, Row
<1>2. CASE Answer(r)
  BY <1>1, <1>2 DEF Answer, Idle, AnCargo
<1>3. ASSUME UNCHANGED rows, req'[r].op = q.op, req'[r].id = q.id, req'[r].ver = q.ver,
             req'[r].type = q.type, req'[r].booking = q.booking,
             \/ req'[r].pc \notin {"mutable", "cas"}
             \/ q.pc = "mutable" /\ req'[r].payload = q.payload
      PROVE  AnCargo(r)'
  BY <1>1, <1>3 DEF AnCargo, ActiveChildren
<1>4. ASSUME NEW pc, Goto(r, pc), UNCHANGED rows, pc \notin {"mutable", "cas"} \/ q.pc = "mutable"
      PROVE  AnCargo(r)'
  <2>1. req'[r] = [q EXCEPT !.pc = pc]
    BY <1>1, <1>4 DEF Goto
  <2>2. /\ req'[r].op = q.op /\ req'[r].id = q.id /\ req'[r].ver = q.ver
        /\ req'[r].type = q.type /\ req'[r].booking = q.booking /\ req'[r].pc = pc
        /\ req'[r].payload = q.payload
    BY <1>1, <2>1 DEF Request
  <2>. QED
    BY <1>3, <1>4, <2>2
<1>5. CASE Begin(r)
  <2>1. CASE BeginCreate(r)
    BY <2>1 DEF BeginCreate
  <2>2. CASE BeginUpdate(r)
    <3>1. PICK i \in DOMAIN rows, p \in Payload :
            Start(r, [Idle EXCEPT
            !.pc = IF rows[i].type = "DO" /\ rows[i].booking # NoBooking
                   THEN "anRead" ELSE "mutable",
            !.op = "update", !.type = rows[i].type, !.booking = rows[i].booking,
            !.id = i, !.ver = rows[i].version, !.payload = p])
      BY <2>2 DEF BeginUpdate
    <3>2. /\ UNCHANGED rows /\ req'[r].id = i /\ req'[r].ver = rows[i].version
          /\ req'[r].type = rows[i].type /\ req'[r].booking = rows[i].booking
          /\ req'[r].pc = IF rows[i].type = "DO" /\ rows[i].booking # NoBooking
                          THEN "anRead" ELSE "mutable"
      BY <1>1, <3>1 DEF Start, Idle
    <3>. QED
      BY <1>1, <3>2 DEF AnCargo
  <2>3. CASE BeginLock(r)
    BY <1>1, <2>3 DEF BeginLock, Start, Idle, AnCargo
  <2>4. CASE BeginUnlock(r)
    BY <1>1, <2>4 DEF BeginUnlock, Start, Idle, AnCargo
  <2>5. CASE BeginDelete(r)
    BY <1>1, <2>5 DEF BeginDelete, Start, Idle, AnCargo
  <2>. QED
    BY <1>5, <2>1, <2>2, <2>3, <2>4, <2>5 DEF Begin
<1>6. CASE ReadAnCargo(r)
  <2>. DEFINE an == ActiveChildren(q.booking, "AN")
              c == IF an = {} THEN q.payload.cargo
                   ELSE rows[CHOOSE i \in an : TRUE].payload.cargo
  <2>1. PICK pc : req' = [req EXCEPT ![r].pc = pc, ![r].payload.cargo = c]
    BY <1>6 DEF ReadAnCargo
  <2>2. UNCHANGED rows
    BY <1>6 DEF ReadAnCargo
  <2>. HIDE DEF c
  <2>3. req'[r] = [q EXCEPT !.pc = pc, !.payload.cargo = c]
    BY <1>1, <2>1
  <2>4. /\ req'[r].op = q.op /\ req'[r].id = q.id /\ req'[r].ver = q.ver
        /\ req'[r].type = q.type /\ req'[r].booking = q.booking
        /\ req'[r].payload = [q.payload EXCEPT !.cargo = c]
    BY <1>1, <2>3 DEF Request
  <2>5. req'[r].payload.cargo = c
    BY <1>1, <2>4 DEF Request, Payload
  <2>6. ASSUME NEW i \in an, q.booking # NoBooking PROVE rows[i].payload.cargo = c
    <3>1. \A j \in an : j = i
      BY <2>6 DEF CargoInv, LockInv, RowInv, TablesOK, OneActivePerType, ActiveChildren
    <3>2. (CHOOSE j \in an : TRUE) = i
      BY <3>1
    <3>3. c = rows[CHOOSE j \in an : TRUE].payload.cargo
      BY <2>6 DEF c
    <3>. QED
      BY <3>2, <3>3
  <2>. QED
    BY <1>1, <2>2, <2>4, <2>5, <2>6 DEF AnCargo, ActiveChildren
<1>7. CASE ReadSibling(r)
  <2>. SUFFICES ASSUME UNCHANGED rows, NEW d,
                       req' = [req EXCEPT ![r].pc = "sibcas", ![r].sib = d,
                                          ![r].sibVer = rows[d].version]
                PROVE  AnCargo(r)'
    BY <1>2, <1>7 DEF ReadSibling, Reject, Commit
  <2>1. req'[r] = [q EXCEPT !.pc = "sibcas", !.sib = d, !.sibVer = rows[d].version]
    BY <1>1
  <2>2. /\ req'[r].op = q.op /\ req'[r].id = q.id /\ req'[r].ver = q.ver
        /\ req'[r].type = q.type /\ req'[r].booking = q.booking /\ req'[r].pc = "sibcas"
    BY <1>1, <2>1 DEF Request
  <2>. QED
    BY <1>3, <2>2
<1>8. ~Insert(r)
  BY <1>1 DEF Insert, CargoInv, LockInv, RowInv, TypeInv, ControlOK, Request
<1>9. CASE CheckBooking(r) \/ CheckSlot(r) \/ CheckMutable(r) \/ Cas(r) \/ PatchSibling(r)
           \/ CheckDeletable(r) \/ Remove(r) \/ Abort(r)
  BY <1>2, <1>4, <1>9 DEF CheckBooking, CheckSlot, CheckMutable, Cas, PatchSibling,
     CheckDeletable, Remove, Abort, Reject, Commit
<1>. QED
  BY <1>5, <1>6, <1>7, <1>8, <1>9 DEF Step

\* Staff who edit, lock and delete keep the DO's cargo that of its AN
\* (overwriteDoCargoFromAn and patchSiblingDoCargoFromAn), if it was so.
THEOREM CargoInLockstepHolds ==
    ASSUME "create" \notin Kinds, \A t \in StartRows : InLockstep(t)
    PROVE  Spec => []CargoInLockstep
<1>1. Init => CargoInv
  <2>. SUFFICES ASSUME Init PROVE CargoInv
    OBVIOUS
  <2>1. RowInv /\ nextId \in Nat \ {0} /\ \A r \in Requests : req[r] = Idle
    BY RowInit DEF Init, RowInv, TypeInv, TypeOK
  <2>2. LockInv
    BY <2>1 DEF LockInv, KnowsRow, HoldsRow, Uncommitted, InTransaction, Idle
  <2>3. CargoInLockstep
    BY DEF Init, InLockstep, CargoInLockstep
  <2>. QED
    BY <2>1, <2>2, <2>3 DEF CargoInv, AnCargo, Idle
<1>2. CargoInv /\ [Next]_vars => CargoInv'
  <2>. SUFFICES ASSUME CargoInv, [Next]_vars PROVE CargoInv'
    OBVIOUS
  <2>1. LockInv'
    BY LockStep DEF CargoInv
  <2>2. CASE UNCHANGED vars
    BY <2>1, <2>2 DEF vars, CargoInv, CargoInLockstep, AnCargo, ActiveChildren
  <2>3. ASSUME NEW r \in Requests, Begin(r) \/ Step(r) \/ Abort(r) PROVE CargoInv'
    <3>1. /\ req \in [Requests -> Request] /\ nextId \in Nat /\ LockInv
      BY DEF CargoInv, LockInv, RowInv, TypeInv, TypeOK
    <3>2. Begin(r) \/ Abort(r) => UNCHANGED <<rows, nextId>>
      BY DEF Begin, BeginCreate, BeginUpdate, BeginLock, BeginUnlock, BeginDelete, Start,
         Abort, Reject
    <3>3. Begin(r) \/ Abort(r) => \A s \in Requests \ {r} : req'[s] = req[s]
      BY <3>1 DEF Begin, BeginCreate, BeginUpdate, BeginLock, BeginUnlock, BeginDelete, Start,
         Abort, Reject, Answer
    <3>4. Changes(r)
      BY <2>3, <3>1, <3>2, <3>3, StepChanges, QuietChanges
    <3>5. CargoInLockstep'
      <4>1. CASE Step(r)
        BY <4>1, LockstepStep
      <4>2. CASE UNCHANGED rows
        BY <4>2 DEF CargoInv, CargoInLockstep
      <4>. QED
        BY <2>3, <3>2, <4>1, <4>2
    <3>. QED
      BY <2>1, <2>3, <3>4, <3>5, OthersKeepAnCargo, OwnAnCargo DEF CargoInv
  <2>. QED
    BY <2>2, <2>3 DEF Next, Quiescent
<1>3. CargoInv => CargoInLockstep
  BY DEF CargoInv
<1>. QED
  BY <1>1, <1>2, <1>3, PTL DEF Spec
=============================================================================
