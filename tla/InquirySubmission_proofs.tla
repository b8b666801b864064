----------------------- MODULE InquirySubmission_proofs -----------------------
(***************************************************************************)
(* Proofs about InquirySubmission for any number of requests and any       *)
(* faults: types, codes, answers.                                          *)
(***************************************************************************)
EXTENDS InquirySubmission, TLAPS

LEMMA IdleType == Idle \in Request
BY DEF Idle, Request, PCs

LEMMA GotoType ==
    ASSUME NEW r \in Requests, NEW pc \in PCs,
           req \in [Requests -> Request], Goto(r, pc)
    PROVE  req' \in [Requests -> Request]
BY DEF Goto, Request

LEMMA TwoFields ==
    ASSUME NEW r \in Requests, NEW pc \in PCs, NEW n \in Nat,
           req \in [Requests -> Request]
    PROVE  /\ [req EXCEPT ![r].pc = pc, ![r].id = n] \in [Requests -> Request]
           /\ [req EXCEPT ![r].pc = pc, ![r].number = n] \in [Requests -> Request]
<1> DEFINE f == [req EXCEPT ![r].pc = pc]
<1>1. f \in [Requests -> Request]
  BY DEF Request
<1>2. /\ [f EXCEPT ![r].id = n] \in [Requests -> Request]
      /\ [f EXCEPT ![r].number = n] \in [Requests -> Request]
  <2> HIDE DEF f
  <2>1. QED
    BY <1>1 DEF Request
<1>3. QED
  BY <1>2

LEMMA AnswerType ==
    ASSUME NEW r \in Requests, req \in [Requests -> Request], Answer(r)
    PROVE  req' \in [Requests -> Request]
BY IdleType DEF Answer

LEMMA FailedType ==
    ASSUME NEW r \in Requests, req \in [Requests -> Request], Failed(r)
    PROVE  req' \in [Requests -> Request]
<1>1. "abandon" \in PCs
  BY DEF PCs
<1>2. QED
  BY <1>1, GotoType, AnswerType DEF Failed

LEMMA ReleasedType ==
    ASSUME NEW r \in Requests, locker \in Requests \cup {NoRequest}, Released(r)
    PROVE  locker' \in Requests \cup {NoRequest}
BY DEF Released

LEMMA FreshType == Fresh \in Claim0
BY DEF Fresh, Claim0

\* Every table, request and counter keeps its type.
THEOREM TypeCorrect == Spec => []TypeOK
<1>1. Init => TypeOK
  BY IdleType, BoundAssumption DEF Init, TypeOK, Ids
<1>2. TypeOK /\ [Next]_vars => TypeOK'
  <2> SUFFICES ASSUME TypeOK, [Next]_vars PROVE TypeOK'
    OBVIOUS
  <2> USE BoundAssumption, NullAssumption, ClaimAssumption, IdleType
      DEF TypeOK, Ids
  <2>1. CASE UNCHANGED vars
    BY <2>1 DEF vars
  <2>2. ASSUME NEW r \in Requests, Begin(r) PROVE TypeOK'
    <3>1. PICK keyed, files \in BOOLEAN :
            req' = [req EXCEPT ![r] = Received(keyed, files)]
      BY <2>2 DEF Begin
    <3>2. Received(keyed, files) \in Request
      <4>1. Answered \in BOOLEAN
        BY DEF Answered
      <4>2. QED
        BY <4>1 DEF Received, Request, PCs
    <3>3. QED
      BY <2>2, <3>1, <3>2 DEF Begin
  <2>3. ASSUME NEW r \in Requests, Claim(r) PROVE TypeOK'
    <3>1. req' \in [Requests -> Request]
      BY <2>3, GotoType DEF Claim, PCs
    <3>2. claim' \in Claim0 \cup {NoClaim}
      BY <2>3, FreshType DEF Claim
    <3>3. QED
      BY <2>3, <3>1, <3>2 DEF Claim
  <2>4. ASSUME NEW r \in Requests, Lookup(r) PROVE TypeOK'
    <3>1. req' \in [Requests -> Request]
      BY <2>4, GotoType, AnswerType DEF Lookup, PCs
    <3>2. QED
      BY <2>4, <3>1 DEF Lookup
  <2>5. ASSUME NEW r \in Requests, Reclaim(r) PROVE TypeOK'
    <3>1. req' \in [Requests -> Request]
      BY <2>5, GotoType, AnswerType DEF Reclaim, PCs
    <3>2. claim' \in Claim0 \cup {NoClaim}
      BY <2>5, FreshType DEF Reclaim
    <3>3. QED
      BY <2>5, <3>1, <3>2 DEF Reclaim
  <2>6. ASSUME NEW r \in Requests, Lock(r) PROVE TypeOK'
    <3>1. req' \in [Requests -> Request]
      BY <2>6, GotoType DEF Lock, PCs
    <3>2. QED
      BY <2>6, <3>1 DEF Lock
  <2>7. ASSUME NEW r \in Requests, Number(r) PROVE TypeOK'
    <3>1. PICK n \in 1..nextId :
            req' = [req EXCEPT ![r].pc = "insert", ![r].number = n]
      BY <2>7 DEF Number
    <3>2. n \in Nat
      OBVIOUS
    <3>3. req' \in [Requests -> Request]
      BY <3>1, <3>2, TwoFields DEF PCs
    <3>4. QED
      BY <2>7, <3>3 DEF Number
  <2>8. ASSUME NEW r \in Requests, Insert(r) PROVE TypeOK'
    <3>1. nextId' \in Ids /\ locker' \in Requests \cup {NoRequest}
      BY <2>8, ReleasedType DEF Insert
    <3>2. CASE req[r].number \in Codes
      BY <2>8, <3>1, <3>2, FailedType DEF Insert
    <3>3. CASE req[r].number \notin Codes
      <4>1. req' = [req EXCEPT ![r].pc = AfterInsert(req[r]), ![r].id = nextId]
        BY <2>8, <3>3 DEF Insert
      <4>2. req' \in [Requests -> Request]
        BY <4>1, TwoFields DEF AfterInsert, PCs
      <4>3. DOMAIN inquiries' \subseteq Ids /\ accepted' \subseteq Nat
        BY <2>8, <3>3 DEF Insert
      <4>4. \A i \in DOMAIN inquiries' : inquiries'[i] \in Nat
        BY <2>8, <3>3 DEF Insert, Request
      <4>5. QED
        BY <2>8, <3>1, <4>2, <4>3, <4>4 DEF Insert
    <3>4. QED
      BY <3>2, <3>3
  <2>9. ASSUME NEW r \in Requests, Attach(r) PROVE TypeOK'
    <3>1. req' \in [Requests -> Request]
      BY <2>9, GotoType DEF Attach, PCs
    <3>2. QED
      BY <2>9, <3>1 DEF Attach
  <2>10. ASSUME NEW r \in Requests, Compensate(r) PROVE TypeOK'
    <3>1. req' \in [Requests -> Request]
      BY <2>10, FailedType DEF Compensate
    <3>2. req[r].id \in Nat
      BY DEF Request
    <3>3. /\ DOMAIN inquiries' \subseteq Ids
          /\ \A i \in DOMAIN inquiries' : inquiries'[i] \in Nat
      BY <2>10 DEF Compensate, Without
    <3>4. undone' \subseteq Nat /\ accepted' \subseteq Nat
      BY <2>10, <3>2 DEF Compensate
    <3>5. QED
      BY <2>10, <3>1, <3>3, <3>4 DEF Compensate
  <2>11. ASSUME NEW r \in Requests, Complete(r) PROVE TypeOK'
    <3>1. req' \in [Requests -> Request]
      BY <2>11, AnswerType DEF Complete
    <3>2. claim' \in Claim0 \cup {NoClaim}
      BY <2>11 DEF Complete, Claim0, Request
    <3>3. QED
      BY <2>11, <3>1, <3>2 DEF Complete
  <2>12. ASSUME NEW r \in Requests, Abandon(r) PROVE TypeOK'
    <3>1. req' \in [Requests -> Request]
      BY <2>12, AnswerType DEF Abandon
    <3>2. QED
      BY <2>12, <3>1 DEF Abandon
  <2>13. ASSUME NEW r \in Requests, Reject(r) PROVE TypeOK'
    <3>1. req' \in [Requests -> Request]
      BY <2>13, FailedType DEF Reject
    <3>2. QED
      BY <2>13, <3>1, ReleasedType DEF Reject
  <2>14. ASSUME NEW r \in Requests, Crash(r) PROVE TypeOK'
    <3>1. req' \in [Requests -> Request]
      BY <2>14, AnswerType DEF Crash
    <3>2. QED
      BY <2>14, <3>1, ReleasedType DEF Crash
  <2>15. ASSUME NEW i \in DOMAIN inquiries, Delete(i) PROVE TypeOK'
    BY <2>15 DEF Delete, Without
  <2>16. CASE Age
    BY <2>16 DEF Age, Claim0
  <2>17. CASE Quiescent
    BY <2>17 DEF Quiescent, vars
  <2>18. QED
    BY <2>1, <2>2, <2>3, <2>4, <2>5, <2>6, <2>7, <2>8, <2>9, <2>10, <2>11,
       <2>12, <2>13, <2>14, <2>15, <2>16, <2>17 DEF Next, Step
<1>3. QED
  BY <1>1, <1>2, PTL DEF Spec

-----------------------------------------------------------------------------
(* The code allocator                                                      *)

\* The advisory lock belongs to the transaction that is allocating.
LockInv == \A r \in Requests : req[r].pc \in {"number", "insert"} => locker = r

\* A number allocated to the holder of the lock exceeds every code in use.
NumberInv ==
    \A r \in Requests : req[r].pc = "insert" => \A c \in Codes : c < req[r].number

\* Ids come from the sequence, and no two inquiries share a code.
CodeInv ==
    /\ \A i \in DOMAIN inquiries : i < nextId
    /\ \A i, j \in DOMAIN inquiries : inquiries[i] = inquiries[j] => i = j

AllocInv == LockInv /\ NumberInv /\ CodeInv

\* A step that leaves the codes alone and starts no allocation.
LEMMA NoAllocation ==
    ASSUME TypeOK, TypeOK', AllocInv, UNCHANGED <<inquiries, nextId>>,
           NEW r \in Requests, locker' = locker \/ Released(r),
           \A s \in Requests \ {r} : req'[s] = req[s],
           req'[r].pc \notin {"number", "insert"}
    PROVE  AllocInv'
<1>1. LockInv'
  BY DEF AllocInv, LockInv, Released
<1>2. NumberInv'
  BY DEF AllocInv, NumberInv, Codes
<1>3. CodeInv'
  BY DEF AllocInv, CodeInv
<1>4. QED
  BY <1>1, <1>2, <1>3 DEF AllocInv

\* What moving on, answering and failing do to the requests.
LEMMA Moved ==
    ASSUME TypeOK, NEW r \in Requests
    PROVE  /\ \A pc : Goto(r, pc) => /\ req'[r].pc = pc
                                     /\ req'[r].id = req[r].id
                                     /\ req'[r].keyed = req[r].keyed
                                     /\ req'[r].late = req[r].late
           /\ \A pc : Goto(r, pc) => \A s \in Requests \ {r} : req'[s] = req[s]
           /\ Answer(r) => /\ req'[r] = Idle
                           /\ \A s \in Requests \ {r} : req'[s] = req[s]
BY DEF TypeOK, Request, Goto, Answer

LEMMA MovedOn ==
    ASSUME TypeOK, NEW r \in Requests,
           Answer(r) \/ \E pc \in PCs \ {"number", "insert"} : Goto(r, pc)
    PROVE  /\ \A s \in Requests \ {r} : req'[s] = req[s]
           /\ req'[r].pc \notin {"number", "insert"}
<1>1. CASE Answer(r)
  <2>1. req'[r] = Idle /\ \A s \in Requests \ {r} : req'[s] = req[s]
    BY <1>1, Moved
  <2>2. Idle.pc = "idle"
    BY DEF Idle
  <2>3. QED
    BY <2>1, <2>2
<1>2. CASE \E pc \in PCs \ {"number", "insert"} : Goto(r, pc)
  BY <1>2, Moved
<1>3. QED
  BY <1>1, <1>2

LEMMA FailedMoves ==
    ASSUME TypeOK, NEW r \in Requests, Failed(r)
    PROVE  /\ \A s \in Requests \ {r} : req'[s] = req[s]
           /\ req'[r].pc \in {"abandon", "idle"}
           /\ req'[r].late = req[r].late \/ req'[r].late = FALSE
<1>1. CASE req[r].keyed
  BY <1>1, Moved DEF Failed
<1>2. CASE ~req[r].keyed
  <2>1. Answer(r)
    BY <1>2 DEF Failed
  <2>2. req'[r] = Idle /\ \A s \in Requests \ {r} : req'[s] = req[s]
    BY <2>1, Moved
  <2>3. Idle.pc = "idle" /\ Idle.late = FALSE
    BY DEF Idle
  <2>4. QED
    BY <2>2, <2>3
<1>3. QED
  BY <1>1, <1>2

LEMMA AllocStep == TypeOK /\ TypeOK' /\ AllocInv /\ [Next]_vars => AllocInv'
<1> SUFFICES ASSUME TypeOK, TypeOK', AllocInv, [Next]_vars PROVE AllocInv'
  OBVIOUS
<1>1. CASE UNCHANGED vars
  BY <1>1 DEF vars, AllocInv, LockInv, NumberInv, CodeInv, Codes
<1>2. ASSUME NEW r \in Requests, Begin(r) PROVE AllocInv'
  <2>1. PICK keyed, files \in BOOLEAN :
          req' = [req EXCEPT ![r] = Received(keyed, files)]
    BY <1>2 DEF Begin
  <2>2. /\ \A s \in Requests \ {r} : req'[s] = req[s]
        /\ req'[r].pc \notin {"number", "insert"}
    BY <2>1 DEF Received, TypeOK
  <2>3. QED
    BY <1>2, <2>2, NoAllocation DEF Begin
<1>3. ASSUME NEW r \in Requests, Claim(r) PROVE AllocInv'
  <2>1. Answer(r) \/ \E pc \in PCs \ {"number", "insert"} : Goto(r, pc)
    BY <1>3 DEF Claim, PCs
  <2>2. QED
    BY <1>3, <2>1, MovedOn, NoAllocation DEF Claim
<1>4. ASSUME NEW r \in Requests, Lookup(r) PROVE AllocInv'
  <2>1. Answer(r) \/ \E pc \in PCs \ {"number", "insert"} : Goto(r, pc)
    BY <1>4 DEF Lookup, PCs
  <2>2. QED
    BY <1>4, <2>1, MovedOn, NoAllocation DEF Lookup
<1>5. ASSUME NEW r \in Requests, Reclaim(r) PROVE AllocInv'
  <2>1. Answer(r) \/ \E pc \in PCs \ {"number", "insert"} : Goto(r, pc)
    BY <1>5 DEF Reclaim, PCs
  <2>2. QED
    BY <1>5, <2>1, MovedOn, NoAllocation DEF Reclaim
<1>6. ASSUME NEW r \in Requests, Lock(r) PROVE AllocInv'
  <2>1. /\ req'[r].pc = "number" /\ locker' = r
        /\ \A s \in Requests \ {r} : req'[s] = req[s]
    BY <1>6, Moved DEF Lock
  <2>2. \A s \in Requests : req[s].pc \notin {"number", "insert"}
    BY <1>6, NullAssumption DEF Lock, AllocInv, LockInv
  <2>3. LockInv'
    BY <2>1, <2>2 DEF LockInv
  <2>4. NumberInv'
    BY <2>1, <2>2 DEF NumberInv
  <2>5. CodeInv'
    BY <1>6 DEF Lock, AllocInv, CodeInv
  <2>6. QED
    BY <2>3, <2>4, <2>5 DEF AllocInv
<1>7. ASSUME NEW r \in Requests, Number(r) PROVE AllocInv'
  <2>1. PICK n \in 1..nextId :
          IsNext(n) /\ req' = [req EXCEPT ![r].pc = "insert", ![r].number = n]
    BY <1>7 DEF Number
  <2>2. /\ req'[r].pc = "insert" /\ req'[r].number = n
        /\ \A s \in Requests \ {r} : req'[s] = req[s]
    BY <2>1 DEF TypeOK, Request
  <2>3. LockInv'
    BY <1>7, <2>2 DEF Number, AllocInv, LockInv
  <2>4. Codes' = Codes
    BY <1>7 DEF Number, Codes
  <2>5. NumberInv'
    BY <2>1, <2>2, <2>4 DEF IsNext, AllocInv, NumberInv
  <2>6. CodeInv'
    BY <1>7 DEF Number, AllocInv, CodeInv
  <2>7. QED
    BY <2>3, <2>5, <2>6 DEF AllocInv
<1>8. ASSUME NEW r \in Requests, Insert(r) PROVE AllocInv'
  <2>0. req[r].number \in Nat
    BY DEF TypeOK, Request
  <2>1. req[r].pc = "insert" /\ locker = r /\ req[r].number \notin Codes
    BY <1>8, <2>0 DEF Insert, AllocInv, LockInv, NumberInv
  <2>2. req' = [req EXCEPT ![r].pc = AfterInsert(req[r]), ![r].id = nextId]
    BY <1>8, <2>1 DEF Insert
  <2>3. /\ req'[r].pc \in {"attach", "complete"}
        /\ \A s \in Requests \ {r} : req'[s] = req[s]
    BY <2>2 DEF TypeOK, Request, AfterInsert
  <2>4. \A s \in Requests : req'[s].pc \notin {"number", "insert"}
    BY <2>1, <2>3 DEF AllocInv, LockInv
  <2>5. LockInv' /\ NumberInv'
    BY <2>4 DEF LockInv, NumberInv
  <2>6. /\ DOMAIN inquiries' = DOMAIN inquiries \cup {nextId}
        /\ \A i \in DOMAIN inquiries' :
             inquiries'[i] = IF i = nextId THEN req[r].number ELSE inquiries[i]
    BY <1>8, <2>1 DEF Insert
  <2>7. \A i \in DOMAIN inquiries : inquiries[i] \in Codes
    BY DEF Codes
  <2>8. \A i \in DOMAIN inquiries : i < nextId /\ i \in Nat /\ nextId \in Nat
    BY DEF AllocInv, CodeInv, TypeOK, Ids
  <2>9. \A i \in DOMAIN inquiries' : i < nextId'
    BY <1>8, <2>6, <2>8 DEF Insert, TypeOK, Ids
  <2>10. \A i, j \in DOMAIN inquiries' : inquiries'[i] = inquiries'[j] => i = j
    BY <2>1, <2>6, <2>7, <2>8 DEF AllocInv, CodeInv
  <2>11. QED
    BY <2>5, <2>9, <2>10 DEF AllocInv, CodeInv
<1>9. ASSUME NEW r \in Requests, Attach(r) PROVE AllocInv'
  <2>1. Answer(r) \/ \E pc \in PCs \ {"number", "insert"} : Goto(r, pc)
    BY <1>9 DEF Attach, PCs
  <2>2. QED
    BY <1>9, <2>1, MovedOn, NoAllocation DEF Attach
<1>10. ASSUME NEW r \in Requests, Compensate(r) PROVE AllocInv'
  <2>1. /\ \A s \in Requests \ {r} : req'[s] = req[s]
        /\ req'[r].pc \notin {"number", "insert"}
    BY <1>10, FailedMoves DEF Compensate
  <2>2. LockInv'
    BY <1>10, <2>1 DEF Compensate, AllocInv, LockInv
  <2>3. /\ nextId' = nextId /\ DOMAIN inquiries' \subseteq DOMAIN inquiries
        /\ \A i \in DOMAIN inquiries' : inquiries'[i] = inquiries[i]
    BY <1>10 DEF Compensate, Without
  <2>4. Codes' \subseteq Codes
    BY <2>3 DEF Codes
  <2>5. NumberInv'
    BY <2>1, <2>4 DEF AllocInv, NumberInv
  <2>6. CodeInv'
    BY <2>3 DEF AllocInv, CodeInv
  <2>7. QED
    BY <2>2, <2>5, <2>6 DEF AllocInv
<1>11. ASSUME NEW r \in Requests, Complete(r) PROVE AllocInv'
  <2>1. Answer(r) \/ \E pc \in PCs \ {"number", "insert"} : Goto(r, pc)
    BY <1>11 DEF Complete, PCs
  <2>2. QED
    BY <1>11, <2>1, MovedOn, NoAllocation DEF Complete
<1>12. ASSUME NEW r \in Requests, Abandon(r) PROVE AllocInv'
  <2>1. Answer(r) \/ \E pc \in PCs \ {"number", "insert"} : Goto(r, pc)
    BY <1>12 DEF Abandon, PCs
  <2>2. QED
    BY <1>12, <2>1, MovedOn, NoAllocation DEF Abandon
<1>13. ASSUME NEW r \in Requests, Reject(r) PROVE AllocInv'
  BY <1>13, FailedMoves, NoAllocation DEF Reject
<1>14. ASSUME NEW r \in Requests, Crash(r) PROVE AllocInv'
  <2>1. Answer(r) \/ \E pc \in PCs \ {"number", "insert"} : Goto(r, pc)
    BY <1>14 DEF Crash, PCs
  <2>2. QED
    BY <1>14, <2>1, MovedOn, NoAllocation DEF Crash
<1>15. ASSUME NEW i \in DOMAIN inquiries, Delete(i) PROVE AllocInv'
  <2>1. /\ UNCHANGED <<nextId, locker, req>>
        /\ DOMAIN inquiries' \subseteq DOMAIN inquiries
        /\ \A j \in DOMAIN inquiries' : inquiries'[j] = inquiries[j]
    BY <1>15 DEF Delete, Without
  <2>2. Codes' \subseteq Codes
    BY <2>1 DEF Codes
  <2>3. QED
    BY <2>1, <2>2 DEF AllocInv, LockInv, NumberInv, CodeInv
<1>16. CASE Age
  BY <1>16 DEF Age, AllocInv, LockInv, NumberInv, CodeInv, Codes
<1>17. CASE Quiescent
  BY <1>17 DEF Quiescent, vars, AllocInv, LockInv, NumberInv, CodeInv, Codes
<1>18. QED
  BY <1>1, <1>2, <1>3, <1>4, <1>5, <1>6, <1>7, <1>8, <1>9, <1>10, <1>11,
     <1>12, <1>13, <1>14, <1>15, <1>16, <1>17 DEF Next, Step

\* The inductive invariant of the allocation: one transaction at a time is
\* between the advisory lock and its end, and what it read still holds.
THEOREM AllocCorrect == Spec => []AllocInv
<1>1. Init => AllocInv
  BY DEF Init, Idle, AllocInv, LockInv, NumberInv, CodeInv
<1>2. QED
  BY <1>1, TypeCorrect, AllocStep, PTL DEF Spec

\* However many submissions run at once, the number a transaction allocated is
\* still free when it inserts.
THEOREM AllocatedCodeIsFreeHolds == Spec => []AllocatedCodeIsFree
<1>1. TypeOK /\ AllocInv => AllocatedCodeIsFree
  BY DEF AllocInv, NumberInv, AllocatedCodeIsFree, Codes, TypeOK
<1>2. QED
  BY <1>1, TypeCorrect, AllocCorrect, PTL

-----------------------------------------------------------------------------
(* The answers of the key                                                  *)

Owns(r) == req[r].pc \in {"attach", "compensate", "complete"}

\* An inquiry somebody still works on was not compensated for, is nobody
\* else's, and is not the stored answer.
AnswerInv ==
    /\ \A r \in Requests : Owns(r) =>
         req[r].id # 0 /\ req[r].id < nextId /\ req[r].id \notin undone
    /\ \A r, s \in Requests : Owns(r) /\ Owns(s) /\ req[r].id = req[s].id => r = s
    /\ Answered => /\ claim.answer < nextId /\ claim.answer \notin undone
                   /\ \A r \in Requests : Owns(r) => req[r].id # claim.answer
    /\ \A i \in undone : i < nextId

\* A step that stores no answer and takes up or undoes no inquiry.
LEMMA NoNewAnswer ==
    ASSUME AnswerInv, UNCHANGED <<nextId, undone>>,
           Answered' => Answered /\ claim'.answer = claim.answer,
           \A s \in Requests : Owns(s)' => Owns(s) /\ req'[s].id = req[s].id
    PROVE  AnswerInv'
BY DEF AnswerInv

LEMMA OwnsKept ==
    ASSUME TypeOK, NEW r \in Requests,
           \/ Answer(r) \/ Failed(r)
           \/ \E pc \in PCs : Goto(r, pc) /\ (pc \in {"attach", "compensate", "complete"}
                                               => Owns(r))
    PROVE  \A s \in Requests : Owns(s)' => Owns(s) /\ req'[s].id = req[s].id
<1>1. CASE Answer(r)
  <2>1. /\ req'[r] = Idle
        /\ \A s \in Requests \ {r} : req'[s] = req[s]
    BY <1>1, Moved
  <2>2. Idle.pc = "idle"
    BY DEF Idle
  <2>3. QED
    BY <2>1, <2>2 DEF Owns
<1>2. CASE Failed(r)
  BY <1>2, FailedMoves DEF Owns
<1>3. ASSUME NEW pc \in PCs, Goto(r, pc),
             pc \in {"attach", "compensate", "complete"} => Owns(r)
      PROVE  \A s \in Requests : Owns(s)' => Owns(s) /\ req'[s].id = req[s].id
  BY <1>3, Moved DEF Owns
<1>4. QED
  BY <1>1, <1>2, <1>3

LEMMA AnswerStep == TypeOK /\ AllocInv /\ AnswerInv /\ [Next]_vars => AnswerInv'
<1> SUFFICES ASSUME TypeOK, AllocInv, AnswerInv, [Next]_vars PROVE AnswerInv'
  OBVIOUS
<1>1. CASE UNCHANGED vars
  BY <1>1, NoNewAnswer DEF vars, Answered, Owns
<1>2. ASSUME NEW r \in Requests, Begin(r) PROVE AnswerInv'
  <2>1. PICK keyed, files \in BOOLEAN :
          req' = [req EXCEPT ![r] = Received(keyed, files)]
    BY <1>2 DEF Begin
  <2>2. \A s \in Requests : Owns(s)' => Owns(s) /\ req'[s].id = req[s].id
    BY <2>1 DEF Received, TypeOK, Owns
  <2>3. QED
    BY <1>2, <2>2, NoNewAnswer DEF Begin, Answered
<1>3. ASSUME NEW r \in Requests, Claim(r) PROVE AnswerInv'
  <2>1. \A s \in Requests : Owns(s)' => Owns(s) /\ req'[s].id = req[s].id
    BY <1>3, OwnsKept DEF Claim, PCs
  <2>2. QED
    BY <1>3, <2>1, NoNewAnswer DEF Claim, Fresh, Answered
<1>4. ASSUME NEW r \in Requests, Lookup(r) PROVE AnswerInv'
  <2>1. \A s \in Requests : Owns(s)' => Owns(s) /\ req'[s].id = req[s].id
    BY <1>4, OwnsKept DEF Lookup, PCs
  <2>2. QED
    BY <1>4, <2>1, NoNewAnswer DEF Lookup, Answered
<1>5. ASSUME NEW r \in Requests, Reclaim(r) PROVE AnswerInv'
  <2>1. \A s \in Requests : Owns(s)' => Owns(s) /\ req'[s].id = req[s].id
    BY <1>5, OwnsKept DEF Reclaim, PCs
  <2>2. QED
    BY <1>5, <2>1, NoNewAnswer DEF Reclaim, Reclaimable, Fresh, Answered
<1>6. ASSUME NEW r \in Requests, Lock(r) PROVE AnswerInv'
  <2>1. \A s \in Requests : Owns(s)' => Owns(s) /\ req'[s].id = req[s].id
    BY <1>6, OwnsKept DEF Lock, PCs
  <2>2. QED
    BY <1>6, <2>1, NoNewAnswer DEF Lock, Answered
<1>7. ASSUME NEW r \in Requests, Number(r) PROVE AnswerInv'
  <2>1. \A s \in Requests : Owns(s)' => Owns(s) /\ req'[s].id = req[s].id
    BY <1>7 DEF Number, TypeOK, Request, Owns
  <2>2. QED
    BY <1>7, <2>1, NoNewAnswer DEF Number, Answered
<1>8. ASSUME NEW r \in Requests, Insert(r) PROVE AnswerInv'
  <2>1. nextId \in Nat \ {0} /\ nextId' = nextId + 1
    BY <1>8 DEF Insert, TypeOK, Ids
  <2>2. CASE req[r].number \in Codes
    <3>1. \A s \in Requests : Owns(s)' => Owns(s) /\ req'[s].id = req[s].id
      BY <1>8, <2>2, OwnsKept DEF Insert
    <3>2. QED
      BY <1>8, <2>1, <3>1 DEF Insert, AnswerInv, Answered, TypeOK, Request, Claim0
  <2>3. CASE req[r].number \notin Codes
    <3>1. req' = [req EXCEPT ![r].pc = AfterInsert(req[r]), ![r].id = nextId]
      BY <1>8, <2>3 DEF Insert
    <3>2. req'[r].id = nextId /\ \A s \in Requests \ {r} : req'[s] = req[s]
      BY <3>1 DEF TypeOK, Request
    <3>3. \A s \in Requests \ {r} : Owns(s)' = Owns(s)
      BY <3>2 DEF Owns
    <3>4. UNCHANGED <<claim, undone>>
      BY <1>8 DEF Insert
    <3>5. /\ \A s \in Requests : req[s].id \in Nat
          /\ undone \subseteq Nat
          /\ Answered => claim.answer \in Nat
      BY DEF TypeOK, Request, Answered, Claim0
    <3>6. Answered' = Answered
      BY <3>4 DEF Answered
    <3>7. \A s \in Requests : (Owns(s) => req[s].id < nextId) /\ req'[s].id \in Nat
      BY <2>1, <3>2, <3>5 DEF AnswerInv
    <3>8. \A i \in undone : i < nextId
      BY DEF AnswerInv
    <3>9. \A s \in Requests : Owns(s)' =>
            req'[s].id # 0 /\ req'[s].id < nextId' /\ req'[s].id \notin undone'
      <4>1. nextId # 0 /\ nextId < nextId' /\ nextId \notin undone'
        BY <2>1, <3>4, <3>5, <3>8
      <4>2. \A s \in Requests \ {r} : Owns(s)' =>
              req'[s].id # 0 /\ req'[s].id < nextId' /\ req'[s].id \notin undone'
        BY <2>1, <3>2, <3>3, <3>4, <3>5 DEF AnswerInv
      <4>3. QED
        BY <3>2, <4>1, <4>2
    <3>10. \A s, t \in Requests :
             Owns(s)' /\ Owns(t)' /\ req'[s].id = req'[t].id => s = t
      <4>1. \A s \in Requests \ {r} : Owns(s)' => req'[s].id # nextId
        BY <2>1, <3>2, <3>3, <3>5, <3>7
      <4>2. \A s, t \in Requests \ {r} :
              Owns(s)' /\ Owns(t)' /\ req'[s].id = req'[t].id => s = t
        BY <3>2, <3>3 DEF AnswerInv
      <4>3. QED
        BY <3>2, <4>1, <4>2
    <3>11. Answered' => /\ claim'.answer < nextId' /\ claim'.answer \notin undone'
                        /\ \A s \in Requests : Owns(s)' => req'[s].id # claim'.answer
      <4>1. Answered => claim.answer < nextId /\ claim.answer \notin undone
                        /\ \A s \in Requests : Owns(s) => req[s].id # claim.answer
        BY DEF AnswerInv
      <4>2. Answered => claim.answer < nextId' /\ claim.answer # nextId
        BY <2>1, <3>5, <4>1
      <4>3. QED
        BY <3>2, <3>3, <3>4, <3>6, <4>1, <4>2
    <3>12. \A i \in undone' : i < nextId'
      BY <2>1, <3>4, <3>5, <3>8
    <3>13. QED
      BY <3>9, <3>10, <3>11, <3>12 DEF AnswerInv
  <2>4. QED
    BY <2>2, <2>3
<1>9. ASSUME NEW r \in Requests, Attach(r) PROVE AnswerInv'
  <2>1. \A s \in Requests : Owns(s)' => Owns(s) /\ req'[s].id = req[s].id
    BY <1>9, OwnsKept DEF Attach, PCs, Owns
  <2>2. QED
    BY <1>9, <2>1, NoNewAnswer DEF Attach, Answered
<1>10. ASSUME NEW r \in Requests, Compensate(r) PROVE AnswerInv'
  <2>1. /\ \A s \in Requests \ {r} : req'[s] = req[s]
        /\ ~Owns(r)' /\ Owns(r)
    BY <1>10, FailedMoves DEF Compensate, Owns
  <2>2. /\ UNCHANGED <<claim, nextId>>
        /\ undone' \subseteq undone \cup {req[r].id}
    BY <1>10 DEF Compensate
  <2>3. \A s \in Requests : Owns(s)' => s # r /\ Owns(s) /\ req'[s] = req[s]
    BY <2>1 DEF Owns
  <2>4. QED
    BY <2>1, <2>2, <2>3 DEF AnswerInv, Answered
<1>11. ASSUME NEW r \in Requests, Complete(r) PROVE AnswerInv'
  <2>1. /\ \A s \in Requests \ {r} : req'[s] = req[s]
        /\ ~Owns(r)' /\ Owns(r)
    <3>1. Answer(r) /\ req[r].pc = "complete"
      BY <1>11 DEF Complete
    <3>2. /\ req'[r] = Idle
          /\ \A s \in Requests \ {r} : req'[s] = req[s]
      BY <3>1, Moved
    <3>3. Idle.pc = "idle"
      BY DEF Idle
    <3>4. QED
      BY <3>1, <3>2, <3>3 DEF Owns
  <2>2. \A s \in Requests : Owns(s)' => s # r /\ Owns(s) /\ req'[s] = req[s]
    BY <2>1 DEF Owns
  <2>3. /\ UNCHANGED <<nextId, undone>>
        /\ Answered' => \/ claim'.answer = req[r].id
                        \/ Answered /\ claim' = claim
    BY <1>11 DEF Complete, Answered, TypeOK, Claim0
  <2>4. QED
    BY <2>1, <2>2, <2>3 DEF AnswerInv
<1>12. ASSUME NEW r \in Requests, Abandon(r) PROVE AnswerInv'
  <2>1. \A s \in Requests : Owns(s)' => Owns(s) /\ req'[s].id = req[s].id
    BY <1>12, OwnsKept DEF Abandon
  <2>2. QED
    BY <1>12, <2>1, NoNewAnswer DEF Abandon, Answered
<1>13. ASSUME NEW r \in Requests, Reject(r) PROVE AnswerInv'
  <2>1. \A s \in Requests : Owns(s)' => Owns(s) /\ req'[s].id = req[s].id
    BY <1>13, OwnsKept DEF Reject
  <2>2. QED
    BY <1>13, <2>1, NoNewAnswer DEF Reject, Answered
<1>14. ASSUME NEW r \in Requests, Crash(r) PROVE AnswerInv'
  <2>1. \A s \in Requests : Owns(s)' => Owns(s) /\ req'[s].id = req[s].id
    BY <1>14, OwnsKept DEF Crash
  <2>2. QED
    BY <1>14, <2>1, NoNewAnswer DEF Crash, Answered
<1>15. ASSUME NEW i \in DOMAIN inquiries, Delete(i) PROVE AnswerInv'
  BY <1>15, NoNewAnswer DEF Delete, Answered, Owns
<1>16. CASE Age
  BY <1>16, NoNewAnswer DEF Age, Answered, Owns, TypeOK, Claim0
<1>17. CASE Quiescent
  BY <1>17, NoNewAnswer DEF Quiescent, vars, Answered, Owns
<1>18. QED
  BY <1>1, <1>2, <1>3, <1>4, <1>5, <1>6, <1>7, <1>8, <1>9, <1>10, <1>11,
     <1>12, <1>13, <1>14, <1>15, <1>16, <1>17 DEF Next, Step

\* The inductive invariant of the answers: requests work on inquiries of their
\* own, which nobody compensated for and which are not yet a stored answer.
THEOREM AnswersCorrect == Spec => []AnswerInv
<1>1. Init => AnswerInv
  BY DEF Init, Idle, AnswerInv, Owns, Answered
<1>2. QED
  BY <1>1, TypeCorrect, AllocCorrect, AnswerStep, PTL DEF Spec

\* The answer stored for a key never names an inquiry that was compensated for,
\* whichever of several requests with the key stored it.
THEOREM AnswerNamesKeptInquiryHolds == Spec => []AnswerNamesKeptInquiry
<1>1. AnswerInv => AnswerNamesKeptInquiry
  BY DEF AnswerInv, AnswerNamesKeptInquiry
<1>2. QED
  BY <1>1, AnswersCorrect, PTL

LEMMA AnswerKept ==
    TypeOK /\ AnswerInv /\ [Next]_vars /\ Answered => Answered'
<1> SUFFICES ASSUME TypeOK, AnswerInv, [Next]_vars, Answered PROVE Answered'
  OBVIOUS
<1>1. ASSUME NEW r \in Requests, Complete(r) PROVE Answered'
  <2>1. Owns(r) /\ req[r].id # 0
    BY <1>1 DEF Complete, Owns, AnswerInv
  <2>2. CASE claim' = claim
    BY <2>2 DEF Answered
  <2>3. CASE claim' = [claim EXCEPT !.answer = req[r].id]
    <3>1. claim \in Claim0 /\ req[r].id \in Nat
      BY DEF TypeOK, Answered, Request
    <3>2. claim' \in Claim0 /\ claim'.answer = req[r].id
      BY <2>3, <3>1 DEF Claim0
    <3>3. QED
      BY <2>1, <3>2, ClaimAssumption DEF Answered
  <2>4. QED
    BY <1>1, <2>2, <2>3 DEF Complete
<1>2. CASE Age
  <2>1. claim \in Claim0 /\ claim' = [claim EXCEPT !.stale = TRUE]
    BY <1>2 DEF Age, TypeOK, Answered
  <2>2. claim' \in Claim0 /\ claim'.answer = claim.answer
    BY <2>1 DEF Claim0
  <2>3. QED
    BY <2>2, ClaimAssumption DEF Answered
<1>3. CASE ~Age /\ \A r \in Requests : ~Complete(r)
  <2>1. claim' = claim
    BY <1>3 DEF Next, Step, Begin, Claim, Lookup, Reclaim, Reclaimable, Lock, Number,
       Insert, Attach, Compensate, Abandon, Abandonable, Reject, Crash, Delete,
       Quiescent, vars, Answered
  <2>2. QED
    BY <2>1 DEF Answered
<1>4. QED
  BY <1>1, <1>2, <1>3

\* Neither a failing request with the key nor the reclaim removes a stored answer.
THEOREM AnswerStaysHolds == Spec => AnswerStays
<1>1. TypeOK /\ AnswerInv /\ [Next]_vars
        => [Answered => claim' # NoClaim /\ claim'.answer # 0]_vars
  BY AnswerKept DEF Answered
<1>2. QED
  BY <1>1, TypeCorrect, AnswersCorrect, PTL DEF Spec, AnswerStays

-----------------------------------------------------------------------------
(* A retry of an answered key                                              *)

\* What late promises: the answer is there, and the request has not passed it.
LateInv == \A r \in Requests : req[r].late =>
             Answered /\ req[r].pc \in {"claim", "lookup"}

\* A step of a request that is past the claim, or that ends there.
LEMMA NotLate ==
    ASSUME TypeOK, LateInv, Answered => Answered', NEW r \in Requests,
           req[r].pc \notin {"claim", "lookup"},
           \/ Answer(r) \/ Failed(r) \/ \E pc \in PCs : Goto(r, pc)
    PROVE  LateInv'
<1>1. ~req[r].late
  BY DEF LateInv
<1>2. /\ ~req'[r].late
      /\ \A s \in Requests \ {r} : req'[s] = req[s]
  <2>1. CASE Answer(r)
    <3>1. /\ req'[r] = Idle
          /\ \A s \in Requests \ {r} : req'[s] = req[s]
      BY <2>1, Moved
    <3>2. Idle.late = FALSE
      BY DEF Idle
    <3>3. QED
      BY <3>1, <3>2
  <2>2. CASE Failed(r)
    BY <1>1, <2>2, FailedMoves
  <2>3. CASE \E pc \in PCs : Goto(r, pc)
    BY <1>1, <2>3, Moved
  <2>4. QED
    BY <2>1, <2>2, <2>3
<1>3. QED
  BY <1>2 DEF LateInv

LEMMA LateStep == TypeOK /\ AnswerInv /\ LateInv /\ [Next]_vars => LateInv'
<1> SUFFICES ASSUME TypeOK, AnswerInv, LateInv, [Next]_vars PROVE LateInv'
  OBVIOUS
<1>1. Answered => Answered'
  BY AnswerKept
<1>2. CASE UNCHANGED req
  BY <1>1, <1>2 DEF LateInv
<1>3. ASSUME NEW r \in Requests, Begin(r) PROVE LateInv'
  <2>1. PICK keyed, files \in BOOLEAN :
          req' = [req EXCEPT ![r] = Received(keyed, files)]
    BY <1>3 DEF Begin
  <2>2. /\ req'[r] = Received(keyed, files)
        /\ \A s \in Requests \ {r} : req'[s] = req[s]
    BY <2>1 DEF TypeOK
  <2>3. req'[r].late => Answered /\ req'[r].pc = "claim"
    <3>1. req'[r].late = (keyed /\ Answered)
      BY <2>2 DEF Received
    <3>2. req'[r].pc = IF keyed THEN "claim" ELSE "lock"
      BY <2>2 DEF Received
    <3>3. QED
      BY <3>1, <3>2
  <2>4. QED
    BY <1>1, <2>2, <2>3 DEF LateInv
<1>4. ASSUME NEW r \in Requests, Claim(r) PROVE LateInv'
  <2>1. CASE claim = NoClaim
    <3>1. Goto(r, "lock") /\ ~req[r].late
      BY <1>4, <2>1 DEF Claim, LateInv, Answered
    <3>2. ~req'[r].late /\ \A s \in Requests \ {r} : req'[s] = req[s]
      BY <3>1, Moved
    <3>3. QED
      BY <1>1, <3>2 DEF LateInv
  <2>2. CASE claim # NoClaim
    <3>1. Goto(r, "lookup")
      BY <1>4, <2>2 DEF Claim
    <3>2. /\ req'[r].pc = "lookup" /\ req'[r].late = req[r].late
          /\ \A s \in Requests \ {r} : req'[s] = req[s]
      BY <3>1, Moved
    <3>3. QED
      BY <1>1, <3>2 DEF LateInv
  <2>3. QED
    BY <2>1, <2>2
<1>5. ASSUME NEW r \in Requests, Lookup(r) PROVE LateInv'
  <2>1. CASE Answer(r)
    <3>1. req'[r] = Idle /\ \A s \in Requests \ {r} : req'[s] = req[s]
      BY <2>1, Moved
    <3>2. Idle.late = FALSE
      BY DEF Idle
    <3>3. QED
      BY <1>1, <3>1, <3>2 DEF LateInv
  <2>2. CASE ~Answered /\ Goto(r, "reclaim")
    <3>1. ~req'[r].late /\ \A s \in Requests \ {r} : req'[s] = req[s]
      BY <2>2, Moved DEF LateInv
    <3>2. QED
      BY <1>1, <3>1 DEF LateInv
  <2>3. QED
    BY <1>5, <2>1, <2>2 DEF Lookup
<1>6. ASSUME NEW r \in Requests, Number(r) PROVE LateInv'
  <2>1. ~req'[r].late /\ \A s \in Requests \ {r} : req'[s] = req[s]
    BY <1>6 DEF Number, TypeOK, Request, LateInv
  <2>2. QED
    BY <1>1, <2>1 DEF LateInv
<1>7. ASSUME NEW r \in Requests, Insert(r) PROVE LateInv'
  <2>1. req[r].pc = "insert"
    BY <1>7 DEF Insert
  <2>2. CASE Failed(r)
    BY <1>1, <2>1, <2>2, NotLate
  <2>3. CASE req' = [req EXCEPT ![r].pc = AfterInsert(req[r]), ![r].id = nextId]
    <3>1. ~req'[r].late /\ \A s \in Requests \ {r} : req'[s] = req[s]
      BY <2>1, <2>3 DEF TypeOK, Request, LateInv
    <3>2. QED
      BY <1>1, <3>1 DEF LateInv
  <2>4. QED
    BY <1>7, <2>2, <2>3 DEF Insert
<1>8. ASSUME NEW r \in Requests,
             \/ Reclaim(r) \/ Lock(r) \/ Attach(r) \/ Compensate(r)
             \/ Complete(r) \/ Abandon(r) \/ Reject(r)
      PROVE  LateInv'
  <2>1. req[r].pc \notin {"claim", "lookup"}
    BY <1>8 DEF Reclaim, Lock, Attach, Compensate, Complete, Abandon, Reject
  <2>2. Answer(r) \/ Failed(r) \/ \E pc \in PCs : Goto(r, pc)
    BY <1>8 DEF Reclaim, Lock, Attach, Compensate, Complete, Abandon, Reject, PCs
  <2>3. QED
    BY <1>1, <2>1, <2>2, NotLate
<1>9. ASSUME NEW r \in Requests, Crash(r) PROVE LateInv'
  <2>1. req'[r] = Idle /\ \A s \in Requests \ {r} : req'[s] = req[s]
    BY <1>9, Moved DEF Crash
  <2>2. Idle.late = FALSE
    BY DEF Idle
  <2>3. QED
    BY <1>1, <2>1, <2>2 DEF LateInv
<1>10. CASE (\E i \in DOMAIN inquiries : Delete(i)) \/ Age \/ Quiescent
  BY <1>2, <1>10 DEF Delete, Age, Quiescent, vars
<1>11. QED
  BY <1>2, <1>3, <1>4, <1>5, <1>6, <1>7, <1>8, <1>9, <1>10 DEF Next, Step, vars

\* A retry of a key that was answered before it arrived gets that answer: it
\* never reaches the statements that would create a second inquiry.
THEOREM AnsweredKeyCreatesNothingHolds == Spec => []AnsweredKeyCreatesNothing
<1>1. Init => LateInv
  BY DEF Init, Idle, LateInv
<1>2. LateInv => AnsweredKeyCreatesNothing
  BY DEF LateInv, AnsweredKeyCreatesNothing
<1>3. QED
  BY <1>1, <1>2, TypeCorrect, AnswersCorrect, LateStep, PTL DEF Spec
=============================================================================
