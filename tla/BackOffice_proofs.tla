---------------------------- MODULE BackOffice_proofs ----------------------------
(***************************************************************************)
(* Proofs about the parts of the back office: the customer ids of partners, *)
(* the pages of cargo and the cargo field of the printed documents, and the *)
(* files in the object store.                                               *)
(***************************************************************************)
EXTENDS BackOffice, FiniteSetTheorems, TLAPS

-----------------------------------------------------------------------------
(***************************************************************************)
(* Booking partners, for any number of operations, any ids of other systems *)
(* and any number of partners.                                              *)
(***************************************************************************)

CreationPCs == {"taken", "reserve", "insert"}
Creation == [pc : CreationPCs, bulk : BOOLEAN, given : SUBSET (LegacyIds \cup used),
             autos : Nat, ids : SUBSET Int, end : Int, reads : BOOLEAN]

OpType(o) ==
  /\ "pc" \in DOMAIN o
  /\ o.pc \in CreationPCs => o \in Creation
  /\ o.pc \in {"taken", "reserve"} => o.ids = {}

\* A creation that keeps the row of the sequence locked.
Reserving(o) == o.pc = "insert" /\ o.ids # {}

\* The block a creation has reserved follows the committed sequence, and no
\* other creation has one; the sequence is never behind an id that was used.
SequenceInv ==
  /\ sequence \in Nat
  /\ used \subseteq Int /\ \A id \in used : id <= sequence
  /\ op = [e \in Editors |-> op[e]]
  /\ \A e \in Editors : OpType(op[e])
  /\ \A e \in Editors : Reserving(op[e]) =>
       /\ op[e].ids = (sequence + 1) .. op[e].end /\ sequence <= op[e].end
       /\ \A o \in Editors : Reserving(op[o]) => o = e

LEMMA LegacyIdsAreOlder ==
  ASSUME NEW id \in LegacyIds, NEW n \in Nat PROVE id \in Int /\ id <= n
BY PartnerAssumption

\* A step of one operation that reserves nothing.
LEMMA OtherStep ==
  ASSUME SequenceInv, NEW e \in Editors, NEW o, op' = [op EXCEPT ![e] = o],
         OpType(o), ~Reserving(o), sequence' = sequence, used' = used
  PROVE  SequenceInv'
<1> USE DEF SequenceInv
<1>1. /\ op' = [x \in Editors |-> op'[x]] /\ op'[e] = o
      /\ \A x \in Editors : x # e => op'[x] = op[x]
  OBVIOUS
<1>2. ASSUME NEW x \in Editors PROVE OpType(op[x])'
  <2>1. OpType(op'[x])
    BY <1>1
  <2>2. QED
    BY <2>1 DEF OpType, Creation
<1>3. ASSUME NEW x \in Editors, Reserving(op'[x])
      PROVE  /\ op'[x].ids = (sequence' + 1) .. op'[x].end
             /\ sequence' <= op'[x].end
             /\ \A y \in Editors : Reserving(op'[y]) => y = x
  BY <1>1, <1>3
<1>4. QED
  BY <1>1, <1>2, <1>3 DEF Reserving

\* The history grows by nothing or by what a creation has inserted; what it
\* was given stays legitimate.
LEMMA CloseInv ==
  ASSUME SequenceInv, NEW e \in Editors, Close(e), sequence' = sequence,
         used' = used
  PROVE  SequenceInv'
<1>1. OpType(NotEditing) /\ ~Reserving(NotEditing)
  BY DEF OpType, NotEditing, CreationPCs, Reserving
<1>2. op' = [op EXCEPT ![e] = NotEditing]
  BY DEF Close
<1>3. QED
  BY <1>1, <1>2, OtherStep

LEMMA FindTakenInv ==
  ASSUME SequenceInv, NEW e \in Editors, FindTaken(e)
  PROVE  SequenceInv'
<1> DEFINE taken == op[e].given \cap CustomerIds
           pc == IF op[e].autos = 0 THEN "insert" ELSE "reserve"
           o == [op[e] EXCEPT !.given = op[e].given \ taken, !.pc = pc]
<1>1. sequence' = sequence /\ used' = used /\ op[e].pc = "taken"
  BY DEF FindTaken
<1>2. CASE taken # {} /\ ~op[e].bulk
  BY <1>1, <1>2, CloseInv DEF FindTaken
<1>3. CASE ~(taken # {} /\ ~op[e].bulk)
  <2>1. op[e] \in Creation /\ op[e].ids = {}
    BY <1>1 DEF SequenceInv, OpType, CreationPCs
  <2>2. op' = [op EXCEPT ![e] = o]
    BY <1>3 DEF FindTaken, SequenceInv
  <2>3. pc \in {"insert", "reserve"} /\ op[e].given \ taken \in SUBSET (LegacyIds \cup used)
    BY <2>1 DEF Creation
  <2> HIDE DEF pc, taken
  <2>4. o \in Creation /\ o.pc = pc /\ o.ids = {}
    BY <2>1, <2>3 DEF Creation, CreationPCs
  <2>5. "pc" \in DOMAIN o
    BY <2>4 DEF Creation
  <2> HIDE DEF o
  <2>6. OpType(o) /\ ~Reserving(o)
    BY <2>4, <2>5 DEF OpType, Reserving
  <2>7. QED
    BY <1>1, <2>2, <2>6, OtherStep
<1>4. QED
  BY <1>2, <1>3

\* The row lock: who reserves a block is the only one that has one.
LEMMA ReserveInv ==
  ASSUME SequenceInv, NEW e \in Editors, Reserve(e)
  PROVE  SequenceInv'
<1> USE DEF SequenceInv
<1> DEFINE end == sequence + op[e].autos
           ids == (sequence + 1) .. end
           o == [op[e] EXCEPT !.pc = "insert", !.end = end, !.ids = ids]
<1>1. /\ sequence' = sequence /\ used' = used /\ op[e].pc = "reserve"
      /\ ~SequenceHeld(e) /\ op' = [op EXCEPT ![e] = o]
  BY DEF Reserve
<1>2. op[e] \in Creation /\ op[e].autos \in Nat
  BY <1>1 DEF OpType, CreationPCs, Creation
<1>3. end \in Int /\ sequence <= end /\ ids \in SUBSET Int
  BY <1>2
<1> HIDE DEF end, ids
<1>4. o \in Creation /\ o.pc = "insert" /\ o.end = end /\ o.ids = ids
  BY <1>2, <1>3 DEF Creation, CreationPCs
<1>5. "pc" \in DOMAIN o
  BY <1>4 DEF Creation
<1> HIDE DEF o
<1>6. /\ op' = [x \in Editors |-> op'[x]] /\ op'[e] = o
      /\ \A x \in Editors : x # e => op'[x] = op[x]
  BY <1>1
<1>7. ASSUME NEW x \in Editors PROVE OpType(op[x])'
  <2>1. OpType(op'[x])
    BY <1>4, <1>5, <1>6 DEF OpType
  <2>2. QED
    BY <1>1, <2>1 DEF OpType, Creation
<1>8. \A x \in Editors : x # e => ~Reserving(op'[x])
  BY <1>1, <1>6 DEF SequenceHeld, Reserving
<1>9. ASSUME NEW x \in Editors, Reserving(op'[x])
      PROVE  /\ op'[x].ids = (sequence' + 1) .. op'[x].end
             /\ sequence' <= op'[x].end
             /\ \A y \in Editors : Reserving(op'[y]) => y = x
  <2>1. x = e
    BY <1>8, <1>9
  <2>2. QED
    BY <1>1, <1>3, <1>4, <1>6, <1>8, <2>1 DEF ids
<1>10. QED
  BY <1>1, <1>6, <1>7, <1>9 DEF Reserving

\* The commit publishes the sequence together with the partners.
LEMMA InsertInv ==
  ASSUME SequenceInv, NEW e \in Editors, Insert(e)
  PROVE  SequenceInv'
<1> USE DEF SequenceInv
<1> DEFINE ids == op[e].given \cup op[e].ids
<1>1. op[e].pc = "insert" /\ Close(e)
  BY DEF Insert
<1>2. CASE ids \cap CustomerIds # {}
  BY <1>1, <1>2, CloseInv DEF Insert
<1>3. CASE ids \cap CustomerIds = {}
  <2>1. /\ used' = used \cup ids
        /\ sequence' = IF op[e].ids = {} THEN sequence ELSE op[e].end
    BY <1>3 DEF Insert
  <2>2. op[e] \in Creation
    BY <1>1 DEF OpType, CreationPCs
  <2>3. /\ op[e].given \subseteq LegacyIds \cup used /\ op[e].ids \subseteq Int
        /\ op[e].end \in Int
    BY <2>2 DEF Creation
  <2>4. sequence' \in Nat /\ sequence <= sequence'
    <3>1. CASE op[e].ids = {}
      BY <2>1, <3>1
    <3>2. CASE op[e].ids # {}
      <4>1. sequence <= op[e].end
        BY <1>1, <3>2 DEF Reserving
      <4>2. QED
        BY <2>1, <2>3, <3>2, <4>1
    <3>3. QED
      BY <3>1, <3>2
  <2>5. ASSUME NEW id \in used' PROVE id \in Int /\ id <= sequence'
    <3>1. CASE id \in used
      BY <2>4, <3>1
    <3>2. CASE id \in LegacyIds
      BY <2>4, <3>2, LegacyIdsAreOlder
    <3>3. CASE id \in op[e].ids
      <4>1. op[e].ids = (sequence + 1) .. op[e].end /\ sequence' = op[e].end
        BY <1>1, <2>1, <3>3 DEF Reserving
      <4>2. QED
        BY <2>3, <3>3, <4>1
    <3>4. QED
      BY <2>1, <2>3, <2>5, <3>1, <3>2, <3>3
  <2>6. /\ op' = [x \in Editors |-> op'[x]] /\ op'[e] = NotEditing
        /\ \A x \in Editors : x # e => op'[x] = op[x]
    BY <1>1 DEF Close
  <2>7. ASSUME NEW x \in Editors PROVE OpType(op[x])'
    <3>1. CASE x = e
      <4>1. op'[x].pc = "none" /\ "pc" \in DOMAIN op'[x]
        BY <2>6, <3>1 DEF NotEditing
      <4>2. QED
        BY <4>1 DEF OpType, CreationPCs
    <3>2. CASE x # e
      <4>1. op'[x] = op[x] /\ OpType(op[x])
        BY <2>6, <3>2
      <4>2. op[x] \in Creation => op[x] \in Creation'
        BY <2>1 DEF Creation
      <4>3. QED
        BY <4>1, <4>2 DEF OpType
    <3>3. QED
      BY <3>1, <3>2
  <2>8. ASSUME NEW x \in Editors, Reserving(op'[x])
        PROVE  /\ op'[x].ids = (sequence' + 1) .. op'[x].end
               /\ sequence' <= op'[x].end
               /\ \A y \in Editors : Reserving(op'[y]) => y = x
    <3>1. x # e /\ op'[x] = op[x] /\ Reserving(op[x])
      BY <2>6, <2>8 DEF Reserving, NotEditing
    <3>2. ~Reserving(op[e])
      BY <3>1
    <3>3. sequence' = sequence
      BY <1>1, <2>1, <3>2 DEF Reserving
    <3>4. \A y \in Editors : Reserving(op'[y]) => y # e /\ Reserving(op[y])
      BY <2>6 DEF Reserving, NotEditing
    <3>5. QED
      BY <3>1, <3>3, <3>4
  <2>9. QED
    BY <2>4, <2>5, <2>6, <2>7, <2>8 DEF Reserving
<1>4. QED
  BY <1>2, <1>3

\* Operations that are opened, or go on, without anything to do with customer
\* ids.
LEMMA PlainStep ==
  ASSUME SequenceInv, NEW e \in Editors, NEW o, op' = [op EXCEPT ![e] = o],
         "pc" \in DOMAIN o, o.pc \notin CreationPCs, sequence' = sequence,
         used' = used
  PROVE  SequenceInv'
<1>1. OpType(o) /\ ~Reserving(o)
  BY DEF OpType, Reserving, CreationPCs
<1>2. QED
  BY <1>1, OtherStep

LEMMA PartnersInitInv == PartnersInit => SequenceInv
<1> SUFFICES ASSUME PartnersInit PROVE SequenceInv
  OBVIOUS
<1>1. /\ \A e \in Editors : op[e] = NotEditing /\ op[e].pc = "none"
      /\ op = [e \in Editors |-> op[e]]
  BY DEF PartnersInit, NotEditing
<1>2. OpType(NotEditing) /\ ~Reserving(NotEditing)
  BY DEF OpType, NotEditing, CreationPCs, Reserving
<1>3. \A e \in Editors : OpType(op[e]) /\ ~Reserving(op[e])
  BY <1>1, <1>2
<1>4. sequence \in Nat /\ used \subseteq Int /\ \A id \in used : id <= sequence
  BY DEF PartnersInit
<1>5. op = [e \in Editors |-> op[e]]
  BY <1>1
<1>6. \A e \in Editors : Reserving(op[e]) => FALSE
  BY <1>3
<1>7. QED
  BY <1>3, <1>4, <1>5, <1>6, Zenon DEF SequenceInv

LEMMA PartnersNextInv == SequenceInv /\ [PartnersNext]_partnerVars => SequenceInv'
<1> SUFFICES ASSUME SequenceInv, [PartnersNext]_partnerVars PROVE SequenceInv'
  OBVIOUS
<1>1. ASSUME op' = op, sequence' = sequence, used' = used PROVE SequenceInv'
  BY <1>1 DEF SequenceInv, OpType, Creation, Reserving
<1>2. CASE UNCHANGED partnerVars
  BY <1>1, <1>2 DEF partnerVars
<1>3. ASSUME NEW e \in Editors, NEW bulk \in BOOLEAN, NEW autos \in 0 .. 2,
             NEW given \in {{}} \cup {{id} : id \in LegacyIds \cup used},
             OpenCreate(e, bulk, given, autos)
      PROVE  SequenceInv'
  <2> DEFINE reads == given # {}
             o == [pc |-> "taken", bulk |-> bulk, given |-> given, autos |-> autos,
                   ids |-> {}, end |-> sequence, reads |-> reads]
  <2>1. op' = [op EXCEPT ![e] = o] /\ sequence' = sequence /\ used' = used
    BY <1>3 DEF OpenCreate, Open
  <2>2. reads \in BOOLEAN /\ given \in SUBSET (LegacyIds \cup used)
    OBVIOUS
  <2> HIDE DEF reads
  <2>3. o \in Creation /\ o.pc = "taken" /\ o.ids = {} /\ "pc" \in DOMAIN o
    BY <2>2 DEF Creation, CreationPCs, SequenceInv
  <2> HIDE DEF o
  <2>4. OpType(o) /\ ~Reserving(o)
    BY <2>3 DEF OpType, Reserving
  <2>5. QED
    BY <2>1, <2>4, OtherStep
<1>4. ASSUME NEW e \in Editors, NEW p \in PartnerIds,
             OpenDelete(e, p) \/ (\E f \in Fields : OpenUpdate(e, p, f))
      PROVE  SequenceInv'
  <2>1. CASE OpenDelete(e, p)
    <3> DEFINE o == [pc |-> "named", key |-> p]
    <3>1. op' = [op EXCEPT ![e] = o] /\ sequence' = sequence /\ used' = used
      BY <2>1 DEF OpenDelete, Open
    <3>2. "pc" \in DOMAIN o /\ o.pc \notin CreationPCs
      BY DEF CreationPCs
    <3> HIDE DEF o
    <3>3. QED
      BY <3>1, <3>2, PlainStep
  <2>2. CASE \E f \in Fields : OpenUpdate(e, p, f)
    <3>1. PICK f \in Fields : OpenUpdate(e, p, f)
      BY <2>2
    <3> DEFINE entity == [partners[p] EXCEPT !.fields = f]
               o == [pc |-> "reload", key |-> p, columns |-> {}, entity |-> entity]
    <3>2. op' = [op EXCEPT ![e] = o] /\ sequence' = sequence /\ used' = used
      BY <3>1 DEF OpenUpdate, Open
    <3> HIDE DEF entity
    <3>3. "pc" \in DOMAIN o /\ o.pc \notin CreationPCs
      BY DEF CreationPCs
    <3> HIDE DEF o
    <3>4. QED
      BY <3>2, <3>3, PlainStep
  <2>3. QED
    BY <1>4, <2>1, <2>2
<1>5. ASSUME NEW e \in Editors, ReloadPartner(e) PROVE SequenceInv'
  <2> DEFINE columns == Differing(op[e].entity, partners[op[e].key])
             o == [op[e] EXCEPT !.pc = "flush", !.columns = columns]
  <2>1. CASE op[e].key \in Existing
    <3>1. op' = [op EXCEPT ![e] = o] /\ sequence' = sequence /\ used' = used
      BY <1>5, <2>1 DEF ReloadPartner, SequenceInv
    <3> HIDE DEF columns
    <3>2. "pc" \in DOMAIN op[e]
      BY DEF SequenceInv, OpType
    <3>3. "pc" \in DOMAIN o /\ o.pc = "flush"
      BY <3>2
    <3> HIDE DEF o
    <3>4. QED
      BY <3>1, <3>3, PlainStep DEF CreationPCs
  <2>2. CASE op[e].key \notin Existing
    BY <1>5, <2>2, CloseInv DEF ReloadPartner
  <2>3. QED
    BY <2>1, <2>2
<1>6. ASSUME NEW e \in Editors, AskDocuments(e) PROVE SequenceInv'
  <2> DEFINE o == [op[e] EXCEPT !.pc = "remove"]
  <2>1. CASE op[e].key \notin named
    <3>1. op' = [op EXCEPT ![e] = o] /\ sequence' = sequence /\ used' = used
      BY <1>6, <2>1 DEF AskDocuments, SequenceInv
    <3>2. "pc" \in DOMAIN op[e]
      BY DEF SequenceInv, OpType
    <3>3. "pc" \in DOMAIN o /\ o.pc = "remove"
      BY <3>2
    <3> HIDE DEF o
    <3>4. QED
      BY <3>1, <3>3, PlainStep DEF CreationPCs
  <2>2. CASE op[e].key \in named
    BY <1>6, <2>2, CloseInv DEF AskDocuments
  <2>3. QED
    BY <2>1, <2>2
<1>7. ASSUME NEW e \in Editors, FlushPartner(e) \/ RemovePartner(e) \/ GiveUp(e)
      PROVE  SequenceInv'
  BY <1>7, CloseInv DEF FlushPartner, RemovePartner, GiveUp
<1>8. ASSUME NEW p \in PartnerIds, Lock(p) \/ Name(p) PROVE SequenceInv'
  BY <1>1, <1>8 DEF Lock, Name
<1>9. ASSUME NEW n \in 0 .. Cardinality(PartnerIds), DeleteAll(n) PROVE SequenceInv'
  BY <1>1, <1>9 DEF DeleteAll
<1>10. ASSUME NEW e \in Editors,
              \/ FindTaken(e) \/ Reserve(e) \/ Insert(e) \/ ReloadPartner(e)
              \/ FlushPartner(e) \/ AskDocuments(e) \/ RemovePartner(e) \/ GiveUp(e)
       PROVE  SequenceInv'
  BY <1>5, <1>6, <1>7, <1>10, FindTakenInv, ReserveInv, InsertInv
<1>11. QED
  BY <1>2, <1>3, <1>4, <1>8, <1>9, <1>10 DEF PartnersNext

\* The customer ids a creation has reserved were never those of any partner,
\* whatever is rolled back, wiped or imported again.
THEOREM AutoIdsAreFreshHolds == PartnersSpec => []AutoIdsAreFresh
<1>1. SequenceInv => AutoIdsAreFresh
  <2> SUFFICES ASSUME SequenceInv, NEW e \in Editors, op[e].pc = "insert",
                      NEW id \in op[e].ids, id \in used
               PROVE  FALSE
    BY DEF AutoIdsAreFresh
  <2>1. op[e].ids = (sequence + 1) .. op[e].end
    BY DEF SequenceInv, Reserving
  <2>2. id \in (sequence + 1) .. op[e].end
    BY <2>1
  <2>3. id <= sequence /\ sequence \in Nat /\ id \in Int
    BY DEF SequenceInv
  <2>4. QED
    BY <2>2, <2>3
<1>2. QED
  BY <1>1, PartnersInitInv, PartnersNextInv, PTL DEF PartnersSpec

-----------------------------------------------------------------------------
(***************************************************************************)
(* What a printed Arrival Notice or Delivery Order owes its reader, for     *)
(* every list of cargo, every layout constant and every attention band.     *)
(***************************************************************************)

PageRecord == [from : Nat, to : Nat, space : Int, attention : BOOLEAN]

\* Types, and where the next row stands.
PagesTypeOK ==
  /\ cargo \in Seq(Nat) /\ band \in Nat /\ marks \in Int
  /\ next \in Nat /\ 1 <= next /\ next <= Len(cargo) + 1
  /\ pages \in Seq(PageRecord) /\ Len(pages) >= 1
  /\ phase \in {"first", "together", "refill", "open", "batch", "done"}

\* The pages are consecutive intervals of rows.
Consecutive ==
  /\ pages[1].from = 1
  /\ \A p \in 2 .. Len(pages) : pages[p].from = pages[p - 1].to
  /\ pages[Len(pages)].to = next

\* The first page, while it is being filled: its rows fit, and in the first
\* try the band fits under them.
FirstPageFits ==
  /\ phase \in {"first", "together", "refill"} => Len(pages) = 1
  /\ phase \in {"first", "together"} => pages[1].from = 1
  /\ phase = "first" => next = 1 /\ pages = <<Page(1, marks)>>
  /\ phase \in {"together", "refill"} => TableFits /\ pages[1].space >= 0
  /\ phase = "together" =>
       cargo # <<>> /\ (next > 1 => pages[1].space >= band)

\* A continuation page under way crosses its end with its first row only.
BatchFits ==
  phase = "batch" /\ pages[Len(pages)].space < 0 =>
    pages[Len(pages)].to = pages[Len(pages)].from + 1

PagesInv ==
  /\ PagesTypeOK /\ Consecutive /\ AttentionLast /\ OnlyGiantsCross
  /\ FirstPageFits /\ BatchFits
  /\ phase = "done" => AllPlaced

-----------------------------------------------------------------------------
(* What a step does to the list of pages.                                  *)

LEMMA Layout ==
  /\ FirstHeader \in Nat /\ FirstMin \in Nat /\ FirstPad \in Nat
  /\ FirstMost \in Nat /\ NextHeader \in Nat /\ NextRoom \in Nat
  /\ NextMin \in Nat /\ NextPad \in Nat /\ NextMost \in Nat /\ NextMost > 0
BY PagesAssumption

LEMMA HeightType ==
    ASSUME cargo \in Seq(Nat), NEW r \in 1 .. Len(cargo)
    PROVE  FirstHeight(r) \in Nat /\ NextHeight(r) \in Nat
BY Layout DEF FirstHeight, NextHeight, Greater

\* A placed row changes the last page only.
LEMMA PlacedPages ==
    ASSUME pages \in Seq(PageRecord), Len(pages) >= 1, NEW h \in Nat,
           Placed(h)
    PROVE  /\ pages' \in Seq(PageRecord) /\ Len(pages') = Len(pages)
           /\ \A p \in 1 .. (Len(pages) - 1) : pages'[p] = pages[p]
           /\ pages'[Len(pages)].from = pages[Len(pages)].from
           /\ pages'[Len(pages)].to = pages[Len(pages)].to + 1
           /\ pages'[Len(pages)].space = pages[Len(pages)].space - h
           /\ pages'[Len(pages)].attention = pages[Len(pages)].attention
<1> DEFINE n == Len(pages)
           new == [pages[n] EXCEPT !.to = @ + 1, !.space = @ - h]
<1>1. n \in 1 .. Len(pages) /\ pages[n] \in PageRecord
  OBVIOUS
<1>2. new \in PageRecord
  <2>1. pages[n].to + 1 \in Nat /\ pages[n].space - h \in Int
    BY <1>1 DEF PageRecord
  <2>2. [pages[n] EXCEPT !.to = pages[n].to + 1] \in PageRecord
    BY <1>1, <2>1 DEF PageRecord
  <2>3. \A r \in PageRecord : [r EXCEPT !.space = pages[n].space - h] \in PageRecord
    BY <2>1 DEF PageRecord
  <2>4. new = [[pages[n] EXCEPT !.to = pages[n].to + 1]
                 EXCEPT !.space = pages[n].space - h]
    BY <1>1 DEF PageRecord
  <2>5. QED
    BY <2>2, <2>3, <2>4
<1>3. pages' = [pages EXCEPT ![n] = new]
  BY <1>1 DEF Placed, Current
<1>4. QED
  <2>1. /\ pages' \in Seq(PageRecord) /\ Len(pages') = Len(pages)
        /\ \A p \in 1 .. (Len(pages) - 1) : pages'[p] = pages[p]
        /\ pages'[n] = new
    <3> HIDE DEF new
    <3>1. QED
      BY <1>1, <1>2, <1>3
  <2>2. QED
    BY <1>1, <2>1 DEF PageRecord

LEMMA AttentionPages ==
    ASSUME pages \in Seq(PageRecord), Len(pages) >= 1, NEW left \in Int,
           Attention(left)
    PROVE  /\ pages' \in Seq(PageRecord) /\ Len(pages') = Len(pages)
           /\ \A p \in 1 .. (Len(pages) - 1) : pages'[p] = pages[p]
           /\ pages'[Len(pages)].from = pages[Len(pages)].from
           /\ pages'[Len(pages)].to = pages[Len(pages)].to
           /\ pages'[Len(pages)].space = left
           /\ pages'[Len(pages)].attention = TRUE
<1> DEFINE n == Len(pages)
           new == [pages[n] EXCEPT !.attention = TRUE, !.space = left]
<1>1. n \in 1 .. Len(pages) /\ pages[n] \in PageRecord
  OBVIOUS
<1>2. new \in PageRecord
  BY <1>1 DEF PageRecord
<1>3. pages' = [pages EXCEPT ![n] = new]
  BY <1>1 DEF Attention, Current
<1>4. QED
  <2>1. /\ pages' \in Seq(PageRecord) /\ Len(pages') = Len(pages)
        /\ \A p \in 1 .. (Len(pages) - 1) : pages'[p] = pages[p]
        /\ pages'[n] = new
    <3> HIDE DEF new
    <3>1. QED
      BY <1>1, <1>2, <1>3
  <2>2. QED
    BY <1>1, <2>1 DEF PageRecord

\* The attention band on a page of its own.
LEMMA EmptyPage ==
    ASSUME NEW from \in Nat, NEW space \in Int
    PROVE  /\ Page(from, space) \in PageRecord
           /\ Page(from, space).from = from /\ Page(from, space).to = from
           /\ Page(from, space).space = space
           /\ Page(from, space).attention = FALSE
BY DEF Page, PageRecord

LEMMA OwnPages ==
    ASSUME pages \in Seq(PageRecord), Len(pages) >= 1, next \in Nat,
           band \in Nat, OwnPageForAttention
    PROVE  /\ pages' \in Seq(PageRecord) /\ Len(pages') = Len(pages) + 1
           /\ \A p \in 1 .. Len(pages) : pages'[p] = pages[p]
           /\ pages'[Len(pages) + 1].from = next
           /\ pages'[Len(pages) + 1].to = next
           /\ pages'[Len(pages) + 1].attention = TRUE
<1> DEFINE blank == Page(next, NextHeader + NextRoom - band)
           new == [blank EXCEPT !.attention = TRUE]
<1>1. /\ blank \in PageRecord /\ blank.from = next /\ blank.to = next
  <2>1. NextHeader + NextRoom - band \in Int
    BY Layout
  <2>2. QED
    BY <2>1, EmptyPage
<1>2. pages' = Append(pages, new)
  BY DEF OwnPageForAttention
<1>3. /\ new \in PageRecord /\ new.from = next /\ new.to = next
      /\ new.attention = TRUE
  <2> HIDE DEF blank
  <2>1. QED
    BY <1>1 DEF PageRecord
<1>4. QED
  <2> HIDE DEF new
  <2>1. QED
    BY <1>2, <1>3

-----------------------------------------------------------------------------
LEMMA PagesInitInv == PagesInit => PagesInv
<1> SUFFICES ASSUME PagesInit PROVE PagesInv
  OBVIOUS
<1>1. cargo \in Seq(Nat) /\ band \in Nat /\ marks \in Int
  <2>1. PICK n \in 0 .. MaxCargoRows : cargo \in [1 .. n -> Contents]
    BY DEF PagesInit
  <2>2. Contents \subseteq Nat /\ Bands \subseteq Nat /\ Rooms \subseteq Int
    BY PagesAssumption
  <2>3. cargo \in [1 .. n -> Nat]
    BY <2>1, <2>2
  <2>4. QED
    BY <2>2, <2>3 DEF PagesInit
<1>2. /\ pages = <<Page(1, marks)>> /\ next = 1 /\ phase = "first"
      /\ pages[1] \in PageRecord /\ Len(pages) = 1
      /\ pages[1].from = 1 /\ pages[1].to = 1 /\ pages[1].attention = FALSE
  BY <1>1, EmptyPage DEF PagesInit
<1>3. pages \in Seq(PageRecord)
  BY <1>2
<1>4. QED
  BY <1>1, <1>2, <1>3 DEF PagesInv, PagesTypeOK, Consecutive, AttentionLast,
     OnlyGiantsCross, FirstPageFits, BatchFits

\* What the steps that place a row or print the band have in common: only the
\* last page changes.
LEMMA LastPageChanged ==
    ASSUME PagesInv, Len(pages') = Len(pages),
           \A p \in 1 .. (Len(pages) - 1) : pages'[p] = pages[p],
           pages'[Len(pages)].from = pages[Len(pages)].from,
           pages'[Len(pages)].to = next'
    PROVE  Consecutive'
<1>1. Len(pages) \in Nat /\ Len(pages) >= 1 /\ Consecutive
  BY DEF PagesInv, PagesTypeOK
<1>2. pages'[1].from = 1
  BY <1>1 DEF Consecutive
<1>3. ASSUME NEW p \in 2 .. Len(pages)
      PROVE  pages'[p].from = pages'[p - 1].to
  <2>1. pages'[p].from = pages[p].from
    <3>1. CASE p = Len(pages)
      BY <3>1
    <3>2. CASE p # Len(pages)
      BY <1>1, <3>2
    <3>3. QED
      BY <3>1, <3>2
  <2>2. pages'[p - 1] = pages[p - 1]
    BY <1>1
  <2>3. QED
    BY <1>1, <2>1, <2>2 DEF Consecutive
<1>4. QED
  BY <1>2, <1>3 DEF Consecutive

\* A page is appended that begins where the last one ended.
LEMMA PageAppended ==
    ASSUME PagesInv, next' = next, Len(pages') = Len(pages) + 1,
           \A p \in 1 .. Len(pages) : pages'[p] = pages[p],
           pages'[Len(pages) + 1].from = next,
           pages'[Len(pages) + 1].to = next
    PROVE  Consecutive'
<1>1. Len(pages) \in Nat /\ Len(pages) >= 1 /\ Consecutive
  BY DEF PagesInv, PagesTypeOK
<1>2. pages'[1] = pages[1]
  BY <1>1
<1>3. ASSUME NEW p \in 2 .. Len(pages')
      PROVE  pages'[p].from = pages'[p - 1].to
  <2>1. p - 1 \in 1 .. Len(pages) /\ pages'[p - 1] = pages[p - 1]
    BY <1>1
  <2>2. CASE p = Len(pages) + 1
    BY <1>1, <2>1, <2>2 DEF Consecutive
  <2>3. CASE p # Len(pages) + 1
    <3>1. p \in 2 .. Len(pages) /\ pages'[p] = pages[p]
      BY <1>1, <2>3
    <3>2. QED
      BY <1>1, <2>1, <3>1 DEF Consecutive
  <2>4. QED
    BY <2>2, <2>3
<1>4. pages'[Len(pages')].to = next'
  OBVIOUS
<1>5. QED
  BY <1>1, <1>2, <1>3, <1>4 DEF Consecutive

LEMMA PlaceInv ==
    ASSUME PagesInv, NEW r \in 1 .. Len(cargo), NEW h \in Nat, r = next,
           Placed(h), UNCHANGED <<cargo, band, marks, phase>>,
           phase \notin {"first", "done"}
    PROVE  /\ PagesTypeOK' /\ Consecutive' /\ AttentionLast'
           /\ Len(pages') = Len(pages)
<1> USE DEF PagesInv, PagesTypeOK
<1>1. /\ pages' \in Seq(PageRecord) /\ Len(pages') = Len(pages)
      /\ \A p \in 1 .. (Len(pages) - 1) : pages'[p] = pages[p]
      /\ pages'[Len(pages)].from = pages[Len(pages)].from
      /\ pages'[Len(pages)].to = pages[Len(pages)].to + 1
      /\ pages'[Len(pages)].attention = pages[Len(pages)].attention
  BY PlacedPages
<1>2. next' = next + 1
  BY DEF Placed
<1>3. pages'[Len(pages)].to = next'
  BY <1>1, <1>2 DEF Consecutive
<1>4. AttentionLast'
  <2>1. \A p \in 1 .. Len(pages) : ~pages[p].attention
    BY DEF AttentionLast
  <2>2. ASSUME NEW p \in 1 .. Len(pages) PROVE ~pages'[p].attention
    <3>1. pages'[p].attention = pages[p].attention
      <4>1. p = Len(pages) \/ p \in 1 .. (Len(pages) - 1)
        OBVIOUS
      <4>2. QED
        BY <1>1, <4>1
    <3>2. ~pages[p].attention
      BY <2>1
    <3>3. QED
      BY <3>1, <3>2
  <2>3. QED
    BY <1>1, <2>2 DEF AttentionLast
<1>5. QED
  BY <1>1, <1>2, <1>3, <1>4, LastPageChanged

\* The band on the current page ends the document.
LEMMA AttentionInv ==
    ASSUME PagesInv, NEW left \in Nat, Attention(left), AllPlaced,
           phase # "done", phase' = "done", UNCHANGED <<cargo, band, marks, next>>
    PROVE  PagesInv'
<1> USE DEF PagesInv, PagesTypeOK
<1>1. /\ pages' \in Seq(PageRecord) /\ Len(pages') = Len(pages)
      /\ \A p \in 1 .. (Len(pages) - 1) : pages'[p] = pages[p]
      /\ pages'[Len(pages)].from = pages[Len(pages)].from
      /\ pages'[Len(pages)].to = pages[Len(pages)].to
      /\ pages'[Len(pages)].space = left
      /\ pages'[Len(pages)].attention = TRUE
  <2>1. left \in Int
    OBVIOUS
  <2>2. QED
    BY <2>1, AttentionPages
<1>2. PagesTypeOK'
  BY <1>1
<1>3. Consecutive'
  BY <1>1, LastPageChanged DEF Consecutive
<1>4. AttentionLast'
  <2>1. \A p \in 1 .. Len(pages) : ~pages[p].attention
    BY DEF AttentionLast
  <2>2. ASSUME NEW p \in 1 .. Len(pages)
        PROVE pages'[p].attention <=> p = Len(pages)
    <3>1. CASE p = Len(pages)
      BY <1>1, <3>1
    <3>2. CASE p # Len(pages)
      <4>1. pages'[p] = pages[p]
        BY <1>1, <3>2
      <4>2. QED
        BY <2>1, <3>2, <4>1, Zenon
    <3>3. QED
      BY <3>1, <3>2
  <2>3. QED
    BY <1>1, <2>2 DEF AttentionLast
<1>5. OnlyGiantsCross'
  <2>1. ASSUME NEW p \in 1 .. Len(pages), pages'[p].space < 0
        PROVE  p \in 1 .. (Len(pages) - 1) /\ pages'[p] = pages[p]
    BY <1>1, <2>1
  <2>2. QED
    BY <1>1, <2>1 DEF OnlyGiantsCross
<1>6. FirstPageFits'
  BY DEF FirstPageFits
<1>7. BatchFits'
  BY DEF BatchFits
<1>8. AllPlaced'
  BY DEF AllPlaced
<1>9. QED
  BY <1>2, <1>3, <1>4, <1>5, <1>6, <1>7, <1>8

\* So does the band on a page of its own.
LEMMA OwnPageInv ==
    ASSUME PagesInv, OwnPageForAttention, AllPlaced, phase # "done",
           phase' = "done", UNCHANGED <<cargo, band, marks, next>>
    PROVE  PagesInv'
<1> USE DEF PagesInv, PagesTypeOK
<1>1. /\ pages' \in Seq(PageRecord) /\ Len(pages') = Len(pages) + 1
      /\ \A p \in 1 .. Len(pages) : pages'[p] = pages[p]
      /\ pages'[Len(pages) + 1].from = next
      /\ pages'[Len(pages) + 1].to = next
      /\ pages'[Len(pages) + 1].attention = TRUE
  BY OwnPages
<1>2. PagesTypeOK'
  BY <1>1
<1>3. Consecutive'
  BY <1>1, PageAppended
<1>4. AttentionLast'
  <2>1. \A p \in 1 .. Len(pages) : ~pages[p].attention
    BY DEF AttentionLast
  <2>2. ASSUME NEW p \in 1 .. Len(pages)
        PROVE ~pages'[p].attention /\ p # Len(pages) + 1
    <3>1. pages'[p] = pages[p] /\ p # Len(pages) + 1
      BY <1>1
    <3>2. QED
      BY <2>1, <3>1, Zenon
  <2>3. QED
    BY <1>1, <2>2 DEF AttentionLast
<1>5. OnlyGiantsCross'
  <2>1. ASSUME NEW p \in 1 .. Len(pages'), pages'[p].space < 0
        PROVE  \/ pages'[p].to = pages'[p].from
               \/ pages'[p].to = pages'[p].from + 1 /\ ~pages'[p].attention
    <3>1. CASE p = Len(pages) + 1
      BY <1>1, <3>1
    <3>2. CASE p # Len(pages) + 1
      <4>1. p \in 1 .. Len(pages) /\ pages'[p] = pages[p]
        BY <1>1, <3>2
      <4>2. QED
        BY <2>1, <4>1 DEF OnlyGiantsCross
    <3>3. QED
      BY <3>1, <3>2
  <2>2. QED
    BY <2>1 DEF OnlyGiantsCross
<1>6. FirstPageFits'
  BY DEF FirstPageFits
<1>7. BatchFits'
  BY DEF BatchFits
<1>8. AllPlaced'
  BY DEF AllPlaced
<1>9. QED
  BY <1>2, <1>3, <1>4, <1>5, <1>6, <1>7, <1>8

\* A new page, for rows, begins where the last one ended.
LEMMA EmptyPageInv ==
    ASSUME PagesInv, pages' = Append(pages, Page(next, NextRoom)),
           phase = "open", phase' = "batch",
           UNCHANGED <<cargo, band, marks, next>>
    PROVE  PagesInv'
<1> USE DEF PagesInv, PagesTypeOK
<1> DEFINE new == Page(next, NextRoom)
<1>1. /\ new \in PageRecord /\ new.from = next /\ new.to = next
      /\ new.space = NextRoom /\ new.attention = FALSE /\ NextRoom \in Nat
  <2>1. NextRoom \in Nat /\ NextRoom \in Int
    BY Layout
  <2>2. QED
    BY <2>1, EmptyPage
<1>2. /\ pages' \in Seq(PageRecord) /\ Len(pages') = Len(pages) + 1
      /\ \A p \in 1 .. Len(pages) : pages'[p] = pages[p]
      /\ pages'[Len(pages) + 1] = new
  <2> HIDE DEF new
  <2>1. pages' = Append(pages, new)
    BY DEF new
  <2>2. QED
    BY <1>1, <2>1
<1> HIDE DEF new
<1>3. PagesTypeOK'
  BY <1>2
<1>4. Consecutive'
  BY <1>1, <1>2, PageAppended
<1>5. AttentionLast'
  <2>1. \A p \in 1 .. Len(pages) : ~pages[p].attention
    BY DEF AttentionLast
  <2>2. ASSUME NEW p \in 1 .. Len(pages') PROVE ~pages'[p].attention
    <3>1. CASE p = Len(pages) + 1
      BY <1>1, <1>2, <3>1
    <3>2. CASE p # Len(pages) + 1
      <4>1. p \in 1 .. Len(pages) /\ pages'[p] = pages[p]
        BY <1>2, <3>2
      <4>2. QED
        BY <2>1, <4>1, Zenon
    <3>3. QED
      BY <3>1, <3>2
  <2>3. QED
    BY <2>2 DEF AttentionLast
<1>6. OnlyGiantsCross' /\ BatchFits'
  <2>1. ASSUME NEW p \in 1 .. Len(pages'), pages'[p].space < 0
        PROVE  p \in 1 .. Len(pages) /\ pages'[p] = pages[p]
    BY <1>1, <1>2, <2>1
  <2>2. OnlyGiantsCross'
    BY <2>1 DEF OnlyGiantsCross
  <2>3. BatchFits'
    BY <1>1, <1>2 DEF BatchFits
  <2>4. QED
    BY <2>2, <2>3
<1>7. FirstPageFits' /\ (phase' = "done" => AllPlaced')
  BY DEF FirstPageFits
<1>8. QED
  BY <1>3, <1>4, <1>5, <1>6, <1>7

\* A row placed on the first page, which keeps `reserve' free.
LEMMA PlaceFirstInv ==
    ASSUME PagesInv, phase \in {"together", "refill"}, NEW reserve \in Nat,
           phase = "together" => reserve = band, FitsFirst(reserve),
           Placed(FirstHeight(next)), UNCHANGED <<cargo, band, marks, phase>>
    PROVE  PagesInv'
<1> USE DEF PagesInv, PagesTypeOK
<1>0. /\ phase' = phase /\ cargo' = cargo /\ band' = band /\ marks' = marks
      /\ phase # "first" /\ phase # "batch" /\ phase # "done"
  OBVIOUS
<1>1. next \in 1 .. Len(cargo)
  BY DEF FitsFirst, AllPlaced
<1> DEFINE h == FirstHeight(next)
<1>2. h \in Nat
  BY <1>1, HeightType
<1>3. /\ Len(pages) = 1 /\ pages[1].space - h >= reserve
      /\ pages[1] \in PageRecord
  <2>1. Len(pages) = 1
    BY DEF FirstPageFits
  <2>2. 1 \in 1 .. Len(pages) /\ pages \in Seq(PageRecord)
    BY <2>1
  <2>3. pages[1] \in PageRecord
    BY <2>2
  <2>4. QED
    BY <2>1, <2>3 DEF FitsFirst, Current
<1> HIDE DEF h
<1>4. /\ PagesTypeOK' /\ Consecutive' /\ AttentionLast' /\ Len(pages') = 1
  BY <1>1, <1>2, <1>3, PlaceInv DEF h
<1>5. pages'[1].space = pages[1].space - h /\ pages'[1].from = pages[1].from
  BY <1>2, <1>3, PlacedPages DEF h
<1>6. /\ pages'[1].space >= reserve /\ pages'[1].space >= 0
      /\ ~(pages'[1].space < 0)
  <2>1. pages[1].space \in Int
    BY <1>3 DEF PageRecord
  <2>2. QED
    BY <1>2, <1>3, <1>5, <2>1
<1>7. OnlyGiantsCross'
  <2>1. 1 .. Len(pages') = {1}
    BY <1>4
  <2>2. QED
    BY <1>6, <2>1 DEF OnlyGiantsCross
<1>8. FirstPageFits'
  <2>1. phase = "together" => cargo # <<>> /\ pages'[1].space >= band
    BY <1>6 DEF FirstPageFits
  <2>2. TableFits' /\ (phase = "together" => pages'[1].from = 1)
    BY <1>0, <1>5 DEF FirstPageFits, TableFits
  <2>3. QED
    BY <1>0, <1>4, <1>6, <2>1, <2>2 DEF FirstPageFits
<1>9. BatchFits'
  BY <1>0 DEF BatchFits
<1>10. QED
  BY <1>0, <1>4, <1>7, <1>8, <1>9

\* A row placed on a continuation page.
LEMMA PlaceNextInv ==
    ASSUME PagesInv, PlaceNext
    PROVE  PagesInv'
<1> USE DEF PagesInv, PagesTypeOK
<1>0. /\ phase = "batch" /\ phase' = phase /\ cargo' = cargo
      /\ band' = band /\ marks' = marks
  BY DEF PlaceNext
<1>1. next \in 1 .. Len(cargo)
  BY DEF PlaceNext, FitsNext, AllPlaced
<1> DEFINE n == Len(pages)
           h == NextHeight(next)
<1>2. h \in Nat /\ Placed(h)
  BY <1>1, HeightType DEF PlaceNext
<1>3. /\ n \in 1 .. Len(pages) /\ pages[n] \in PageRecord
      /\ pages[n].space \in Int /\ pages[n].to = next
  <2>1. n \in 1 .. Len(pages) /\ pages \in Seq(PageRecord)
    OBVIOUS
  <2>2. pages[n] \in PageRecord
    BY <2>1
  <2>3. QED
    BY <2>1, <2>2 DEF PageRecord, Consecutive
<1>4. pages[n].space - h >= 0 \/ pages[n].from = next
  BY DEF PlaceNext, FitsNext, BatchEmpty, Current
<1> HIDE DEF h
<1>5. /\ PagesTypeOK' /\ Consecutive' /\ AttentionLast' /\ Len(pages') = n
  BY <1>0, <1>1, <1>2, PlaceInv DEF h
<1>6. /\ \A p \in 1 .. (n - 1) : pages'[p] = pages[p]
      /\ pages'[n].space = pages[n].space - h
      /\ pages'[n].from = pages[n].from /\ pages'[n].to = pages[n].to + 1
      /\ pages'[n].attention = pages[n].attention
  BY <1>2, PlacedPages DEF h
<1>7. pages'[n].space < 0 => pages'[n].to = pages'[n].from + 1
  BY <1>2, <1>3, <1>4, <1>6
<1>8. ~pages'[n].attention
  <2>1. n \in 1 .. Len(pages')
    BY <1>3, <1>5
  <2>2. phase' # "done"
    BY <1>0
  <2>3. QED
    BY <1>5, <2>1, <2>2 DEF AttentionLast
<1>9. OnlyGiantsCross'
  <2>1. ASSUME NEW p \in 1 .. n, pages'[p].space < 0
        PROVE  \/ pages'[p].to = pages'[p].from
               \/ pages'[p].to = pages'[p].from + 1 /\ ~pages'[p].attention
    <3>1. CASE p = n
      BY <1>7, <1>8, <2>1, <3>1
    <3>2. CASE p # n
      <4>1. p \in 1 .. (n - 1)
        BY <3>2
      <4>2. pages'[p] = pages[p]
        BY <1>6, <4>1
      <4>3. QED
        BY <2>1, <4>2 DEF OnlyGiantsCross
    <3>3. QED
      BY <3>1, <3>2
  <2>2. QED
    BY <1>5, <2>1 DEF OnlyGiantsCross
<1>10. FirstPageFits' /\ BatchFits'
  BY <1>0, <1>5, <1>7 DEF FirstPageFits, BatchFits
<1>11. QED
  BY <1>0, <1>5, <1>9, <1>10

\* The step that wipes the first page, or begins its table.
LEMMA BlankFirstPage ==
    ASSUME PagesInv, pages' = <<Page(1, marks - FirstHeader)>>, next' = 1,
           phase' \in {"together", "refill"}, TableFits, cargo # <<>>,
           UNCHANGED <<cargo, band, marks>>
    PROVE  PagesInv'
<1> USE DEF PagesInv, PagesTypeOK
<1>1. marks - FirstHeader \in Int /\ marks - FirstHeader >= 0
  BY Layout DEF TableFits
<1>2. /\ pages' \in Seq(PageRecord) /\ Len(pages') = 1
      /\ pages'[1].from = 1 /\ pages'[1].to = 1
      /\ pages'[1].space >= 0 /\ ~(pages'[1].space < 0)
      /\ pages'[1].attention = FALSE
  <2>1. /\ Page(1, marks - FirstHeader) \in PageRecord
        /\ Page(1, marks - FirstHeader).from = 1
        /\ Page(1, marks - FirstHeader).to = 1
        /\ Page(1, marks - FirstHeader).space = marks - FirstHeader
        /\ Page(1, marks - FirstHeader).attention = FALSE
    <3>1. 1 \in Nat /\ marks - FirstHeader \in Int
      BY <1>1
    <3> DEFINE room == marks - FirstHeader
    <3> HIDE DEF room
    <3>2. room \in Int
      BY <3>1 DEF room
    <3>3. /\ Page(1, room) \in PageRecord
          /\ Page(1, room).from = 1 /\ Page(1, room).to = 1
          /\ Page(1, room).space = room /\ Page(1, room).attention = FALSE
      BY <3>1, <3>2, EmptyPage
    <3>4. QED
      BY <3>3 DEF room
  <2>2. QED
    BY <1>1, <2>1
<1>3. 1 .. Len(pages') = {1}
  BY <1>2
<1>4. PagesTypeOK' /\ Consecutive'
  BY <1>2 DEF Consecutive
<1>5. AttentionLast' /\ OnlyGiantsCross'
  BY <1>2, <1>3 DEF AttentionLast, OnlyGiantsCross
<1>6. FirstPageFits'
  BY <1>2 DEF FirstPageFits, TableFits
<1>7. BatchFits' /\ (phase' = "done" => AllPlaced')
  BY DEF BatchFits
<1>8. QED
  BY <1>4, <1>5, <1>6, <1>7

-----------------------------------------------------------------------------
LEMMA PagesNextInv == PagesInv /\ [PagesNext]_pageVars => PagesInv'
<1> SUFFICES ASSUME PagesInv, [PagesNext]_pageVars PROVE PagesInv'
  OBVIOUS
<1>1. CASE UNCHANGED pageVars
  BY <1>1 DEF pageVars, PagesInv, PagesTypeOK, Consecutive, AttentionLast,
     OnlyGiantsCross, FirstPageFits, BatchFits, AllPlaced, TableFits
<1>2. CASE AttentionOnly
  <2>1. AllPlaced
    BY <1>2 DEF AttentionOnly, PagesInv, FirstPageFits, AllPlaced
  <2>2. CASE marks >= band
    <3>1. marks - band \in Nat
      BY <2>2 DEF PagesInv, PagesTypeOK
    <3>2. QED
      BY <1>2, <2>1, <2>2, <3>1, AttentionInv DEF AttentionOnly
  <2>3. CASE ~(marks >= band)
    BY <1>2, <2>1, <2>3, OwnPageInv DEF AttentionOnly
  <2>4. QED
    BY <2>2, <2>3
<1>3. CASE BeginTable
  <2>1. CASE TableFits
    <3>1. next' = 1
      BY <1>3 DEF BeginTable, PagesInv, FirstPageFits
    <3>2. QED
      BY <1>3, <2>1, <3>1, BlankFirstPage DEF BeginTable
  <2>2. CASE ~TableFits
    <3>1. /\ pages' = pages /\ next' = next /\ phase' = "open"
          /\ cargo' = cargo /\ band' = band /\ marks' = marks
          /\ phase = "first"
      BY <1>3, <2>2 DEF BeginTable
    <3>2. QED
      BY <3>1 DEF PagesInv, PagesTypeOK, Consecutive, AttentionLast,
         OnlyGiantsCross, FirstPageFits, BatchFits
  <2>3. QED
    BY <2>1, <2>2
<1>4. CASE PlaceTogether
  <2>1. band \in Nat
    BY DEF PagesInv, PagesTypeOK
  <2>2. QED
    BY <1>4, <2>1, PlaceFirstInv DEF PlaceTogether
<1>5. CASE AttentionBelow
  <2>1. /\ Current = 1 /\ next > 1 /\ band \in Nat
        /\ pages[1].space >= band /\ pages[1].space \in Int
    <3>1. /\ Len(pages) = 1 /\ cargo # <<>>
          /\ (next > 1 => pages[1].space >= band)
      BY <1>5 DEF AttentionBelow, PagesInv, FirstPageFits
    <3>2. next > 1
      BY <1>5, <3>1 DEF AttentionBelow, AllPlaced, PagesInv, PagesTypeOK
    <3>3. 1 \in 1 .. Len(pages) /\ pages \in Seq(PageRecord) /\ band \in Nat
      BY <3>1 DEF PagesInv, PagesTypeOK
    <3>4. pages[1] \in PageRecord
      BY <3>3
    <3>5. QED
      BY <3>1, <3>2, <3>3, <3>4 DEF PageRecord, Current
  <2>2. pages[Current].space - band \in Nat
    BY <2>1
  <2>3. QED
    BY <1>5, <2>2, AttentionInv DEF AttentionBelow
<1>6. CASE Wipe
  <2>1. TableFits /\ cargo # <<>>
    BY <1>6 DEF Wipe, PagesInv, FirstPageFits
  <2>2. QED
    BY <1>6, <2>1, BlankFirstPage DEF Wipe, Restart
<1>7. CASE PlaceAgain
  BY <1>7, PlaceFirstInv DEF PlaceAgain
<1>8. CASE EndFirstPage
  <2>1. /\ phase = "refill" /\ phase' = "open" /\ cargo' = cargo
        /\ band' = band /\ marks' = marks /\ pages' = pages /\ next' = next
    BY <1>8 DEF EndFirstPage
  <2>2. QED
    BY <2>1 DEF PagesInv, PagesTypeOK, Consecutive, AttentionLast,
       OnlyGiantsCross, FirstPageFits, BatchFits
<1>9. CASE OpenPage
  BY <1>9, EmptyPageInv DEF OpenPage
<1>10. CASE AttentionPage
  BY <1>10, OwnPageInv DEF AttentionPage
<1>11. CASE PlaceNext
  BY <1>11, PlaceNextInv
<1>12. CASE EndPage
  <2>1. /\ phase = "batch" /\ phase' = "open" /\ cargo' = cargo
        /\ band' = band /\ marks' = marks /\ pages' = pages /\ next' = next
    BY <1>12 DEF EndPage
  <2>2. QED
    BY <2>1 DEF PagesInv, PagesTypeOK, Consecutive, AttentionLast,
       OnlyGiantsCross, FirstPageFits, BatchFits
<1>13. CASE LastPage
  <2>1. CASE pages[Current].space >= band
    <3>1. pages[Current] \in PageRecord /\ band \in Nat
      BY DEF Current, PagesInv, PagesTypeOK
    <3>2. pages[Current].space - band \in Nat
      BY <2>1, <3>1 DEF PageRecord
    <3>3. QED
      BY <1>13, <2>1, <3>2, AttentionInv DEF LastPage
  <2>2. CASE ~(pages[Current].space >= band)
    BY <1>13, <2>2, OwnPageInv DEF LastPage
  <2>3. QED
    BY <2>1, <2>2
<1>14. QED
  BY <1>1, <1>2, <1>3, <1>4, <1>5, <1>6, <1>7, <1>8, <1>9, <1>10, <1>11,
     <1>12, <1>13 DEF PagesNext

\* An Arrival Notice or Delivery Order of any length, with rows and a band of
\* any height, prints each row once and in order, its band once and last, and
\* crosses the end of a page only with what is higher than a page.
THEOREM PrintedComplete == PagesSpec => []PagesComplete
<1>1. PagesInv => PagesComplete
  BY DEF PagesInv, Consecutive, PagesComplete, RowsInOrder
<1>2. QED
  BY PagesInitInv, PagesNextInv, <1>1, PTL DEF PagesSpec

-----------------------------------------------------------------------------
(***************************************************************************)
(* The totals under the cargo of a Bill of Lading, for any number of        *)
(* containers and lines and any measures of the field.  A row loses lines   *)
(* only when it fills the field, and a full field takes no more rows.       *)
(***************************************************************************)

LEMMA GridConstants ==
  /\ MaxContainers \in Nat /\ FieldHeight \in Nat /\ MaxFieldLines \in Nat
  /\ LineStep \in Nat /\ LineStep > 0 /\ RowPad \in Nat
  /\ UnderlineGap \in Nat /\ TotalGap \in Nat /\ CellLines \subseteq Nat \ {0}
BY GridAssumption

LEMMA Products == ASSUME NEW m \in Nat, NEW n \in Nat PROVE m * n \in Nat
OBVIOUS

LEMMA Quotients ==
  ASSUME NEW x \in Nat, NEW n \in Nat, n > 0
  PROVE  x \div n \in Nat /\ x < (x \div n + 1) * n
<1>1. x \div n \in Nat
  OBVIOUS
<1>2. x = n * (x \div n) + (x % n) /\ x % n \in 0..(n - 1)
  OBVIOUS
<1>3. (x \div n + 1) * n = n * (x \div n) + n
  BY <1>1
<1>. QED
  BY <1>1, <1>2, <1>3

RowKinds == {"fclHeader", "container", "shippingMark"}

GridTyped ==
  /\ rows \in Seq(RowKinds) /\ totals \in BOOLEAN
  /\ at \in Nat /\ 1 <= at /\ at <= Len(rows) + 1
  /\ cursor \in Nat /\ offset \in Nat
  /\ shown \in Seq(BOOLEAN) /\ Len(shown) = at - 1

\* The containers follow one another.
OneBlock ==
  \E first, last \in Nat : \A i \in 1 .. Len(rows) :
    rows[i] = "container" <=> first <= i /\ i <= last

Full == ~(offset < FieldLines /\ cursor < FieldHeight)

\* A row that lost lines has filled the field: nothing follows it.
CutRowsFill == \A i \in 1 .. Len(shown) : shown[i] \/ Full

GridInv == GridTyped /\ OneBlock /\ CutRowsFill /\ TotalsCoverTheList

LEMMA RowDrawn ==
  ASSUME GridTyped, NEW wanted \in CellLines, DrawRow(wanted)
  PROVE  /\ \E whole \in BOOLEAN :
               /\ shown' = Append(shown, whole)
               /\ ~whole => Full'
               /\ totals' => totals \/ (LastContainer(at) /\ whole)
         /\ cursor' \in Nat /\ offset' \in Nat /\ totals' \in BOOLEAN
         /\ at' = at + 1 /\ at <= Len(rows) /\ rows' = rows /\ ~Full
<1>. DEFINE byLines  == FieldLines - offset
            byHeight == (FieldHeight - cursor) \div LineStep + 1
            lines    == IF wanted < Remaining THEN wanted ELSE Remaining
            below    == cursor + lines * LineStep
            totalTop == below + UnderlineGap + TotalGap
            closes   == LastContainer(at) /\ figures
            fits     == TotalsFit(totalTop, offset + lines)
            whole    == /\ wanted <= Remaining
                        /\ cursor + (wanted - 1) * LineStep < FieldHeight
<1>1. /\ at <= Len(rows) /\ offset < FieldLines /\ cursor < FieldHeight
      /\ shown' = Append(shown, whole) /\ totals' = (totals \/ (closes /\ fits))
      /\ at' = at + 1 /\ rows' = rows
      /\ IF closes
         THEN /\ cursor' = LineStep + IF fits THEN totalTop + LineStep
                                      ELSE below + UnderlineGap + 20
              /\ offset' = offset + lines + 1 + IF fits THEN 1 ELSE 0
         ELSE IF BlockBoundary(at)
         THEN cursor' = below + LineStep /\ offset' = offset + lines + 1
         ELSE cursor' = below + RowPad /\ offset' = offset + lines
  BY DEF DrawRow, Drawable
<1>2. FieldLines \in Nat
  BY GridConstants, Quotients DEF FieldLines
<1>3. wanted \in Nat \ {0}
  BY GridConstants
<1>4. /\ byLines \in Nat \ {0} /\ byHeight \in Nat \ {0}
      /\ FieldHeight - cursor < byHeight * LineStep
  <2>1. FieldHeight - cursor \in Nat
    BY <1>1, GridConstants DEF GridTyped
  <2>2. /\ (FieldHeight - cursor) \div LineStep \in Nat
        /\ FieldHeight - cursor < ((FieldHeight - cursor) \div LineStep + 1) * LineStep
    BY <2>1, GridConstants, Quotients
  <2>. QED
    BY <1>1, <1>2, <2>2 DEF GridTyped
<1>5. Remaining = IF byLines < byHeight THEN byLines ELSE byHeight
  BY DEF Remaining
<1>6. lines \in Nat \ {0} /\ (lines = wanted \/ lines = byLines \/ lines = byHeight)
      /\ (lines # wanted => wanted > Remaining) /\ Remaining \in Nat
      /\ (wanted > Remaining => lines = byLines \/ lines = byHeight)
  <2>. HIDE DEF byLines, byHeight
  <2>. QED
    BY <1>3, <1>4, <1>5
<1>7. lines * LineStep \in Nat /\ below \in Nat /\ totalTop \in Nat /\ below <= totalTop
  <2>. HIDE DEF lines
  <2>1. lines * LineStep \in Nat
    BY <1>6, GridConstants, Products
  <2>. QED
    BY <2>1, GridConstants, SMTT(30) DEF GridTyped
<1>8. ~whole => offset + lines >= FieldLines \/ below >= FieldHeight
  <2>1. CASE wanted > Remaining
    <3>1. CASE lines = byLines
      BY <1>2, <3>1 DEF GridTyped
    <3>2. CASE lines = byHeight
      <4>1. FieldHeight - cursor < lines * LineStep
        BY <1>4, <3>2
      <4>. HIDE DEF lines
      <4>. QED
        BY <1>7, <4>1, GridConstants, SMTT(30) DEF GridTyped
    <3>. QED
      BY <1>6, <2>1, <3>1, <3>2
  <2>2. CASE ~(wanted > Remaining)
    <3>1. lines = wanted /\ wanted <= Remaining
      BY <1>3, <1>6, <2>2
    <3>2. wanted * LineStep = (wanted - 1) * LineStep + LineStep
      BY <1>3, GridConstants
    <3>3. (wanted - 1) * LineStep \in Nat
      BY <1>3, GridConstants, Products
    <3>. QED
      BY <1>7, <3>1, <3>2, <3>3, GridConstants, SMTT(30) DEF GridTyped
  <2>. QED
    BY <2>1, <2>2
<1>. HIDE DEF lines, whole
<1>9. ~whole => ~fits
  <2>1. fits <=> totalTop < FieldHeight /\ offset + lines < FieldLines
    BY DEF TotalsFit
  <2>. QED
    BY <1>2, <1>6, <1>7, <1>8, <2>1, GridConstants DEF GridTyped
<1>. HIDE DEF below, totalTop, closes, fits
<1>10. /\ cursor' \in Nat /\ offset' \in Nat
       /\ cursor' >= below /\ offset' >= offset + lines
  <2>1. totalTop \in Nat /\ below \in Nat /\ below <= totalTop /\ lines \in Nat
    BY <1>6, <1>7
  <2>2. CASE closes /\ fits
    BY <1>1, <2>1, <2>2, GridConstants DEF GridTyped
  <2>3. CASE closes /\ ~fits
    BY <1>1, <2>1, <2>3, GridConstants DEF GridTyped
  <2>4. CASE ~closes
    BY <1>1, <2>1, <2>4, GridConstants DEF GridTyped
  <2>. QED
    BY <2>2, <2>3, <2>4
<1>11. ~whole => Full'
  <2>1. FieldLines' = FieldLines
    BY DEF FieldLines
  <2>. QED
    BY <1>2, <1>6, <1>7, <1>8, <1>10, <2>1, GridConstants DEF Full, GridTyped
<1>12. whole \in BOOLEAN
  BY DEF whole
<1>13. totals' => totals \/ (LastContainer(at) /\ whole)
  BY <1>1, <1>9 DEF closes
<1>14. totals' \in BOOLEAN
  BY <1>1 DEF GridTyped, closes, fits, TotalsFit
<1>. QED
  BY <1>1, <1>10, <1>11, <1>12, <1>13, <1>14 DEF Full

LEMMA Joined ==
  ASSUME NEW S, NEW s \in Seq(S), NEW t \in Seq(S)
  PROVE  /\ s \o t \in Seq(S) /\ Len(s \o t) = Len(s) + Len(t)
         /\ \A i \in 1 .. Len(s) + Len(t) :
              (s \o t)[i] = IF i <= Len(s) THEN s[i] ELSE t[i - Len(s)]
OBVIOUS

LEMMA GridStarts == ASSUME GridInit PROVE GridInv
<1>1. PICK header \in BOOLEAN, n \in 0 .. MaxContainers : rows = BlRows(header, n)
  BY DEF GridInit
<1>2. n \in Nat
  BY <1>1, GridConstants
<1>. DEFINE boxes == [i \in 1 .. n |-> "container"]
            mark == <<"shippingMark">>
            head == <<"fclHeader">>
            none == <<>>
<1>3. boxes \in Seq(RowKinds) /\ Len(boxes) = n /\ \A i \in 1..n : boxes[i] = "container"
  <2>1. boxes \in [1..n -> RowKinds]
    BY DEF RowKinds
  <2>. QED
    BY <1>2, <2>1
<1>4. /\ mark \in Seq(RowKinds) /\ Len(mark) = 1 /\ mark[1] # "container"
      /\ head \in Seq(RowKinds) /\ Len(head) = 1 /\ head[1] # "container"
      /\ none \in Seq(RowKinds) /\ Len(none) = 0
  BY DEF RowKinds
<1>5. rows = (IF header THEN head ELSE none) \o boxes \o mark
  BY <1>1 DEF BlRows
<1>. HIDE DEF boxes, mark, head, none
<1>6. PICK before \in {head, none} : rows = before \o boxes \o mark
  BY <1>5
<1>. DEFINE top == before \o boxes
            k == Len(before)
<1>7. /\ before \in Seq(RowKinds) /\ k \in {0, 1}
      /\ \A i \in 1 .. k : before[i] # "container"
  <2>1. CASE before = head
    <3>1. k = 1
      BY <1>4, <2>1
    <3>2. \A i \in 1 .. k : i = 1
      BY <3>1
    <3>. QED
      BY <1>4, <2>1, <3>1, <3>2
  <2>2. CASE before = none
    <3>1. k = 0
      BY <1>4, <2>2
    <3>2. 1 .. k = {}
      BY <3>1
    <3>. QED
      BY <1>4, <2>2, <3>1, <3>2
  <2>. QED
    BY <1>6, <2>1, <2>2
<1>8. /\ top \in Seq(RowKinds) /\ Len(top) = k + n
      /\ \A i \in 1 .. k + n : top[i] = "container" <=> k + 1 <= i
  <2>1. /\ top \in Seq(RowKinds) /\ Len(top) = k + n
        /\ \A i \in 1 .. k + n : top[i] = IF i <= k THEN before[i] ELSE boxes[i - k]
    BY <1>3, <1>7, Joined
  <2>2. ASSUME NEW i \in 1 .. k + n PROVE top[i] = "container" <=> k + 1 <= i
    <3>. HIDE DEF top, k
    <3>1. CASE i <= k
      BY <1>2, <1>7, <2>1, <3>1
    <3>2. CASE ~(i <= k)
      <4>1. i - k \in 1 .. n
        BY <1>2, <1>7, <3>2
      <4>2. top[i] = boxes[i - k]
        BY <2>1, <3>2
      <4>. QED
        BY <1>2, <1>3, <1>7, <3>2, <4>1, <4>2
    <3>. QED
      BY <3>1, <3>2
  <2>. QED
    BY <2>1, <2>2
<1>. HIDE DEF top, k
<1>9. /\ rows \in Seq(RowKinds) /\ Len(rows) = k + n + 1
      /\ \A i \in 1 .. k + n + 1 :
           rows[i] = IF i <= k + n THEN top[i] ELSE mark[i - (k + n)]
  <2>1. rows = top \o mark
    BY <1>6 DEF top
  <2>2. /\ rows \in Seq(RowKinds) /\ Len(rows) = Len(top) + Len(mark)
        /\ \A i \in 1 .. Len(top) + Len(mark) :
             rows[i] = IF i <= Len(top) THEN top[i] ELSE mark[i - Len(top)]
    <3>1. top \in Seq(RowKinds) /\ mark \in Seq(RowKinds)
      BY <1>4, <1>8
    <3>2. /\ top \o mark \in Seq(RowKinds) /\ Len(top \o mark) = Len(top) + Len(mark)
          /\ \A i \in 1 .. Len(top) + Len(mark) :
               (top \o mark)[i] = IF i <= Len(top) THEN top[i] ELSE mark[i - Len(top)]
      BY <3>1, Joined
    <3>. QED
      BY <2>1, <3>2
  <2>. QED
    BY <1>4, <1>8, <2>2
<1>10. \A i \in 1 .. Len(rows) : rows[i] = "container" <=> k + 1 <= i /\ i <= k + n
  <2>. SUFFICES ASSUME NEW i \in 1 .. k + n + 1
                PROVE  rows[i] = "container" <=> k + 1 <= i /\ i <= k + n
    BY <1>9
  <2>1. CASE i <= k + n
    <3>1. i \in 1 .. k + n /\ rows[i] = top[i]
      BY <1>2, <1>7, <1>9, <2>1
    <3>. QED
      BY <1>8, <2>1, <3>1
  <2>2. CASE ~(i <= k + n)
    <3>1. i - (k + n) = 1 /\ rows[i] = mark[i - (k + n)]
      BY <1>2, <1>7, <1>9, <2>2
    <3>. QED
      BY <1>4, <2>2, <3>1
  <2>. QED
    BY <2>1, <2>2
<1>11. OneBlock
  <2>1. k + 1 \in Nat /\ k + n \in Nat
    BY <1>2, <1>7
  <2>. QED
    BY <1>10, <2>1 DEF OneBlock
<1>12. at = 1 /\ cursor = 0 /\ offset = 0 /\ shown = <<>> /\ totals = FALSE
  BY DEF GridInit
<1>13. shown \in Seq(BOOLEAN) /\ Len(shown) = 0 /\ Len(rows) \in Nat
  BY <1>9, <1>12
<1>14. GridTyped
  <2>1. totals \in BOOLEAN
    BY <1>12
  <2>2. /\ at \in Nat /\ 1 <= at /\ at <= Len(rows) + 1 /\ Len(shown) = at - 1
        /\ cursor \in Nat /\ offset \in Nat
    BY <1>12, <1>13
  <2>. QED
    BY <1>9, <1>13, <2>1, <2>2 DEF GridTyped
<1>15. CutRowsFill /\ TotalsCoverTheList
  BY <1>12, <1>13 DEF CutRowsFill, TotalsCoverTheList
<1>. QED
  BY <1>11, <1>14, <1>15 DEF GridInv

LEMMA GridStep == ASSUME GridInv, [GridNext]_gridVars PROVE GridInv'
<1>1. CASE UNCHANGED gridVars
  <2>1. Full' = Full
    BY <1>1 DEF gridVars, Full, FieldLines
  <2>. QED
    BY <1>1, <2>1 DEF gridVars, GridInv, GridTyped, OneBlock, CutRowsFill, TotalsCoverTheList
<1>2. ASSUME NEW wanted \in CellLines, DrawRow(wanted) PROVE GridInv'
  <2>. USE DEF GridInv
  <2>1. /\ cursor' \in Nat /\ offset' \in Nat /\ totals' \in BOOLEAN
        /\ at' = at + 1 /\ at <= Len(rows) /\ rows' = rows /\ ~Full
    BY <1>2, RowDrawn
  <2>2. PICK whole \in BOOLEAN : /\ shown' = Append(shown, whole)
                                 /\ ~whole => Full'
                                 /\ totals' => totals \/ (LastContainer(at) /\ whole)
    BY <1>2, RowDrawn
  <2>3. /\ shown' \in Seq(BOOLEAN) /\ Len(shown') = at /\ at \in Nat /\ shown'[at] = whole
        /\ \A i \in 1 .. (at - 1) : shown'[i] = shown[i]
    BY <2>2 DEF GridTyped
  <2>4. GridTyped' /\ OneBlock'
    <3>1. Len(rows) \in Nat /\ at' \in Nat /\ at' - 1 = at /\ 1 <= at' /\ at' <= Len(rows) + 1
      BY <2>1, <2>3 DEF GridTyped
    <3>2. GridTyped'
      BY <2>1, <2>3, <3>1 DEF GridTyped
    <3>3. OneBlock'
      BY <2>1 DEF OneBlock
    <3>. QED
      BY <3>2, <3>3
  <2>5. \A i \in 1 .. (at - 1) : shown'[i]
    <3>1. \A i \in 1 .. (at - 1) : shown[i]
      BY <2>1 DEF CutRowsFill, GridTyped
    <3>. QED
      BY <2>3, <3>1
  <2>6. \A i \in 1 .. at : i = at \/ i \in 1 .. (at - 1)
    BY <2>3
  <2>7. CutRowsFill'
    BY <2>2, <2>3, <2>5, <2>6 DEF CutRowsFill
  <2>8. TotalsCoverTheList'
    <3>. SUFFICES ASSUME totals', NEW i \in 1 .. Len(rows), rows[i] = "container"
                  PROVE  i <= at /\ shown'[i]
      BY <2>1, <2>3 DEF TotalsCoverTheList
    <3>1. CASE totals
      <4>1. i <= at - 1
        BY <3>1 DEF TotalsCoverTheList, GridTyped
      <4>. QED
        BY <2>3, <2>5, <4>1
    <3>2. CASE LastContainer(at) /\ whole
      <4>1. i <= at
        <5>1. PICK first \in Nat, last \in Nat : \A j \in 1 .. Len(rows) :
                rows[j] = "container" <=> first <= j /\ j <= last
          BY DEF OneBlock
        <5>2. first <= i /\ i <= last /\ first <= at /\ at <= last /\ at \in 1 .. Len(rows)
          BY <2>1, <3>2, <5>1 DEF LastContainer, GridTyped
        <5>3. at + 1 \in 1 .. Len(rows) => ~(at + 1 <= last)
          BY <3>2, <5>1, <5>2 DEF LastContainer, GridTyped
        <5>. QED
          BY <5>2, <5>3 DEF GridTyped
      <4>2. i \in 1 .. at /\ (i = at \/ i \in 1 .. (at - 1))
        BY <2>3, <2>6, <4>1
      <4>3. CASE i = at
        BY <2>3, <3>2, <4>1, <4>3
      <4>4. CASE i \in 1 .. (at - 1)
        BY <2>5, <4>1, <4>4
      <4>. QED
        BY <4>2, <4>3, <4>4
    <3>. QED
      BY <2>2, <3>1, <3>2
  <2>. QED
    BY <2>4, <2>7, <2>8
<1>. QED
  BY <1>1, <1>2 DEF GridNext

\* The totals of a Bill of Lading stand under a list that is printed whole,
\* whatever the measures of the field and the lines each row takes.
THEOREM TotalsCoverTheListHolds == GridSpec => []TotalsCoverTheList
<1>1. GridInv => TotalsCoverTheList
  BY DEF GridInv
<1>2. QED
  BY <1>1, GridStarts, GridStep, PTL DEF GridSpec

-----------------------------------------------------------------------------
(***************************************************************************)
(* The object store, for any number of requests and keys, any pages and     *)
(* any order of the store's answers.  A content that nobody overwrote or    *)
(* deleted is stored under a key that no rename is about to delete.         *)
(***************************************************************************)

\* A rename takes files from under its source only.
TaskFits(q) ==
  /\ {"op", "pc"} \subseteq DOMAIN q
  /\ q.op = "rename" =>
       /\ {"from", "folder", "batch", "more", "copied", "after", "count"} \subseteq DOMAIN q
       /\ \A k \in q.batch \cup q.copied : Within(q.from, q.folder, k)
       /\ q.pc = "list" \/ q.pc = "count" \/ q.more => q.folder
  /\ q.pc \in {"list", "count", "copy", "drop", "erase"} => q.op \in {"rename", "delete"}
  /\ q.pc \in {"copy", "drop"} => q.op = "rename"
  /\ q.pc = "put" => q.op = "put"

Dropping(key) == \E s \in StorageSlots : task[s].op = "rename" /\ key \in task[s].copied

Safe(c) == \E k \in Stored : bucket[k] = c /\ ~Dropping(k)

StorageInv ==
  /\ newest \in Nat
  /\ task = [s \in StorageSlots |-> task[s]]
  /\ \A s \in StorageSlots : TaskFits(task[s])
  /\ \A c \in 1 .. newest \ excused : Safe(c)

\* A step of one request that copies nothing.
LEMMA TaskSteps ==
  ASSUME StorageInv, NEW s \in StorageSlots, NEW q, task' = [task EXCEPT ![s] = q], TaskFits(q),
         q.op = "rename" => task[s].op = "rename" /\ q.copied \subseteq task[s].copied
  PROVE  /\ task' = [t \in StorageSlots |-> task'[t]]
         /\ \A t \in StorageSlots : TaskFits(task[t])'
         /\ \A key : Dropping(key)' => Dropping(key)
<1>1. task' = [t \in StorageSlots |-> task'[t]]
      /\ \A t \in StorageSlots : task'[t] = IF t = s THEN q ELSE task[t]
  BY DEF StorageInv
<1>2. \A t \in StorageSlots : TaskFits(task'[t])
  BY <1>1 DEF StorageInv
<1>3. \A key : Dropping(key)' => Dropping(key)
  BY <1>1 DEF Dropping
<1>. QED
  BY <1>1, <1>2, <1>3 DEF TaskFits, Within, Under

\* What is stored stays; nothing new is to be deleted.
LEMMA KeptSafe ==
  ASSUME StorageInv, \A key : Dropping(key)' => Dropping(key), bucket' = bucket, newest' = newest,
         excused \subseteq excused'
  PROVE  \A c \in 1 .. newest' \ excused' : Safe(c)'
BY DEF StorageInv, Safe, Stored

LEMMA StorageStarts == StorageInit => StorageInv
<1>. SUFFICES ASSUME StorageInit PROVE StorageInv
  OBVIOUS
<1>. DEFINE files == {k \in DOMAIN bucket : bucket[k] # Directory}
<1>1. IsFiniteSet(files) /\ {bucket[k] : k \in files} = 1 .. Cardinality(files)
  BY StartAssumption DEF StorageInit
<1>2. newest = Cardinality(files)
  BY DEF StorageInit, Stored
<1>3. newest \in Nat
  BY <1>1, <1>2, FS_CardinalityType
<1>4. \A s \in StorageSlots : task[s] = [op |-> "none", pc |-> "idle"]
  BY DEF StorageInit, NoTask
<1>5. \A s \in StorageSlots : TaskFits(task[s])
  BY <1>4 DEF TaskFits
<1>6. \A key : ~Dropping(key)
  BY <1>4 DEF Dropping
<1>7. \A c \in 1 .. newest : Safe(c)
  <2>. SUFFICES ASSUME NEW c \in 1 .. newest PROVE Safe(c)
    OBVIOUS
  <2>1. PICK k \in files : bucket[k] = c
    BY <1>1, <1>2
  <2>. QED
    BY <2>1, <1>6 DEF Safe, Stored
<1>. QED
  BY <1>3, <1>5, <1>7 DEF StorageInv, StorageInit

\* A request that begins drops nothing yet.
LEMMA StartKeeps ==
  ASSUME StorageInv, NEW s \in StorageSlots, NEW q, Start(s, q), TaskFits(q),
         q.op = "rename" => q.copied = {}
  PROVE  StorageInv'
<1>1. task' = [task EXCEPT ![s] = q] /\ bucket' = bucket /\ newest' = newest /\ excused' = excused
  BY DEF Start
<1>2. task' = [t \in StorageSlots |-> task'[t]]
      /\ \A t \in StorageSlots : task'[t] = IF t = s THEN q ELSE task[t]
  BY <1>1 DEF StorageInv
<1>3. \A t \in StorageSlots : TaskFits(task'[t])
  BY <1>2 DEF StorageInv
<1>4. \A key : Dropping(key)' => Dropping(key)
  BY <1>2 DEF Dropping
<1>. QED
  BY <1>1, <1>2, <1>3, <1>4, KeptSafe DEF StorageInv, TaskFits, Within, Under

LEMMA StartsKeep ==
  ASSUME StorageInv, NEW s \in StorageSlots, StorageStart(s)
  PROVE  StorageInv'
<1>1. ASSUME NEW key, StartPut(s, key) PROVE StorageInv'
  <2>. DEFINE q == [op |-> "put", pc |-> "put", key |-> key]
  <2>1. TaskFits(q) /\ q.op # "rename"
    BY DEF TaskFits
  <2>2. Start(s, q)
    BY <1>1 DEF StartPut
  <2>. HIDE DEF q
  <2>. QED
    BY <2>1, <2>2, StartKeeps
<1>2. ASSUME NEW path, NEW folder \in BOOLEAN, StartDelete(s, path, folder) PROVE StorageInv'
  <2>. DEFINE q == [op |-> "delete", pc |-> IF folder THEN "count" ELSE "erase",
                    from |-> path, folder |-> folder, count |-> 0,
                    after |-> <<>>, batch |-> IF folder THEN {} ELSE {path},
                    more |-> FALSE]
  <2>1. TaskFits(q) /\ q.op # "rename"
    BY DEF TaskFits
  <2>2. Start(s, q)
    BY <1>2 DEF StartDelete
  <2>. HIDE DEF q
  <2>. QED
    BY <2>1, <2>2, StartKeeps
<1>3. ASSUME NEW from, NEW to, NEW folder \in BOOLEAN, StartRename(s, from, to, folder)
      PROVE  StorageInv'
  <2>. DEFINE found == [k \in {l \in Stored : Within(from, folder, l)} |-> bucket[k]]
  <2>. HIDE DEF found
  <2>. DEFINE q == [op |-> "rename", pc |-> IF folder THEN "count" ELSE "copy",
                    from |-> from, to |-> to, folder |-> folder, count |-> 0,
                    after |-> <<>>, batch |-> IF folder THEN {} ELSE {from}, more |-> FALSE,
                    copied |-> {}, found |-> found]
  <2>1. TaskFits(q) /\ q.copied = {}
    BY DEF TaskFits, Within
  <2>2. Start(s, q)
    BY <1>3 DEF StartRename, found
  <2>. HIDE DEF q
  <2>. QED
    BY <2>1, <2>2, StartKeeps
<1>. QED
  BY <1>1, <1>2, <1>3 DEF StorageStart

\* A step that only changes the request, or ends it.
LEMMA QuietKeeps ==
  ASSUME StorageInv, NEW s \in StorageSlots, NEW q, task' = [task EXCEPT ![s] = q],
         TaskFits(q), q.op = "rename" => task[s].op = "rename" /\ q.copied = task[s].copied,
         bucket' = bucket, newest' = newest, excused' = excused
  PROVE  StorageInv'
<1>1. q.op = "rename" => task[s].op = "rename" /\ q.copied \subseteq task[s].copied
  OBVIOUS
<1>. QED
  BY <1>1, TaskSteps, KeptSafe DEF StorageInv

LEMMA EndKeeps ==
  ASSUME StorageInv, NEW s \in StorageSlots, task' = [task EXCEPT ![s] = NoTask],
         bucket' = bucket, newest' = newest, excused' = excused
  PROVE  StorageInv'
<1>1. TaskFits(NoTask) /\ NoTask.op # "rename"
  BY DEF TaskFits, NoTask
<1>. QED
  BY <1>1, QuietKeeps

LEMMA QuietStepsKeep ==
  ASSUME StorageInv, NEW s \in StorageSlots, Count(s) \/ List(s) \/ Reply(s) \/ Break(s)
  PROVE  StorageInv'
<1>. DEFINE t == task[s]
            page == Listed(t.from, t.after)
<1>1. TaskFits(t)
  BY DEF StorageInv
<1>2. CASE Reply(s) \/ Break(s)
  BY <1>2, EndKeeps DEF Reply, Break
<1>3. CASE Count(s)
  <2>. DEFINE total == t.count + Cardinality(page)
              last == LastOf(page)
              q1 == [t EXCEPT !.count = total, !.after = last]
              q2 == [t EXCEPT !.pc = "list", !.count = total, !.after = <<>>]
  <2>1. t.pc = "count"
    BY <1>3 DEF Count
  <2>2. task' = [task EXCEPT ![s] = NoTask] \/ task' = [task EXCEPT ![s] = q1]
        \/ task' = [task EXCEPT ![s] = q2]
    BY <1>3 DEF Count
  <2>3. bucket' = bucket /\ newest' = newest /\ excused' = excused
    BY <1>3 DEF Count
  <2>. HIDE DEF total, last, t
  <2>4. TaskFits(q1) /\ q1.op = t.op /\ (q1.op = "rename" => q1.copied = t.copied)
    BY <1>1, <2>1 DEF TaskFits
  <2>5. TaskFits(q2) /\ q2.op = t.op /\ (q2.op = "rename" => q2.copied = t.copied)
    BY <1>1, <2>1 DEF TaskFits
  <2>. HIDE DEF q1, q2
  <2>. QED
    BY <2>2, <2>3, <2>4, <2>5, EndKeeps, QuietKeeps DEF t
<1>4. CASE List(s)
  <2>. DEFINE more == IsTruncated(t.from, t.after)
              after == AfterPage(t.from, t.after, page)
              q1 == [t EXCEPT !.pc = "done", !.more = FALSE]
              q2 == [t EXCEPT !.pc = IF t.op = "rename" THEN "copy" ELSE "erase",
                              !.batch = page, !.more = more, !.after = after]
  <2>1. t.pc = "list"
    BY <1>4 DEF List
  <2>2. task' = [task EXCEPT ![s] = q1] \/ task' = [task EXCEPT ![s] = q2]
    BY <1>4 DEF List
  <2>3. bucket' = bucket /\ newest' = newest /\ excused' = excused
    BY <1>4 DEF List
  <2>4. \A k \in page : Under(t.from, k)
    BY DEF Listed, Rest
  <2>. HIDE DEF more, after, page, t
  <2>5. TaskFits(q1) /\ q1.op = t.op /\ (q1.op = "rename" => q1.copied = t.copied)
    BY <1>1, <2>1 DEF TaskFits
  <2>6. TaskFits(q2) /\ q2.op = t.op /\ (q2.op = "rename" => q2.copied = t.copied)
    BY <1>1, <2>1, <2>4 DEF TaskFits, Within
  <2>. HIDE DEF q1, q2
  <2>. QED
    BY <2>2, <2>3, <2>5, <2>6, QuietKeeps DEF t
<1>. QED
  BY <1>2, <1>3, <1>4

\* What a write leaves behind: the content written is not to be dropped by
\* another request, or it is excused; nothing else is lost.
LEMMA WriteKeeps ==
  ASSUME StorageInv, NEW s \in StorageSlots, NEW key, NEW content, Write(s, key, content),
         \A t \in StorageSlots : TaskFits(task[t])
  PROVE  /\ \A c \in (1 .. newest) \ excused' :
              c # content => \A k \in Stored :
                 bucket[k] = c => k # key /\ k \in Stored' /\ bucket'[k] = c
         /\ key \in Stored' /\ bucket'[key] = content
         /\ content \notin excused' =>
              \A t \in StorageSlots \ {s} : ~(task[t].op = "rename" /\ key \in task[t].copied)
         /\ \A k \in Stored : k # key => k \in Stored' /\ bucket'[k] = bucket[k]
         /\ excused \subseteq excused'
<1>1. bucket' = [k \in Stored \cup {key} |-> IF k = key THEN content ELSE bucket[k]]
  BY DEF Write
<1>2. Stored' = Stored \cup {key}
  BY <1>1 DEF Stored
<1>3. \A l \in Stored : l = key /\ bucket[l] # content => bucket[l] \in excused'
  BY DEF Write
<1>4. content \notin excused' => ~TakenFrom(s, key)
  BY DEF Write
<1>5. excused \subseteq excused'
  BY DEF Write
<1>6. \A t \in StorageSlots \ {s} : task[t].op = "rename" /\ key \in task[t].copied => TakenFrom(s, key)
  BY DEF TakenFrom, TaskFits
<1>. QED
  BY <1>1, <1>2, <1>3, <1>4, <1>5, <1>6

LEMMA PutKeeps ==
  ASSUME StorageInv, NEW s \in StorageSlots, Put(s)
  PROVE  StorageInv'
<1>. DEFINE t == task[s]
            key == t.key
            content == IF key[Len(key)] = Slash THEN Directory ELSE newest'
            q == [t EXCEPT !.pc = "done"]
<1>1. t.pc = "put" /\ Write(s, key, content) /\ task' = [task EXCEPT ![s].pc = "done"]
  BY DEF Put, Become
<1>2. newest' = newest \/ (newest' = newest + 1 /\ content = newest')
  BY DEF Put
<1>3. task' = [task EXCEPT ![s] = q]
  BY <1>1
<1>. HIDE DEF content, key
<1>4. TaskFits(t) /\ newest \in Nat /\ \A r \in StorageSlots : TaskFits(task[r])
  BY DEF StorageInv
<1>5. TaskFits(q) /\ q.op = "put" /\ t.op = "put"
  BY <1>1, <1>4 DEF TaskFits
<1>6. /\ task' = [r \in StorageSlots |-> task'[r]]
      /\ \A r \in StorageSlots : TaskFits(task[r])'
      /\ \A k : Dropping(k)' => Dropping(k)
  <2>. HIDE DEF q
  <2>. QED
    BY <1>3, <1>5, TaskSteps
<1>7. newest' \in Nat
  BY <1>2, <1>4
<1>8. \A c \in 1 .. newest \ excused : \E k \in Stored : bucket[k] = c /\ ~Dropping(k)
  BY DEF StorageInv, Safe
<1>9. ASSUME NEW c \in 1 .. newest' \ excused' PROVE Safe(c)'
  <2>1. CASE c = content
    <3>1. key \in Stored' /\ bucket'[key] = content /\ ~Dropping(key)
      BY <1>1, <1>4, <1>5, <1>9, <2>1, WriteKeeps DEF Dropping
    <3>. QED
      BY <2>1, <3>1, <1>6 DEF Safe
  <2>2. CASE c # content
    <3>1. c \in 1 .. newest
      BY <1>2, <1>4, <1>9, <2>2
    <3>2. c \notin excused
      BY <1>1, <1>4, <1>9, WriteKeeps
    <3>3. PICK k \in Stored : bucket[k] = c /\ ~Dropping(k)
      BY <1>8, <3>1, <3>2
    <3>4. k \in Stored' /\ bucket'[k] = c
      BY <1>1, <1>4, <1>9, <2>2, <3>1, <3>3, WriteKeeps
    <3>. QED
      BY <3>3, <3>4, <1>6 DEF Safe
  <2>. QED
    BY <2>1, <2>2
<1>. QED
  BY <1>6, <1>7, <1>9 DEF StorageInv

LEMMA CopyKeeps ==
  ASSUME StorageInv, NEW s \in StorageSlots, Copy(s)
  PROVE  StorageInv'
<1>. DEFINE t == task[s]
<1>1. t.pc = "copy" /\ newest' = newest
  BY DEF Copy
<1>2. PICK key \in t.batch :
        LET dest == Destination(t, key) IN
        IF key \in Stored /\ dest # key /\ Len(dest) <= KeyLength
          THEN /\ Write(s, dest, bucket[key])
               /\ task' = [task EXCEPT ![s] = [t EXCEPT !.pc = "drop", !.copied = {key}]]
          ELSE /\ task' = [task EXCEPT ![s] = NoTask]
               /\ UNCHANGED <<bucket, excused>>
  BY DEF Copy
<1>. DEFINE dest == Destination(t, key)
            q == [t EXCEPT !.pc = "drop", !.copied = {key}]
<1>3. CASE key \in Stored /\ dest # key /\ Len(dest) <= KeyLength
  <2>1. Write(s, dest, bucket[key]) /\ task' = [task EXCEPT ![s] = q]
    BY <1>2, <1>3
  <2>2. key \in Stored /\ dest # key
    BY <1>3
  <2>. HIDE DEF dest
  <2>3. TaskFits(t) /\ newest \in Nat /\ \A r \in StorageSlots : TaskFits(task[r])
    BY DEF StorageInv
  <2>4. TaskFits(q) /\ q.op = "rename" /\ t.op = "rename" /\ q.copied = {key}
    BY <1>1, <2>3 DEF TaskFits
  <2>. HIDE DEF q
  <2>5. /\ task' = [r \in StorageSlots |-> task'[r]]
        /\ \A r \in StorageSlots : task'[r] = IF r = s THEN q ELSE task[r]
    BY <2>1 DEF StorageInv
  <2>6. \A r \in StorageSlots : TaskFits(task'[r])
    BY <2>3, <2>4, <2>5
  <2>7. \A k : k # key /\ ~(\E r \in StorageSlots \ {s} : task[r].op = "rename" /\ k \in task[r].copied)
          => ~Dropping(k)'
    BY <2>4, <2>5 DEF Dropping
  <2>8. \A c \in 1 .. newest \ excused : \E k \in Stored : bucket[k] = c /\ ~Dropping(k)
    BY DEF StorageInv, Safe
  <2>9. ASSUME NEW c \in 1 .. newest \ excused' PROVE Safe(c)'
    <3>1. CASE c = bucket[key]
      <4>1. /\ dest \in Stored' /\ bucket'[dest] = c
            /\ \A r \in StorageSlots \ {s} : ~(task[r].op = "rename" /\ dest \in task[r].copied)
        BY <2>1, <2>3, <2>9, <3>1, WriteKeeps
      <4>2. PICK k : k = dest
        OBVIOUS
      <4>3. ~Dropping(k)'
        BY <2>2, <2>7, <4>1, <4>2
      <4>. QED
        BY <4>1, <4>2, <4>3 DEF Safe
    <3>2. CASE c # bucket[key]
      <4>1. c \notin excused
        BY <2>1, <2>3, <2>9, WriteKeeps
      <4>2. PICK k \in Stored : bucket[k] = c /\ ~Dropping(k)
        BY <2>8, <4>1, <2>9
      <4>3. k \in Stored' /\ bucket'[k] = c
        BY <2>1, <2>3, <2>9, <3>2, <4>2, WriteKeeps
      <4>4. ~Dropping(k)'
        BY <2>7, <3>2, <4>2 DEF Dropping
      <4>. QED
        BY <4>3, <4>4 DEF Safe
    <3>. QED
      BY <3>1, <3>2
  <2>. QED
    BY <1>1, <2>3, <2>5, <2>6, <2>9 DEF StorageInv, TaskFits, Within, Under
<1>4. CASE ~(key \in Stored /\ dest # key /\ Len(dest) <= KeyLength)
  BY <1>1, <1>2, <1>4, EndKeeps
<1>. QED
  BY <1>3, <1>4

\* Keys are erased, and the request goes on.
LEMMA EraseKeeps ==
  ASSUME StorageInv, NEW s \in StorageSlots, NEW keys, NEW q,
         bucket' = [k \in Stored \ keys |-> bucket[k]],
         task' = [task EXCEPT ![s] = q], TaskFits(q),
         q.op = "rename" => task[s].op = "rename" /\ q.copied \subseteq task[s].copied,
         \A k \in keys \cap Stored : Dropping(k) \/ bucket[k] \in excused',
         newest' = newest, excused \subseteq excused'
  PROVE  StorageInv'
<1>1. /\ task' = [r \in StorageSlots |-> task'[r]]
      /\ \A r \in StorageSlots : TaskFits(task[r])'
      /\ \A k : Dropping(k)' => Dropping(k)
  BY TaskSteps
<1>2. \A c \in 1 .. newest \ excused : \E k \in Stored : bucket[k] = c /\ ~Dropping(k)
  BY DEF StorageInv, Safe
<1>3. Stored' = Stored \ keys /\ \A k \in Stored' : bucket'[k] = bucket[k]
  BY DEF Stored
<1>4. ASSUME NEW c \in 1 .. newest \ excused' PROVE Safe(c)'
  <2>1. PICK k \in Stored : bucket[k] = c /\ ~Dropping(k)
    BY <1>2, <1>4
  <2>2. k \notin keys
    BY <1>4, <2>1
  <2>. QED
    BY <1>1, <1>3, <2>1, <2>2 DEF Safe
<1>. QED
  BY <1>1, <1>4 DEF StorageInv

LEMMA DropKeeps ==
  ASSUME StorageInv, NEW s \in StorageSlots, Drop(s)
  PROVE  StorageInv'
<1>. DEFINE t == task[s]
            left == t.batch \ t.copied
            q == [t EXCEPT !.copied = {}, !.batch = left,
                           !.pc = IF left # {} THEN "copy" ELSE IF t.more THEN "list" ELSE "done"]
<1>1. /\ t.pc = "drop" /\ bucket' = [k \in Stored \ t.copied |-> bucket[k]]
      /\ newest' = newest /\ excused' = excused
  BY DEF Drop, Erase
<1>2. task' = [task EXCEPT ![s] = Onward([t EXCEPT !.copied = {}], left)]
  BY DEF Drop
<1>3. TaskFits(t)
  BY DEF StorageInv
<1>4. Onward([t EXCEPT !.copied = {}], left) = q
  <2>. HIDE DEF t, left
  <2>1. {"batch", "more", "copied", "pc"} \subseteq DOMAIN t
    BY <1>1, <1>3 DEF TaskFits
  <2>. QED
    BY <2>1 DEF Onward
<1>5. TaskFits(q) /\ q.copied = {} /\ q.op = "rename" /\ t.op = "rename"
  <2>. HIDE DEF t
  <2>. QED
    BY <1>1, <1>3 DEF TaskFits
<1>6. \A k \in t.copied : Dropping(k)
  BY <1>5 DEF Dropping
<1>. HIDE DEF q
<1>. QED
  BY <1>1, <1>2, <1>4, <1>5, <1>6, EraseKeeps

LEMMA EraseBatchKeeps ==
  ASSUME StorageInv, NEW s \in StorageSlots, EraseBatch(s)
  PROVE  StorageInv'
<1>. DEFINE t == task[s]
            q == [t EXCEPT !.batch = {}, !.pc = IF t.more THEN "list" ELSE "done"]
<1>1. t.pc = "erase" /\ newest' = newest
  BY DEF EraseBatch
<1>2. task' = [task EXCEPT ![s] = q]
  BY DEF EraseBatch, Onward
<1>3. PICK gone : /\ bucket' = [k \in Stored \ gone |-> bucket[k]]
                  /\ excused' = excused \cup {bucket[k] : k \in gone \cap Stored}
  BY DEF EraseBatch, Erase
<1>4. TaskFits(t)
  BY DEF StorageInv
<1>5. TaskFits(q) /\ (q.op = "rename" => t.op = "rename" /\ q.copied = t.copied)
  <2>. HIDE DEF t
  <2>. QED
    BY <1>1, <1>4 DEF TaskFits
<1>. HIDE DEF q
<1>. QED
  BY <1>1, <1>2, <1>3, <1>5, EraseKeeps

LEMMA StorageSteps ==
  ASSUME StorageInv, [StorageNext]_storageVars
  PROVE  StorageInv'
<1>1. CASE UNCHANGED storageVars
  BY <1>1 DEF storageVars, StorageInv, TaskFits, Within, Under, Safe, Dropping, Stored
<1>2. ASSUME NEW s \in StorageSlots, StorageStep(s) \/ Break(s) \/ StorageStart(s)
      PROVE  StorageInv'
  BY <1>2, PutKeeps, CopyKeeps, DropKeeps, EraseBatchKeeps, QuietStepsKeep, StartsKeep
     DEF StorageStep
<1>. QED
  BY <1>1, <1>2 DEF StorageNext

\* However many requests rename, delete and upload at once, and wherever each of
\* them breaks off, no file's content is lost but by a request that deletes or
\* overwrites it, or that writes to where a rename takes its files from.
THEOREM NothingVanishesHolds == StorageSpec => []NothingVanishes
<1>1. StorageInv => NothingVanishes
  BY DEF StorageInv, Safe, NothingVanishes
<1>. QED
  BY <1>1, StorageStarts, StorageSteps, PTL DEF StorageSpec

-----------------------------------------------------------------------------
\* What is proved of a part holds in the whole back office: its behaviours are
\* behaviours of each part.
THEOREM PartsOfTheOffice ==
  OfficeSpec => PartnersSpec /\ EpdaSpec /\ PagesSpec /\ GridSpec /\ StorageSpec
<1>1. OfficeInit => PartnersInit /\ EpdaInit /\ PagesInit /\ GridInit /\ StorageInit
  BY DEF OfficeInit
<1>2. ASSUME [OfficeNext]_officeVars
      PROVE  /\ [PartnersNext]_partnerVars /\ [EpdaNext]_epdaVars /\ [PagesNext]_pageVars
             /\ [GridNext]_gridVars /\ [StorageNext]_storageVars
  <2>1. CASE UNCHANGED officeVars
    BY <2>1 DEF officeVars
  <2>2. CASE OfficeNext
    <3>1. \/ \E s \in StorageSlots : StorageStep(s) \/ Break(s) \/ StorageStart(s)
          \/ UNCHANGED storageVars
      BY <2>2 DEF OfficeNext, PrintPages, StoreFiles
    <3>2. PagesNext \/ UNCHANGED pageVars
      BY <2>2 DEF OfficeNext, PrintPages, StoreFiles
    <3>3. /\ PartnersNext \/ UNCHANGED partnerVars
          /\ EpdaNext \/ UNCHANGED epdaVars
          /\ GridNext \/ UNCHANGED gridVars
      BY <2>2 DEF OfficeNext, PrintPages, StoreFiles
    <3>. QED
      BY <3>1, <3>2, <3>3 DEF StorageNext
  <2>. QED
    BY <1>2, <2>1, <2>2
<1>. QED
  BY <1>1, <1>2, PTL
     DEF OfficeSpec, PartnersSpec, EpdaSpec, PagesSpec, GridSpec, StorageSpec
=============================================================================
