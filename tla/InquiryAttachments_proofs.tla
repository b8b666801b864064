----------------------- MODULE InquiryAttachments_proofs -----------------------
(***************************************************************************)
(* Proofs about InquiryAttachments for any number of files, any            *)
(* concurrency and any faults.                                             *)
(***************************************************************************)
EXTENDS InquiryAttachments, TLAPS

Pushed == 1..Len(persisted)

\* The file of worker w is its own: it was taken and is not pushed yet.
Held(w) == work[w].pc \in Busy \cup {"failed"}

\* What AcceptedHasAllFiles says of one file.
Kept(f) == f \in (rows \cap objects) \cup discarded \cup lost

\* Every file below nextIndex was taken once: it is held or pushed, not both.
TakenOnce ==
    /\ NoFileTwice
    /\ \A i \in Pushed : persisted[i] < nextIndex
    /\ \A w \in Workers : Held(w) => /\ work[w].file < nextIndex
                                     /\ \A i \in Pushed : persisted[i] # work[w].file
    /\ \A w, v \in Workers : Held(w) /\ Held(v) /\ w # v => work[w].file # work[v].file

NoneForgotten ==
    /\ \A f \in Files : f < nextIndex => \/ \E i \in Pushed : persisted[i] = f
                                         \/ \E w \in Workers : Held(w) /\ work[w].file = f
    /\ \A w \in Workers : work[w].pc = "done" => nextIndex > FileCount
    /\ phase = "accepted" => AllSaved

\* What a worker stored stays until somebody deletes it.
StoredIsKept ==
    /\ \A i \in Pushed : Kept(persisted[i])
    /\ \A w \in Workers :
        /\ work[w].pc = "save" => work[w].file \in objects \cup discarded
        /\ work[w].pc = "push" => Kept(work[w].file)
    /\ \A d \in Deleters : del[d].pc = "remove" => del[d].file \in discarded

\* What the loop has passed is gone, or it is just deleting it.
LoopLeavesNothing ==
    /\ pos <= Len(persisted) + 1
    /\ phase = "uploading" => pos = 1
    /\ \A i \in Pushed :
        i < pos /\ persisted[i] \in rows =>
            \/ persisted[i] \in lost
            \/ del["cleanup"].pc # "idle" /\ del["cleanup"].file = persisted[i]

IInv == TypeOK /\ TakenOnce /\ NoneForgotten /\ StoredIsKept /\ NoOrphanObject
        /\ LoopLeavesNothing

-----------------------------------------------------------------------------
PCs == Busy \cup {"take", "done", "failed"}
WorkRecord == [pc : PCs, file : Files]
DelRecord == [pc : {"idle", "destroy", "remove"}, file : Files]

LEMMA SomeWorker == 1 \in Workers /\ 1 \in Files
BY CountAssumption DEF Workers, Limit, Files

LEMMA GotoEffect ==
    ASSUME NEW w \in Workers, NEW pc \in PCs, work \in [Workers -> WorkRecord],
           Goto(w, pc)
    PROVE  /\ work' \in [Workers -> WorkRecord]
           /\ work'[w].pc = pc /\ work'[w].file = work[w].file
           /\ work[w].file \in Files
           /\ \A v \in Workers : v # w => work'[v] = work[v]
BY DEF Goto, WorkRecord

\* Whatever leaves the pool alone keeps its own part of the invariant.
LEMMA PoolUntouched ==
    ASSUME TakenOnce, NoneForgotten, UNCHANGED pool,
           phase' = "accepted" => AllSaved
    PROVE  TakenOnce' /\ NoneForgotten'
<1>1. nextIndex' = nextIndex /\ work' = work /\ persisted' = persisted
  BY DEF pool
<1>2. TakenOnce'
  BY <1>1 DEF TakenOnce, NoFileTwice, Pushed, Held
<1>3. NoneForgotten'
  BY <1>1 DEF NoneForgotten, Pushed, Held, AllSaved
<1>4. QED
  BY <1>2, <1>3

\* A worker that goes on with its file keeps it.
LEMMA SameFile ==
    ASSUME TypeOK, TakenOnce, NoneForgotten, NEW w \in Workers,
           NEW pc \in Busy \cup {"failed"}, work[w].pc \in Busy, Goto(w, pc),
           UNCHANGED <<nextIndex, persisted, phase>>
    PROVE  TakenOnce' /\ NoneForgotten'
<1>1. /\ nextIndex' = nextIndex /\ persisted' = persisted /\ phase' = phase
      /\ Pushed' = Pushed
  BY DEF Pushed
<1>2. /\ work'[w].pc = pc /\ work'[w].file = work[w].file
      /\ \A v \in Workers : v # w => work'[v] = work[v]
  BY GotoEffect DEF TypeOK, PCs, WorkRecord
<1>3. \A v \in Workers : Held(v)' = Held(v) /\ work'[v].file = work[v].file
  <2>1. Held(w)' /\ Held(w)
    BY <1>2 DEF Held
  <2>2. QED
    BY <1>2, <2>1 DEF Held
<1>4. TakenOnce'
  <2>1. NoFileTwice'
    BY <1>1 DEF TakenOnce, NoFileTwice
  <2>2. QED
    BY <1>1, <1>3, <2>1 DEF TakenOnce
<1>5. NoneForgotten'
  <2>1. \A v \in Workers : work'[v].pc = "done" => work[v].pc = "done"
    BY <1>2 DEF Busy
  <2>2. ~AllSaved
    BY DEF AllSaved, Busy
  <2>3. QED
    BY <1>1, <1>3, <2>1, <2>2 DEF NoneForgotten
<1>6. QED
  BY <1>4, <1>5

\* Growth of the history, or of what is stored, only helps.
LEMMA MoreIsKept ==
    ASSUME NEW f, Kept(f), rows \subseteq rows' \cup discarded',
           objects \subseteq objects' \cup discarded' \cup lost',
           discarded \subseteq discarded', lost \subseteq lost'
    PROVE  Kept(f)'
BY DEF Kept

-----------------------------------------------------------------------------
LEMMA InitInv == Init => IInv
<1> SUFFICES ASSUME Init PROVE IInv
  OBVIOUS
<1>1. persisted = <<>> /\ Len(persisted) = 0 /\ Pushed = {}
  BY DEF Init, Pushed
<1>2. \A w \in Workers : work[w].pc = "take" /\ work[w].file = 1 /\ ~Held(w)
  BY DEF Init, Held, Busy
<1>3. TypeOK
  BY <1>1, SomeWorker DEF Init, TypeOK
<1>4. TakenOnce
  BY <1>1, <1>2 DEF TakenOnce, NoFileTwice, Pushed
<1>5. NoneForgotten
  BY <1>2 DEF Init, NoneForgotten, Files
<1>6. StoredIsKept /\ NoOrphanObject
  BY <1>1, <1>2 DEF Init, StoredIsKept, NoOrphanObject
<1>7. LoopLeavesNothing
  BY <1>1 DEF Init, LoopLeavesNothing
<1>8. QED
  BY <1>3, <1>4, <1>5, <1>6, <1>7 DEF IInv

-----------------------------------------------------------------------------
(* The pool                                                                *)

LEMMA TakeInv ==
    ASSUME IInv, NEW w \in Workers, Take(w)
    PROVE  IInv'
<1> USE DEF IInv
<1> DEFINE i == nextIndex
<1>0. /\ work[w].pc = "take" /\ nextIndex' = i + 1 /\ i \in Nat \ {0}
      /\ persisted' = persisted /\ pos' = pos /\ phase' = phase
      /\ inquiry' = inquiry /\ temps' = temps /\ del' = del
      /\ objects' = objects /\ rows' = rows
      /\ lost' = lost /\ discarded' = discarded
      /\ Pushed' = Pushed
  BY DEF Take, store, TypeOK, Pushed
<1>1. /\ work \in [Workers -> WorkRecord]
      /\ \A v \in Workers : v # w => work'[v] = work[v]
  BY DEF Take, TypeOK, PCs, WorkRecord
<1>2. work'[w] = Taken(w, i)
  BY <1>1 DEF Take
<1>3. CASE i > FileCount
  <2>1. work'[w].pc = "done" /\ work'[w] \in WorkRecord /\ ~Held(w)' /\ ~Held(w)
    <3>1. work'[w] = [work[w] EXCEPT !.pc = "done"]
      BY <1>2, <1>3 DEF Taken
    <3>2. work'[w].pc = "done" /\ work'[w] \in WorkRecord
      BY <1>1, <3>1 DEF WorkRecord, PCs
    <3>3. QED
      BY <1>0, <3>2 DEF Held, Busy
  <2>2. TypeOK'
    <3>1. work' \in [Workers -> WorkRecord]
      BY <1>1, <2>1 DEF Take
    <3>2. QED
      BY <1>0, <3>1 DEF TypeOK, WorkRecord, PCs
  <2>3. \A v \in Workers : Held(v)' = Held(v) /\ (Held(v) => work'[v] = work[v])
    BY <1>1, <2>1 DEF Held
  <2>4. \A f \in Files : f < i + 1 => f < i
    BY <1>0, <1>3, CountAssumption DEF Files
  <2>5. TakenOnce'
    <3>1. NoFileTwice'
      BY <1>0 DEF TakenOnce, NoFileTwice
    <3>2. \A n \in Pushed : persisted[n] < i + 1
      <4>1. \A n \in Pushed : persisted[n] \in Nat /\ persisted[n] < i
        BY CountAssumption DEF TypeOK, Files, Pushed, TakenOnce
      <4>2. QED
        BY <1>0, <4>1
    <3>3. \A v \in Workers : Held(v) =>
            work[v].file < i + 1 /\ \A n \in Pushed : persisted[n] # work[v].file
      <4>1. \A v \in Workers : work[v].file \in Nat
        BY <1>1, CountAssumption DEF WorkRecord, Files
      <4>2. \A v \in Workers : Held(v) => work[v].file < i
        BY DEF TakenOnce
      <4>3. \A v \in Workers : Held(v) => work[v].file < i + 1
        BY <1>0, <4>1, <4>2
      <4>4. QED
        BY <4>3 DEF TakenOnce
    <3>4. QED
      BY <1>0, <2>3, <3>1, <3>2, <3>3 DEF TakenOnce
  <2>6. NoneForgotten'
    <3>1. \A f \in Files : f < i + 1 =>
            \/ \E n \in Pushed : persisted[n] = f
            \/ \E v \in Workers : Held(v) /\ work[v].file = f
      BY <2>4 DEF NoneForgotten
    <3>2. phase # "accepted"
      BY <1>0 DEF NoneForgotten, AllSaved
    <3>3. i + 1 > FileCount
      BY <1>0, <1>3, CountAssumption
    <3>4. QED
      BY <1>0, <2>3, <3>1, <3>2, <3>3 DEF NoneForgotten
  <2>7. StoredIsKept' /\ NoOrphanObject'
    <3>1. \A v \in Workers, pc \in {"save", "push", "destroy"} :
            (work'[v].pc = pc <=> work[v].pc = pc)
            /\ (work'[v].pc = pc => work'[v] = work[v])
      BY <1>0, <1>1, <2>1
    <3>2. QED
      BY <1>0, <3>1 DEF StoredIsKept, NoOrphanObject, Kept
  <2>8. LoopLeavesNothing'
    BY <1>0 DEF LoopLeavesNothing
  <2>9. QED
    BY <2>2, <2>5, <2>6, <2>7, <2>8
<1>4. CASE ~(i > FileCount)
  <2>1. /\ work'[w].pc = "check" /\ work'[w].file = i /\ i \in Files
        /\ Held(w)' /\ ~Held(w) /\ work'[w] \in WorkRecord
    <3>1. work'[w] = [pc |-> "check", file |-> i]
      BY <1>2, <1>4 DEF Taken
    <3>2. i \in Files
      BY <1>0, <1>4, CountAssumption DEF Files
    <3>3. QED
      BY <1>0, <3>1, <3>2 DEF Held, Busy, WorkRecord, PCs
  <2>2. TypeOK'
    <3>1. work' \in [Workers -> WorkRecord]
      BY <1>1, <2>1 DEF Take
    <3>2. QED
      BY <1>0, <3>1 DEF TypeOK, WorkRecord, PCs
  <2>3. \A v \in Workers : v # w => Held(v)' = Held(v) /\ work'[v] = work[v]
    BY <1>1 DEF Held
  <2>4. \A n \in Pushed : persisted[n] \in Nat /\ persisted[n] < i
    BY CountAssumption DEF TypeOK, Files, Pushed, TakenOnce
  <2>5. \A v \in Workers : Held(v) => work[v].file \in Nat /\ work[v].file < i
    BY <1>1, CountAssumption DEF WorkRecord, Files, TakenOnce
  <2>6. TakenOnce'
    <3>1. NoFileTwice'
      BY <1>0 DEF TakenOnce, NoFileTwice
    <3>2. \A n \in Pushed : persisted[n] < i + 1 /\ persisted[n] # i
      BY <1>0, <2>4
    <3>3. \A v \in Workers : v # w /\ Held(v) =>
            /\ work[v].file < i + 1 /\ work[v].file # i
            /\ \A n \in Pushed : persisted[n] # work[v].file
      <4>1. \A v \in Workers : Held(v) => work[v].file < i + 1 /\ work[v].file # i
        BY <1>0, <2>5
      <4>2. QED
        BY <4>1 DEF TakenOnce
    <3>4. \A v \in Workers : Held(v)' =>
            /\ work'[v].file < i + 1
            /\ \A n \in Pushed : persisted[n] # work'[v].file
      <4>1. i < i + 1
        BY <1>0
      <4>2. QED
        BY <2>1, <2>3, <3>2, <3>3, <4>1
    <3>5. \A u, v \in Workers : Held(u)' /\ Held(v)' /\ u # v
                                  => work'[u].file # work'[v].file
      BY <2>1, <2>3, <3>3 DEF TakenOnce
    <3>6. QED
      BY <1>0, <3>1, <3>2, <3>4, <3>5 DEF TakenOnce
  <2>7. NoneForgotten'
    <3>1. ASSUME NEW f \in Files, f < i + 1
          PROVE  \/ \E n \in Pushed : persisted[n] = f
                 \/ \E v \in Workers : Held(v)' /\ work'[v].file = f
      <4>1. CASE f = i
        BY <2>1, <4>1
      <4>2. CASE f # i
        <5>1. f < i
          BY <1>0, <3>1, <4>2 DEF Files
        <5>2. CASE \E n \in Pushed : persisted[n] = f
          BY <5>2
        <5>3. CASE \E v \in Workers : Held(v) /\ work[v].file = f
          <6>1. PICK v \in Workers : Held(v) /\ work[v].file = f
            BY <5>3
          <6>2. v # w
            BY <2>1, <6>1
          <6>3. QED
            BY <2>3, <6>1, <6>2
        <5>4. QED
          BY <5>1, <5>2, <5>3 DEF NoneForgotten
      <4>3. QED
        BY <4>1, <4>2
    <3>2. \A v \in Workers : work'[v].pc = "done" => i + 1 > FileCount
      <4>1. \A v \in Workers : work'[v].pc = "done" => i > FileCount
        BY <1>1, <2>1 DEF NoneForgotten
      <4>2. QED
        BY <1>4, <4>1
    <3>3. phase # "accepted"
      BY <1>0 DEF NoneForgotten, AllSaved
    <3>4. QED
      BY <1>0, <3>1, <3>2, <3>3 DEF NoneForgotten
  <2>8. StoredIsKept' /\ NoOrphanObject'
    <3>1. \A v \in Workers, pc \in {"save", "push", "destroy"} :
            (work'[v].pc = pc <=> work[v].pc = pc)
            /\ (work'[v].pc = pc => work'[v] = work[v])
      BY <1>0, <1>1, <2>1
    <3>2. QED
      BY <1>0, <3>1 DEF StoredIsKept, NoOrphanObject, Kept
  <2>9. LoopLeavesNothing'
    BY <1>0 DEF LoopLeavesNothing
  <2>10. QED
    BY <2>2, <2>6, <2>7, <2>8, <2>9
<1>5. QED
  BY <1>3, <1>4

\* The steps a worker makes with the file it holds: what remains to be shown
\* of each is what it does to the store.
LEMMA HeldStep ==
    ASSUME IInv, NEW w \in Workers, NEW pc \in Busy \cup {"failed"},
           work[w].pc \in Busy, Goto(w, pc),
           objects' \subseteq Files, rows' \subseteq Files,
           lost' \subseteq Files, discarded' = discarded,
           UNCHANGED <<nextIndex, persisted, pos, phase, inquiry, temps, del>>
    PROVE  TypeOK' /\ TakenOnce' /\ NoneForgotten'
<1>1. work' \in [Workers -> WorkRecord]
  BY GotoEffect DEF IInv, TypeOK, PCs, WorkRecord
<1>2. TypeOK'
  BY <1>1 DEF IInv, TypeOK, WorkRecord, PCs
<1>3. QED
  BY <1>2, SameFile DEF IInv

LEMMA CheckInv ==
    ASSUME IInv, NEW w \in Workers, Check(w)
    PROVE  IInv'
<1>1. PICK pc \in {"upload", "failed"} : Goto(w, pc)
  BY DEF Check
<1>2. /\ work[w].pc = "check" /\ objects' = objects /\ rows' = rows
      /\ lost' = lost /\ discarded' = discarded
      /\ UNCHANGED <<nextIndex, persisted, pos, phase, inquiry, temps, del>>
  BY DEF Check, store
<1>3. TypeOK' /\ TakenOnce' /\ NoneForgotten'
  BY <1>1, <1>2, HeldStep DEF IInv, TypeOK, Busy
<1>4. /\ work'[w].pc = pc
      /\ \A v \in Workers : v # w => work'[v] = work[v]
  BY <1>1, GotoEffect DEF IInv, TypeOK, PCs, WorkRecord, Busy
<1>5. \A v \in Workers, c \in {"save", "push", "destroy"} :
        (work'[v].pc = c <=> work[v].pc = c) /\ (work'[v].pc = c => work'[v] = work[v])
  BY <1>2, <1>4
<1>6. StoredIsKept' /\ NoOrphanObject'
  BY <1>2, <1>5 DEF IInv, StoredIsKept, NoOrphanObject, Kept, Pushed
<1>7. LoopLeavesNothing'
  BY <1>2 DEF IInv, LoopLeavesNothing, Pushed
<1>8. QED
  BY <1>3, <1>6, <1>7 DEF IInv

LEMMA UploadInv ==
    ASSUME IInv, NEW w \in Workers, Upload(w)
    PROVE  IInv'
<1> DEFINE f == work[w].file
<1>1. PICK pc \in {"save", "failed"} :
        /\ Goto(w, pc)
        /\ objects' \in {objects, objects \cup {f}}
        /\ pc = "save" => f \in objects'
        /\ lost' \in {lost, lost \cup {f}}
        /\ objects' # objects => pc = "save" \/ f \in lost'
  BY DEF Upload
<1>2. /\ work[w].pc = "upload" /\ rows' = rows /\ discarded' = discarded
      /\ UNCHANGED <<nextIndex, persisted, pos, phase, inquiry, temps, del>>
  BY DEF Upload
<1>3. /\ f \in Files /\ work'[w].pc = pc /\ work'[w].file = f
      /\ \A v \in Workers : v # w => work'[v] = work[v]
  BY <1>1, GotoEffect DEF IInv, TypeOK, PCs, WorkRecord, Busy
<1>4. TypeOK' /\ TakenOnce' /\ NoneForgotten'
  <2>1. objects' \subseteq Files /\ rows' \subseteq Files /\ lost' \subseteq Files
    BY <1>1, <1>2, <1>3 DEF IInv, TypeOK
  <2>2. QED
    BY <1>1, <1>2, <2>1, HeldStep DEF Busy
<1>5. \A g : Kept(g) => Kept(g)'
  BY <1>1, <1>2, MoreIsKept
<1>6. StoredIsKept'
  <2>1. \A i \in Pushed : Kept(persisted[i])'
    BY <1>2, <1>5 DEF IInv, StoredIsKept
  <2>2. \A v \in Workers :
          /\ work'[v].pc = "save" => work'[v].file \in objects' \cup discarded'
          /\ work'[v].pc = "push" => Kept(work[v].file)' /\ work'[v] = work[v]
    BY <1>1, <1>2, <1>3, <1>5 DEF IInv, StoredIsKept
  <2>3. QED
    BY <1>2, <2>1, <2>2 DEF IInv, StoredIsKept, Kept, Pushed
<1>7. NoOrphanObject'
  <2>1. ASSUME NEW g \in objects', g \notin rows', g \notin lost', g \notin discarded'
        PROVE  \E v \in Workers : work'[v].file = g /\ work'[v].pc \in {"save", "destroy"}
    <3>1. CASE g \in objects
      <4>1. PICK v \in Workers : work[v].file = g /\ work[v].pc \in {"save", "destroy"}
        BY <1>1, <1>2, <2>1, <3>1 DEF IInv, NoOrphanObject
      <4>2. v # w
        BY <1>2, <4>1
      <4>3. QED
        BY <1>3, <4>1, <4>2
    <3>2. CASE g \notin objects
      BY <1>1, <1>3, <2>1, <3>2
    <3>3. QED
      BY <3>1, <3>2
  <2>2. QED
    BY <2>1 DEF NoOrphanObject
<1>8. LoopLeavesNothing'
  BY <1>1, <1>2 DEF IInv, LoopLeavesNothing, Pushed
<1>9. QED
  BY <1>4, <1>6, <1>7, <1>8 DEF IInv

LEMMA SaveInv ==
    ASSUME IInv, NEW w \in Workers, Save(w)
    PROVE  IInv'
<1> DEFINE f == work[w].file
<1>1. PICK pc \in {"push", "destroy"} :
        /\ Goto(w, pc)
        /\ rows' = IF pc = "push" THEN rows \cup {f} ELSE rows
  BY DEF Save, SaveFailed
<1>2. /\ work[w].pc = "save" /\ objects' = objects /\ discarded' = discarded
      /\ lost' = lost
      /\ UNCHANGED <<nextIndex, persisted, pos, phase, inquiry, temps, del>>
  BY DEF Save
<1>3. /\ f \in Files /\ work'[w].pc = pc /\ work'[w].file = f
      /\ \A v \in Workers : v # w => work'[v] = work[v]
  BY <1>1, GotoEffect DEF IInv, TypeOK, PCs, WorkRecord, Busy
<1>4. TypeOK' /\ TakenOnce' /\ NoneForgotten'
  <2>1. objects' \subseteq Files /\ rows' \subseteq Files /\ lost' \subseteq Files
    BY <1>1, <1>2, <1>3 DEF IInv, TypeOK
  <2>2. QED
    BY <1>1, <1>2, <2>1, HeldStep DEF Busy
<1>5. \A g : Kept(g) => Kept(g)'
  BY <1>1, <1>2, MoreIsKept
<1>6. f \in objects \cup discarded
  BY <1>2 DEF IInv, StoredIsKept
<1>7. StoredIsKept'
  <2>1. \A i \in Pushed : Kept(persisted[i])'
    BY <1>2, <1>5 DEF IInv, StoredIsKept
  <2>2. \A v \in Workers : work'[v].pc = "save" => v # w
    BY <1>3
  <2>3. \A v \in Workers :
          work'[v].pc = "save" => work'[v].file \in objects' \cup discarded'
    BY <1>2, <1>3, <2>2 DEF IInv, StoredIsKept
  <2>4. pc = "push" => Kept(f)'
    BY <1>1, <1>2, <1>3, <1>6 DEF Kept
  <2>5. \A v \in Workers : work'[v].pc = "push" => Kept(work[v].file)'
    BY <1>3, <1>5, <2>4 DEF IInv, StoredIsKept
  <2>6. \A v \in Workers : work'[v].file = work[v].file
    BY <1>3
  <2>7. QED
    BY <1>2, <2>1, <2>3, <2>5, <2>6 DEF IInv, StoredIsKept, Kept, Pushed
<1>8. NoOrphanObject'
  <2>1. ASSUME NEW g \in objects', g \notin rows', g \notin lost', g \notin discarded'
        PROVE  \E v \in Workers : work'[v].file = g /\ work'[v].pc \in {"save", "destroy"}
    <3>1. PICK v \in Workers : work[v].file = g /\ work[v].pc \in {"save", "destroy"}
      BY <1>1, <1>2, <2>1 DEF IInv, NoOrphanObject
    <3>2. CASE v = w
      <4>1. pc = "destroy"
        BY <1>1, <2>1, <3>1, <3>2
      <4>2. QED
        BY <1>3, <3>1, <3>2, <4>1
    <3>3. CASE v # w
      BY <1>3, <3>1, <3>3
    <3>4. QED
      BY <3>2, <3>3
  <2>2. QED
    BY <2>1 DEF NoOrphanObject
<1>9. LoopLeavesNothing'
  <2>1. \A i \in Pushed : persisted[i] # f
    BY <1>2 DEF IInv, TakenOnce, Held, Busy
  <2>2. \A i \in Pushed : persisted[i] \in rows' => persisted[i] \in rows
    BY <1>1, <2>1
  <2>3. QED
    BY <1>2, <2>2 DEF IInv, LoopLeavesNothing, Pushed
<1>10. QED
  BY <1>4, <1>7, <1>8, <1>9 DEF IInv

LEMMA DestroyInv ==
    ASSUME IInv, NEW w \in Workers, Destroy(w)
    PROVE  IInv'
<1> DEFINE f == work[w].file
<1>1. /\ Goto(w, "failed")
      /\ \/ objects' = objects \ {f} /\ lost' = lost
         \/ objects' = objects /\ lost' = lost \cup {f}
  BY DEF Destroy
<1>2. /\ work[w].pc = "destroy" /\ rows' = rows /\ discarded' = discarded
      /\ UNCHANGED <<nextIndex, persisted, pos, phase, inquiry, temps, del>>
  BY DEF Destroy
<1>3. /\ f \in Files /\ work'[w].pc = "failed" /\ work'[w].file = f
      /\ \A v \in Workers : v # w => work'[v] = work[v]
  BY <1>1, GotoEffect DEF IInv, TypeOK, PCs, WorkRecord
<1>4. TypeOK' /\ TakenOnce' /\ NoneForgotten'
  <2>1. objects' \subseteq Files /\ rows' \subseteq Files /\ lost' \subseteq Files
    BY <1>1, <1>2, <1>3 DEF IInv, TypeOK
  <2>2. QED
    BY <1>1, <1>2, <2>1, HeldStep DEF Busy
<1>5. ASSUME NEW g, g # f, Kept(g) PROVE Kept(g)'
  BY <1>1, <1>2, <1>5 DEF Kept
<1>6. /\ \A i \in Pushed : persisted[i] # f
      /\ \A v \in Workers : v # w /\ work[v].pc \in Busy => work[v].file # f
  BY <1>2 DEF IInv, TakenOnce, Held, Busy
<1>7. StoredIsKept'
  <2>1. \A i \in Pushed : Kept(persisted[i])'
    <3>1. ASSUME NEW i \in Pushed, NEW g, g = persisted[i] PROVE Kept(g)'
      BY <1>5, <1>6, <3>1 DEF IInv, StoredIsKept
    <3>2. QED
      BY <1>2, <3>1
  <2>2. ASSUME NEW v \in Workers, work'[v].pc = "save"
        PROVE  work'[v].file \in objects' \cup discarded'
    <3>1. v # w /\ work'[v] = work[v]
      BY <1>3, <2>2
    <3>2. work[v].file # f
      BY <1>6, <2>2, <3>1 DEF Busy
    <3>3. work[v].file \in objects \cup discarded
      BY <2>2, <3>1 DEF IInv, StoredIsKept
    <3>4. QED
      BY <1>1, <1>2, <3>1, <3>2, <3>3
  <2>3. ASSUME NEW v \in Workers, work'[v].pc = "push"
        PROVE  Kept(work[v].file)'
    <3>1. v # w /\ work'[v] = work[v]
      BY <1>3, <2>3
    <3>2. work[v].file # f
      BY <1>6, <2>3, <3>1 DEF Busy
    <3>3. Kept(work[v].file)
      BY <2>3, <3>1 DEF IInv, StoredIsKept
    <3>4. ASSUME NEW g, g = work[v].file PROVE Kept(g)'
      BY <1>5, <3>2, <3>3, <3>4
    <3>5. QED
      BY <3>1, <3>4
  <2>4. QED
    BY <1>2, <2>1, <2>2, <2>3 DEF IInv, StoredIsKept, Pushed
<1>8. NoOrphanObject'
  <2>1. ASSUME NEW g \in objects', g \notin rows', g \notin lost', g \notin discarded'
        PROVE  \E v \in Workers : work'[v].file = g /\ work'[v].pc \in {"save", "destroy"}
    <3>1. g # f /\ g \in objects /\ g \notin lost
      BY <1>1, <2>1
    <3>2. PICK v \in Workers : work[v].file = g /\ work[v].pc \in {"save", "destroy"}
      BY <1>2, <2>1, <3>1 DEF IInv, NoOrphanObject
    <3>3. v # w
      BY <3>1, <3>2
    <3>4. QED
      BY <1>3, <3>2, <3>3
  <2>2. QED
    BY <2>1 DEF NoOrphanObject
<1>9. LoopLeavesNothing'
  BY <1>1, <1>2 DEF IInv, LoopLeavesNothing, Pushed
<1>10. QED
  BY <1>4, <1>7, <1>8, <1>9 DEF IInv

LEMMA PushInv ==
    ASSUME IInv, NEW w \in Workers, Push(w)
    PROVE  IInv'
<1> USE DEF IInv
<1> DEFINE f == work[w].file
           n == Len(persisted) + 1
<1>1. /\ work[w].pc = "push" /\ Goto(w, "take") /\ persisted' = Append(persisted, f)
      /\ objects' = objects /\ rows' = rows /\ lost' = lost
      /\ discarded' = discarded
      /\ UNCHANGED <<nextIndex, pos, phase, inquiry, temps, del>>
  BY DEF Push, store
<1>2. /\ f \in Files /\ work' \in [Workers -> WorkRecord] /\ work'[w].pc = "take"
      /\ \A v \in Workers : v # w => work'[v] = work[v]
      /\ Held(w) /\ ~Held(w)'
  <2>1. /\ f \in Files /\ work' \in [Workers -> WorkRecord] /\ work'[w].pc = "take"
        /\ \A v \in Workers : v # w => work'[v] = work[v]
    BY <1>1, GotoEffect DEF TypeOK, PCs, WorkRecord
  <2>2. QED
    BY <1>1, <2>1 DEF Held, Busy
<1>3. /\ persisted' \in Seq(Files) /\ Len(persisted') = n /\ Len(persisted) \in Nat
      /\ Pushed' = Pushed \cup {n} /\ persisted'[n] = f /\ n \notin Pushed
      /\ \A i \in Pushed : persisted'[i] = persisted[i]
  <2> DEFINE g == f
  <2>0. persisted \in Seq(Files) /\ g \in Files /\ persisted' = Append(persisted, g)
    BY <1>1, <1>2 DEF TypeOK
  <2> HIDE DEF g
  <2>1. /\ persisted' \in Seq(Files) /\ Len(persisted') = n
        /\ Len(persisted) \in Nat /\ persisted'[n] = g
        /\ \A i \in 1 .. Len(persisted) : persisted'[i] = persisted[i]
    BY <2>0
  <2>2. Pushed' = Pushed \cup {n} /\ n \notin Pushed
    BY <2>1 DEF Pushed
  <2>3. QED
    BY <2>1, <2>2 DEF g, Pushed
<1> HIDE DEF n
<1>4. TypeOK'
  BY <1>1, <1>2, <1>3 DEF TypeOK, WorkRecord, PCs
<1>5. \A v \in Workers : Held(v)' => v # w /\ Held(v) /\ work'[v] = work[v]
  BY <1>2 DEF Held
<1>6. /\ \A i \in Pushed : persisted[i] # f
      /\ \A v \in Workers : v # w /\ Held(v) => work[v].file # f
      /\ f < nextIndex
  BY <1>2 DEF TakenOnce
<1>7. TakenOnce'
  <2>1. NoFileTwice'
    <3>1. ASSUME NEW i \in Pushed', NEW j \in Pushed', persisted'[i] = persisted'[j]
          PROVE  i = j
      BY <1>3, <1>6, <3>1 DEF TakenOnce, NoFileTwice, Pushed
    <3>2. QED
      BY <3>1 DEF NoFileTwice, Pushed
  <2>2. \A i \in Pushed' : persisted'[i] < nextIndex'
    BY <1>1, <1>3, <1>6 DEF TakenOnce
  <2>3. ASSUME NEW v \in Workers, Held(v)'
        PROVE  /\ work'[v].file < nextIndex'
               /\ \A i \in Pushed' : persisted'[i] # work'[v].file
    <3>1. v # w /\ Held(v) /\ work'[v] = work[v]
      BY <1>5, <2>3
    <3>2. /\ work[v].file < nextIndex /\ work[v].file # f
          /\ \A i \in Pushed : persisted[i] # work[v].file
      BY <1>6, <3>1 DEF TakenOnce
    <3>3. QED
      BY <1>1, <1>3, <3>1, <3>2
  <2>4. \A u, v \in Workers : Held(u)' /\ Held(v)' /\ u # v
                                => work'[u].file # work'[v].file
    BY <1>5 DEF TakenOnce
  <2>5. QED
    BY <2>1, <2>2, <2>3, <2>4 DEF TakenOnce
<1>8. NoneForgotten'
  <2>1. ASSUME NEW g \in Files, g < nextIndex'
        PROVE  \/ \E i \in Pushed' : persisted'[i] = g
               \/ \E v \in Workers : Held(v)' /\ work'[v].file = g
    <3>1. CASE \E i \in Pushed : persisted[i] = g
      BY <1>3, <3>1
    <3>2. CASE \E v \in Workers : Held(v) /\ work[v].file = g
      <4>1. PICK v \in Workers : Held(v) /\ work[v].file = g
        BY <3>2
      <4>2. CASE v = w
        BY <1>3, <4>1, <4>2
      <4>3. CASE v # w
        BY <1>2, <4>1, <4>3 DEF Held
      <4>4. QED
        BY <4>2, <4>3
    <3>3. QED
      BY <1>1, <2>1, <3>1, <3>2 DEF NoneForgotten
  <2>2. \A v \in Workers : work'[v].pc = "done" => work[v].pc = "done"
    BY <1>2
  <2>3. ~AllSaved
    BY <1>1 DEF AllSaved
  <2>4. QED
    BY <1>1, <2>1, <2>2, <2>3 DEF NoneForgotten
<1>9. \A g : Kept(g) => Kept(g)'
  BY <1>1, MoreIsKept
<1>10. StoredIsKept'
  <2>1. ASSUME NEW i \in Pushed', NEW g, g = persisted'[i] PROVE Kept(g)'
    BY <1>1, <1>3, <1>9, <2>1 DEF StoredIsKept
  <2>2. \A i \in Pushed' : Kept(persisted[i])'
    BY <2>1
  <2>3. ASSUME NEW v \in Workers, NEW g, g = work'[v].file
        PROVE  /\ work'[v].pc = "save" => g \in objects' \cup discarded'
               /\ work'[v].pc = "push" => Kept(g)'
    BY <1>1, <1>2, <1>9, <2>3 DEF StoredIsKept
  <2>4. \A v \in Workers :
          /\ work'[v].pc = "save" => work'[v].file \in objects' \cup discarded'
          /\ work'[v].pc = "push" => Kept(work[v].file)'
    BY <2>3
  <2>5. \A d \in Deleters : del'[d].pc = "remove" => del'[d].file \in discarded'
    BY <1>1 DEF StoredIsKept
  <2>6. QED
    BY <2>2, <2>4, <2>5 DEF StoredIsKept
<1>11. NoOrphanObject'
  <2>1. \A v \in Workers : work[v].pc \in {"save", "destroy"} => work'[v] = work[v]
    BY <1>1, <1>2
  <2>2. QED
    BY <1>1, <2>1 DEF NoOrphanObject
<1>12. LoopLeavesNothing'
  <2>1. /\ pos' <= Len(persisted') + 1
        /\ \A i \in Pushed' : i < pos' => i \in Pushed
    BY <1>1, <1>3 DEF LoopLeavesNothing, TypeOK, n
  <2>2. QED
    BY <1>1, <1>3, <2>1 DEF LoopLeavesNothing
<1>13. QED
  BY <1>4, <1>7, <1>8, <1>10, <1>11, <1>12

-----------------------------------------------------------------------------
(* The submission                                                          *)

\* Steps that leave the pool, the store and the deletions alone.
LEMMA OnlyPhase ==
    ASSUME IInv, UNCHANGED <<store, pool, pos, del>>,
           phase' \in {"cleanup", "compensate"} \cup Ended \cup {phase},
           phase' = "accepted" => AllSaved,
           temps' \subseteq Files, inquiry' \in BOOLEAN
    PROVE  IInv'
<1> USE DEF IInv
<1>1. /\ objects' = objects /\ rows' = rows /\ lost' = lost
      /\ discarded' = discarded /\ pos' = pos /\ del' = del
      /\ nextIndex' = nextIndex /\ work' = work /\ persisted' = persisted
  BY DEF store, pool
<1>2. TypeOK'
  BY <1>1 DEF TypeOK
<1>3. TakenOnce' /\ NoneForgotten'
  BY <1>1, PoolUntouched DEF pool
<1>4. StoredIsKept' /\ NoOrphanObject'
  BY <1>1 DEF StoredIsKept, NoOrphanObject, Kept, Pushed
<1>5. LoopLeavesNothing'
  BY <1>1 DEF LoopLeavesNothing, Pushed, Ended
<1>6. QED
  BY <1>2, <1>3, <1>4, <1>5

\* The reversed array has the same files, each once.
LEMMA FailInv ==
    ASSUME IInv, Fail
    PROVE  IInv'
<1> USE DEF IInv
<1> DEFINE n == Len(persisted)
<1>1. /\ phase = "uploading" /\ phase' = "cleanup" /\ persisted' = Reverse(persisted)
      /\ objects' = objects /\ rows' = rows /\ lost' = lost
      /\ discarded' = discarded /\ pos' = pos /\ del' = del
      /\ nextIndex' = nextIndex /\ work' = work /\ temps' = temps
      /\ inquiry' = inquiry /\ pos = 1
  BY DEF Fail, store, LoopLeavesNothing
<1>2. /\ n \in Nat /\ persisted \in Seq(Files)
      /\ \A i \in 1..n : persisted[i] \in Files
      /\ \A i \in 1..n : (n - i) + 1 \in 1..n
  BY DEF TypeOK
<1>3. /\ persisted' \in Seq(Files) /\ Len(persisted') = n /\ Pushed' = Pushed
      /\ \A i \in Pushed : persisted'[i] = persisted[(n - i) + 1]
  <2>1. persisted' = [i \in 1..n |-> persisted[(n - i) + 1]]
    BY <1>1 DEF Reverse
  <2>2. persisted' \in [1..n -> Files]
    BY <1>2, <2>1
  <2>3. persisted' \in Seq(Files)
    BY <1>2, <2>2
  <2>4. Len(persisted') = n
    BY <1>2, <2>2, <2>3
  <2>5. QED
    BY <2>1, <2>3, <2>4 DEF Pushed
<1>4. \A i \in Pushed : \E j \in Pushed : persisted'[i] = persisted[j]
  BY <1>2, <1>3 DEF Pushed
<1>5. \A j \in Pushed : \E i \in Pushed : persisted'[i] = persisted[j]
  <2>1. ASSUME NEW j \in Pushed
        PROVE  (n - j) + 1 \in Pushed /\ persisted'[(n - j) + 1] = persisted[j]
    <3>1. (n - j) + 1 \in Pushed /\ (n - ((n - j) + 1)) + 1 = j
      BY <1>2 DEF Pushed
    <3>2. QED
      BY <1>3, <3>1
  <2>2. QED
    BY <2>1
<1>6. TypeOK'
  BY <1>1, <1>3 DEF TypeOK
<1>7. TakenOnce'
  <2>1. NoFileTwice'
    <3>1. ASSUME NEW i \in Pushed, NEW j \in Pushed, persisted'[i] = persisted'[j]
          PROVE  i = j
      <4>1. persisted[(n - i) + 1] = persisted[(n - j) + 1]
        BY <1>3, <3>1
      <4>2. (n - i) + 1 = (n - j) + 1
        BY <1>2, <4>1 DEF TakenOnce, NoFileTwice, Pushed
      <4>3. QED
        BY <1>2, <4>2 DEF Pushed
    <3>2. QED
      BY <1>3, <3>1 DEF NoFileTwice, Pushed
  <2>2. \A i \in Pushed : persisted'[i] < nextIndex
    BY <1>4 DEF TakenOnce
  <2>3. \A w \in Workers : Held(w) => \A i \in Pushed : persisted'[i] # work[w].file
    BY <1>4 DEF TakenOnce
  <2>4. \A w \in Workers : Held(w)' = Held(w)
    BY <1>1 DEF Held
  <2>5. QED
    BY <1>1, <1>3, <2>1, <2>2, <2>3, <2>4 DEF TakenOnce
<1>8. NoneForgotten'
  <2>1. \A w \in Workers : Held(w)' = Held(w)
    BY <1>1 DEF Held
  <2>2. \A f \in Files : f < nextIndex => \/ \E i \in Pushed : persisted'[i] = f
                                          \/ \E w \in Workers : Held(w) /\ work[w].file = f
    BY <1>5 DEF NoneForgotten
  <2>3. QED
    BY <1>1, <1>3, <2>1, <2>2 DEF NoneForgotten
<1>9. StoredIsKept'
  <2>1. ASSUME NEW i \in Pushed, NEW f, f = persisted'[i] PROVE Kept(f)'
    BY <1>1, <1>4, <2>1 DEF StoredIsKept, Kept
  <2>2. \A i \in Pushed : Kept(persisted[i])'
    BY <2>1
  <2>3. QED
    BY <1>1, <1>3, <2>2 DEF StoredIsKept, Kept
<1>10. NoOrphanObject'
  BY <1>1 DEF NoOrphanObject
<1>11. LoopLeavesNothing'
  BY <1>1, <1>2, <1>3 DEF LoopLeavesNothing, Pushed
<1>12. QED
  BY <1>6, <1>7, <1>8, <1>9, <1>10, <1>11

LEMMA CleanNextInv ==
    ASSUME IInv, CleanNext
    PROVE  IInv'
<1>1. CASE MoreToRemove
  <2> USE DEF IInv
  <2> DEFINE f == persisted[pos]
  <2>1. /\ phase = "cleanup" /\ del["cleanup"].pc = "idle"
        /\ pos' = pos + 1 /\ pos \in Nat \ {0} /\ pos <= Len(persisted)
        /\ del' = IF f \in rows THEN Cleaning(f) ELSE del
        /\ phase' = phase /\ objects' = objects /\ rows' = rows /\ lost' = lost
        /\ discarded' = discarded /\ nextIndex' = nextIndex /\ work' = work
        /\ persisted' = persisted /\ temps' = temps /\ inquiry' = inquiry
    BY <1>1 DEF CleanNext, MoreToRemove, store, pool, TypeOK
  <2>2. pos \in Pushed /\ f \in Files /\ Len(persisted) \in Nat
    BY <2>1 DEF TypeOK, Pushed
  <2>3. /\ del' \in [Deleters -> DelRecord]
        /\ \A d \in Deleters : del'[d].pc = "remove" => del'[d] = del[d]
        /\ f \in rows => del'["cleanup"].pc = "destroy" /\ del'["cleanup"].file = f
    <3> HIDE DEF f
    <3>1. del \in [Deleters -> DelRecord]
      BY DEF TypeOK, DelRecord
    <3>2. QED
      BY <2>1, <2>2, <3>1 DEF Cleaning, DelRecord, Deleters
  <2>4. TypeOK'
    BY <2>1, <2>3 DEF TypeOK, DelRecord
  <2>5. TakenOnce' /\ NoneForgotten'
    BY <2>1, PoolUntouched DEF pool
  <2>6. StoredIsKept' /\ NoOrphanObject'
    BY <2>1, <2>3 DEF StoredIsKept, NoOrphanObject, Kept, Pushed
  <2>7. LoopLeavesNothing'
    <3>1. ASSUME NEW i \in Pushed, i < pos', persisted[i] \in rows
          PROVE  \/ persisted[i] \in lost
                 \/ del'["cleanup"].pc # "idle" /\ del'["cleanup"].file = persisted[i]
      <4>1. CASE i = pos
        BY <2>3, <3>1, <4>1
      <4>2. CASE i # pos
        <5>1. i < pos
          BY <2>1, <3>1, <4>2 DEF Pushed
        <5>2. QED
          BY <2>1, <3>1, <5>1 DEF LoopLeavesNothing
      <4>3. QED
        BY <4>1, <4>2
    <3>2. pos' <= Len(persisted) + 1
      BY <2>1, <2>2
    <3>3. QED
      BY <2>1, <3>1, <3>2 DEF LoopLeavesNothing, Pushed
  <2>8. QED
    BY <2>4, <2>5, <2>6, <2>7
<1>2. CASE ~MoreToRemove
  BY <1>2, OnlyPhase DEF CleanNext, IInv, TypeOK
<1>3. QED
  BY <1>1, <1>2

-----------------------------------------------------------------------------
(* The deletions                                                           *)

\* What a deletion does to the file it is at.
LEMMA DeletionType ==
    ASSUME IInv, NEW d \in Deleters, NEW pc \in {"idle", "destroy", "remove"},
           del' = [del EXCEPT ![d].pc = pc]
    PROVE  /\ del' \in [Deleters -> DelRecord]
           /\ del'[d].pc = pc /\ del'[d].file = del[d].file /\ del[d].file \in Files
           /\ \A e \in Deleters : e # d => del'[e] = del[e]
BY DEF IInv, TypeOK, DelRecord

LEMMA StaffDeleteInv ==
    ASSUME IInv, NEW f \in Files, StaffDelete(f)
    PROVE  IInv'
<1> USE DEF IInv
<1>1. /\ del' = [del EXCEPT !["staff"] = [pc |-> "destroy", file |-> f]]
      /\ objects' = objects /\ rows' = rows /\ lost' = lost
      /\ discarded' = discarded /\ nextIndex' = nextIndex /\ work' = work
      /\ persisted' = persisted /\ temps' = temps /\ inquiry' = inquiry
      /\ pos' = pos /\ phase' = phase
  BY DEF StaffDelete, store, pool
<1>2. /\ del' \in [Deleters -> DelRecord] /\ del'["cleanup"] = del["cleanup"]
      /\ \A d \in Deleters : del'[d].pc = "remove" => del'[d] = del[d]
  <2>1. del \in [Deleters -> DelRecord]
    BY DEF TypeOK, DelRecord
  <2>2. QED
    BY <1>1, <2>1 DEF DelRecord, Deleters
<1>3. TypeOK'
  BY <1>1, <1>2 DEF TypeOK, DelRecord
<1>4. TakenOnce' /\ NoneForgotten'
  BY <1>1, PoolUntouched DEF pool, NoneForgotten
<1>5. StoredIsKept' /\ NoOrphanObject'
  BY <1>1, <1>2 DEF StoredIsKept, NoOrphanObject, Kept, Pushed
<1>6. LoopLeavesNothing'
  BY <1>1, <1>2 DEF LoopLeavesNothing, Pushed
<1>7. QED
  BY <1>3, <1>4, <1>5, <1>6

LEMMA DestroyObjectInv ==
    ASSUME IInv, NEW d \in Deleters, DestroyObject(d)
    PROVE  IInv'
<1> USE DEF IInv
<1> DEFINE f == del[d].file
<1>1. PICK pc \in {"idle", "remove"} :
        /\ del' = [del EXCEPT ![d].pc = pc]
        /\ pc = "remove" => /\ objects' = objects \ {f} /\ lost' = lost
                            /\ discarded' = discarded \cup {f}
        /\ pc = "idle" => /\ objects' = objects /\ lost' = lost \cup {f}
                          /\ discarded' = discarded
  BY DEF DestroyObject
<1>2. /\ rows' = rows /\ nextIndex' = nextIndex /\ work' = work
      /\ persisted' = persisted /\ temps' = temps /\ inquiry' = inquiry
      /\ pos' = pos /\ phase' = phase /\ del[d].pc = "destroy"
  BY DEF DestroyObject, pool
<1>3. /\ del' \in [Deleters -> DelRecord] /\ del'[d].pc = pc /\ del'[d].file = f
      /\ f \in Files /\ \A e \in Deleters : e # d => del'[e] = del[e]
  BY <1>1, DeletionType
<1>4. TypeOK'
  BY <1>1, <1>2, <1>3 DEF TypeOK, DelRecord
<1>5. TakenOnce' /\ NoneForgotten'
  BY <1>2, PoolUntouched DEF pool, NoneForgotten
<1>6. \A g : Kept(g) => Kept(g)'
  BY <1>1, <1>2, MoreIsKept
<1>7. StoredIsKept'
  <2>1. \A i \in Pushed : Kept(persisted[i])'
    BY <1>2, <1>6 DEF StoredIsKept
  <2>2. \A w \in Workers :
          /\ work[w].pc = "save" => work[w].file \in objects' \cup discarded'
          /\ work[w].pc = "push" => Kept(work[w].file)'
    BY <1>1, <1>2, <1>6 DEF StoredIsKept
  <2>3. \A e \in Deleters : del'[e].pc = "remove" => del'[e].file \in discarded'
    BY <1>1, <1>3 DEF StoredIsKept
  <2>4. QED
    BY <1>2, <2>1, <2>2, <2>3 DEF StoredIsKept, Pushed, Kept
<1>8. NoOrphanObject'
  BY <1>1, <1>2 DEF NoOrphanObject
<1>9. LoopLeavesNothing'
  <2>1. d = "cleanup" \/ del'["cleanup"] = del["cleanup"]
    BY <1>3 DEF Deleters
  <2>2. ASSUME NEW i \in Pushed, i < pos, persisted[i] \in rows
        PROVE  \/ persisted[i] \in lost'
               \/ del'["cleanup"].pc # "idle" /\ del'["cleanup"].file = persisted[i]
    BY <1>1, <1>3, <2>1, <2>2 DEF LoopLeavesNothing
  <2>3. QED
    BY <1>2, <2>2 DEF LoopLeavesNothing, Pushed
<1>10. QED
  BY <1>4, <1>5, <1>7, <1>8, <1>9

LEMMA RemoveRowInv ==
    ASSUME IInv, NEW d \in Deleters, RemoveRow(d)
    PROVE  IInv'
<1> USE DEF IInv
<1> DEFINE f == del[d].file
<1>1. /\ del' = [del EXCEPT ![d].pc = "idle"] /\ del[d].pc = "remove"
      /\ \/ rows' = rows \ {f} /\ lost' = lost
         \/ rows' = rows /\ lost' = lost \cup {f}
      /\ objects' = objects /\ discarded' = discarded
      /\ nextIndex' = nextIndex /\ work' = work /\ persisted' = persisted
      /\ temps' = temps /\ inquiry' = inquiry /\ pos' = pos /\ phase' = phase
  BY DEF RemoveRow, pool
<1>2. /\ del' \in [Deleters -> DelRecord] /\ del'[d].pc = "idle" /\ f \in Files
      /\ \A e \in Deleters : e # d => del'[e] = del[e]
  BY <1>1, DeletionType
<1>3. f \in discarded
  BY <1>1 DEF StoredIsKept
<1>4. TypeOK'
  BY <1>1, <1>2 DEF TypeOK, DelRecord
<1>5. TakenOnce' /\ NoneForgotten'
  BY <1>1, PoolUntouched DEF pool, NoneForgotten
<1>6. \A g : Kept(g) => Kept(g)'
  BY <1>1, <1>3, MoreIsKept
<1>7. StoredIsKept'
  <2>1. \A i \in Pushed : Kept(persisted[i])'
    BY <1>1, <1>6 DEF StoredIsKept
  <2>2. \A w \in Workers :
          /\ work[w].pc = "save" => work[w].file \in objects' \cup discarded'
          /\ work[w].pc = "push" => Kept(work[w].file)'
    BY <1>1, <1>6 DEF StoredIsKept
  <2>3. \A e \in Deleters : del'[e].pc = "remove" => del'[e].file \in discarded'
    BY <1>1, <1>2 DEF StoredIsKept
  <2>4. QED
    BY <1>1, <2>1, <2>2, <2>3 DEF StoredIsKept, Pushed, Kept
<1>8. NoOrphanObject'
  BY <1>1, <1>3 DEF NoOrphanObject
<1>9. LoopLeavesNothing'
  <2>1. d = "cleanup" \/ del'["cleanup"] = del["cleanup"]
    BY <1>2 DEF Deleters
  <2>2. ASSUME NEW i \in Pushed, i < pos, persisted[i] \in rows'
        PROVE  \/ persisted[i] \in lost'
               \/ del'["cleanup"].pc # "idle" /\ del'["cleanup"].file = persisted[i]
    BY <1>1, <1>2, <2>1, <2>2 DEF LoopLeavesNothing
  <2>3. QED
    BY <1>1, <2>2 DEF LoopLeavesNothing, Pushed
<1>10. QED
  BY <1>4, <1>5, <1>7, <1>8, <1>9

LEMMA HardDeleteInv ==
    ASSUME IInv, HardDelete
    PROVE  IInv'
<1> USE DEF IInv
<1>1. /\ rows' = {} /\ objects' = objects /\ discarded' = discarded \cup rows
      /\ inquiry' = FALSE /\ lost' = lost /\ del' = del
      /\ nextIndex' = nextIndex /\ work' = work /\ persisted' = persisted
      /\ temps' = temps /\ pos' = pos /\ phase' = phase
  BY DEF HardDelete, StoredIds, pool
<1>2. TypeOK'
  BY <1>1 DEF TypeOK
<1>3. TakenOnce' /\ NoneForgotten'
  BY <1>1, PoolUntouched DEF pool, NoneForgotten
<1>4. StoredIsKept'
  BY <1>1 DEF StoredIsKept, Kept, Pushed
<1>5. NoOrphanObject'
  BY <1>1 DEF NoOrphanObject
<1>6. LoopLeavesNothing'
  BY <1>1 DEF LoopLeavesNothing, Pushed
<1>7. QED
  BY <1>2, <1>3, <1>4, <1>5, <1>6

-----------------------------------------------------------------------------
LEMMA NextInv == IInv /\ [Next]_vars => IInv'
<1> SUFFICES ASSUME IInv, [Next]_vars PROVE IInv'
  OBVIOUS
<1>1. CASE UNCHANGED vars
  BY <1>1, OnlyPhase DEF vars, store, pool, IInv, TypeOK, NoneForgotten
<1>2. ASSUME NEW w \in Workers, Work(w) PROVE IInv'
  BY <1>2, TakeInv, CheckInv, UploadInv, SaveInv, DestroyInv, PushInv DEF Work
<1>3. CASE Submission
  <2>1. CASE Accept
    BY <2>1, OnlyPhase DEF Accept, IInv, TypeOK, Ended
  <2>2. CASE Compensate
    BY <2>2, OnlyPhase DEF Compensate, IInv, TypeOK, Ended
  <2>3. QED
    BY <1>3, <2>1, <2>2, FailInv, CleanNextInv DEF Submission
<1>4. ASSUME NEW f \in Files, Unlink(f) \/ StaffDelete(f) PROVE IInv'
  <2>1. CASE Unlink(f)
    BY <2>1, OnlyPhase DEF Unlink, IInv, TypeOK, NoneForgotten
  <2>2. QED
    BY <1>4, <2>1, StaffDeleteInv
<1>5. ASSUME NEW d \in Deleters, Deletion(d) PROVE IInv'
  BY <1>5, DestroyObjectInv, RemoveRowInv DEF Deletion
<1>6. QED
  BY <1>1, <1>2, <1>3, <1>4, <1>5, HardDeleteInv DEF Next, Quiescent

LEMMA Inductive == Spec => []IInv
BY InitInv, NextInv, PTL DEF Spec

\* The pool, the store and the tables keep their types.
THEOREM TypeCorrect == Spec => []TypeOK
<1>1. IInv => TypeOK
  BY DEF IInv
<1>2. QED
  BY <1>1, Inductive, PTL

\* However many workers read and advance nextIndex, and although the clean-up
\* reverses the array they push to, no file is stored twice.
THEOREM NoFileTwiceHolds == Spec => []NoFileTwice
<1>1. IInv => NoFileTwice
  BY DEF IInv, TakenOnce
<1>2. QED
  BY <1>1, Inductive, PTL

\* A submission is accepted only with all its files.
THEOREM AcceptedHasAllFilesHolds == Spec => []AcceptedHasAllFiles
<1>1. IInv => AcceptedHasAllFiles
  <2> SUFFICES ASSUME IInv, phase = "accepted", NEW f \in Files PROVE Kept(f)
    BY DEF AcceptedHasAllFiles, Kept
  <2>1. AllSaved
    BY DEF IInv, NoneForgotten
  <2>2. nextIndex > FileCount
    BY <2>1, SomeWorker DEF IInv, NoneForgotten, AllSaved
  <2>3. f < nextIndex
    BY <2>2, CountAssumption DEF IInv, TypeOK, Files
  <2>4. \A w \in Workers : ~Held(w)
    BY <2>1 DEF AllSaved, Held, Busy
  <2>5. PICK i \in Pushed : persisted[i] = f
    BY <2>3, <2>4 DEF IInv, NoneForgotten
  <2>6. QED
    BY <2>5 DEF IInv, StoredIsKept
<1>2. QED
  BY <1>1, Inductive, PTL

\* An object without a row is in the hands of a worker, or accounted for.
THEOREM NoOrphanObjectHolds == Spec => []NoOrphanObject
<1>1. IInv => NoOrphanObject
  BY DEF IInv
<1>2. QED
  BY <1>1, Inductive, PTL

\* The clean-up loop ends with nothing left that it was to remove, although
\* workers go on pushing to the array it walks.
THEOREM CleanupCompleteHolds == Spec => CleanupComplete
<1> DEFINE Ends == phase = "cleanup" /\ phase' = "compensate"
                     => \A i \in 1..Len(persisted) : persisted[i] \notin rows \ lost
<1>1. IInv /\ [Next]_vars => [Ends]_vars
  <2> SUFFICES ASSUME IInv, Next, phase = "cleanup", phase' = "compensate",
                      NEW i \in Pushed, persisted[i] \in rows
               PROVE  persisted[i] \in lost
    BY DEF Pushed
  <2>1. CleanNext
    BY DEF Next, Work, Submission, Deletion, Take, Check, Upload, Save, Destroy,
       Push, Accept, Fail, Compensate, Unlink, StaffDelete, DestroyObject,
       RemoveRow, HardDelete, Quiescent, vars
  <2>2. ~MoreToRemove /\ del["cleanup"].pc = "idle"
    BY <2>1 DEF CleanNext
  <2>3. i < pos
    BY <2>2 DEF MoreToRemove, Pushed, IInv, TypeOK
  <2>4. QED
    BY <2>2, <2>3 DEF IInv, LoopLeavesNothing
<1>2. QED
  BY <1>1, Inductive, PTL DEF Spec, CleanupComplete
=============================================================================
