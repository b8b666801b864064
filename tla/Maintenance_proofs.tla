-------------------------- MODULE Maintenance_proofs --------------------------
(***************************************************************************)
(* Proofs about the work of a release on the database: the migration       *)
(* runner for any scripts of the stated shape, the merge of duplicate      *)
(* commodities, and the way of Commodity Types from codes to ids.          *)
(***************************************************************************)
EXTENDS Maintenance, FiniteSetTheorems, WellFoundedInduction, TLAPS

-----------------------------------------------------------------------------
(***************************************************************************)
(* Types of the migration runner's state, and what a step does to the      *)
(* session that takes it.                                                  *)
(***************************************************************************)
Readings == [facts : SUBSET Facts, broken : SUBSET Facts, rows : Nat]

Sessions ==
  [script : Scripts \cup {Nobody}, pc : Nat, before : Readings, seen : Statuses,
   tx : {"none", "read", "fresh", "snapshot"}, view : Readings,
   ran : BOOLEAN, locked : BOOLEAN, started : BOOLEAN, pending : Statuses,
   exported : Nat \cup {Nobody}]

RunnerTypes ==
  /\ facts \subseteq Facts /\ broken \subseteq Facts /\ rows \in 0 .. MaxWrites
  /\ family \in Families
  /\ ledger \in [family -> Statuses]
  /\ holder \in [Locks -> Runners \cup {Nobody}]
  /\ run \in [Runners -> Sessions]
  /\ applied \in [family -> Nat]
  /\ DOMAIN replaced = family
  /\ \A r \in Runners :
       /\ Busy(r) => run[r].script \in family /\ run[r].pc > 0
       /\ ~Busy(r) => run[r] = Idle
       /\ run[r].before.rows <= MaxWrites /\ run[r].view.rows <= MaxWrites

LEMMA IdleSession ==
  /\ Idle \in Sessions /\ Unread \in Readings /\ Idle.script = Nobody
  /\ Idle.before = Unread /\ Idle.view = Unread /\ Unread.rows = 0
  /\ Unread.facts = {} /\ Unread.broken = {}
BY DEF Idle, Sessions, Unread, Readings, Statuses

LEMMA ScriptFields ==
  ASSUME NEW s \in Scripts
  PROVE  /\ Script[s] \in ScriptShape
         /\ Script[s].steps \in Seq(Steps) /\ Len(Script[s].steps) \in Nat
         /\ DOMAIN Script[s].steps = 1 .. Len(Script[s].steps)
         /\ Script[s].adds \subseteq Facts /\ Script[s].builds \subseteq Facts
         /\ Script[s].removes \subseteq Facts /\ Script[s].goal \subseteq Facts
         /\ Script[s].blocks \subseteq Facts
         /\ Script[s].skipsInvalid \in BOOLEAN /\ Script[s].recordsFailure \in BOOLEAN
         /\ Script[s].rewrites \in BOOLEAN
BY ScriptsAreTyped DEF ScriptShape

LEMMA BusySession ==
  ASSUME RunnerTypes, NEW r \in Runners, Busy(r)
  PROVE  /\ run[r] \in Sessions /\ run[r].script \in family /\ run[r].script \in Scripts
         /\ run[r].pc \in Nat \ {0}
         /\ Mine(r) = Script[run[r].script] /\ Mine(r).lock \in Locks
<1>1. family \subseteq Scripts
  BY ScriptsAreTyped DEF RunnerTypes
<1>. QED
  BY <1>1 DEF RunnerTypes, Mine, Locks, Sessions

LEMMA SeesType ==
  ASSUME RunnerTypes, NEW r \in Runners, Busy(r)
  PROVE  /\ Database \in Readings /\ Sees(r) \in Readings /\ Report(r) \in Readings
         /\ Report(r).rows = Sees(r).rows /\ Report(r).facts \subseteq Sees(r).facts
         /\ Sees(r).rows = (IF run[r].tx = "snapshot" THEN run[r].view ELSE Database).rows
         /\ Sees(r).rows <= MaxWrites
         /\ Sees(r).broken = (IF run[r].tx = "snapshot" THEN run[r].view ELSE Database).broken
         /\ ~run[r].ran => Sees(r) = IF run[r].tx = "snapshot" THEN run[r].view ELSE Database
<1>1. /\ run[r] \in Sessions /\ run[r].view \in Readings
      /\ run[r].script \in Scripts
  BY BusySession DEF Sessions
<1>2. Database \in Readings /\ Database.rows <= MaxWrites
  BY ScriptsAreTyped DEF RunnerTypes, Database, Readings
<1>. DEFINE base == IF run[r].tx = "snapshot" THEN run[r].view ELSE Database
<1>3. base \in Readings /\ base.rows <= MaxWrites
  BY <1>1, <1>2 DEF RunnerTypes
<1>4. /\ Effect(run[r].script, base) \in Readings
      /\ Effect(run[r].script, base).rows = base.rows
      /\ Effect(run[r].script, base).broken = base.broken
  BY <1>1, <1>3, ScriptFields DEF Effect, Readings
<1>5. Sees(r) = IF run[r].ran THEN Effect(run[r].script, base) ELSE base
  BY DEF Sees
<1>. HIDE DEF base
<1>6. /\ Sees(r) \in Readings /\ Sees(r).rows = base.rows /\ Sees(r).broken = base.broken
      /\ ~run[r].ran => Sees(r) = base
  BY <1>3, <1>4, <1>5
<1>7. Report(r) = [Sees(r) EXCEPT !.facts = @ \cap Mine(r).reads]
  BY DEF Report
<1>8. /\ Report(r) \in Readings /\ Report(r).rows = Sees(r).rows
      /\ Report(r).facts \subseteq Sees(r).facts
  BY <1>6, <1>7 DEF Readings
<1>. QED
  BY <1>2, <1>3, <1>6, <1>8 DEF base

Recording == {"running", "insert", "succeeded"}

\* The session r leaves: it is idle and holds no lock, and nothing is written but
\* FAILED and the remains of an index.
Left(r) ==
  /\ run'[r] = Idle
  /\ holder' = [l \in Locks |-> IF holder[l] = r THEN Nobody ELSE holder[l]]
  /\ broken \subseteq broken' /\ broken' \subseteq Facts
  /\ \/ ledger' = ledger
     \/ /\ run[r].pc <= Len(Mine(r).steps)
        /\ (run[r].started /\ Mine(r).recordsFailure) \/ At(r, "build")
        /\ ledger' = [ledger EXCEPT ![run[r].script] = "FAILED"]
  /\ UNCHANGED <<facts, rows, applied, replaced>>

\* The session r has built an index.
Built(r) ==
  /\ At(r, "build") /\ UNCHANGED <<run, holder>>
  /\ \E c \in Mine(r).builds : facts' = facts \cup {c}
  /\ UNCHANGED <<broken, rows, ledger, applied, replaced>>

\* What the step st of r asks of the database and writes.
Wrote(r, st) ==
  LET old == run[r]
      commits == st = "commit" /\ old.ran
      status  == IF st = "succeeded" THEN "SUCCEEDED" ELSE "RUNNING"
  IN
  /\ st = "ledger" => ledger[old.script] # "SUCCEEDED"
  /\ st = "recheck" => Sees(r).rows = old.before.rows
  /\ st = "sql" /\ Mine(r).rewrites /\ old.tx = "snapshot" => old.view.rows = rows
  /\ st = "build" =>
       Mine(r).builds \subseteq facts \cup old.before.facts
                                  \cup (IF Mine(r).skipsInvalid THEN broken ELSE {})
  /\ UNCHANGED <<broken, rows>>
  /\ facts' = IF commits THEN Effect(old.script, Database).facts ELSE facts
  /\ applied' = IF commits THEN [applied EXCEPT ![old.script] = @ + 1] ELSE applied
  /\ replaced' = IF commits
                 THEN [replaced EXCEPT ![old.script] = @ \cup {<<old.exported, rows>>}]
                 ELSE replaced
  /\ ledger' = IF st \in Recording /\ old.tx = "none"
               THEN [ledger EXCEPT ![old.script] = status]
               ELSE IF st = "commit" /\ old.pending # "none"
               THEN [ledger EXCEPT ![old.script] = old.pending]
               ELSE ledger

\* The session r goes on after its step st.
WentOn(r, st) ==
  LET old == run[r]
      new == run'[r]
      queries == st \in Reading \cup {"lock", "recheck", "sql"} /\ old.tx = "fresh"
      records == st \in Recording
      status  == IF st = "succeeded" THEN "SUCCEEDED" ELSE "RUNNING"
  IN
  /\ new \in Sessions /\ new.script = old.script /\ new.pc = old.pc + 1
  /\ new.before = IF st \in Reading THEN Report(r) ELSE old.before
  /\ new.tx = CASE st = "begin" -> "read" [] st = "snapshot" -> "fresh"
                [] st = "commit" -> "none" [] queries -> "snapshot" [] OTHER -> old.tx
  /\ new.view = IF queries THEN Database ELSE old.view
  /\ st = "sql" => new.ran /\ new.locked
  /\ st = "commit" => ~new.ran /\ ~new.locked
  /\ st \notin {"sql", "commit"} => new.ran = old.ran
  /\ st = "tables" => new.locked
  /\ st \notin {"tables", "sql", "commit"} => new.locked = old.locked
  /\ records /\ old.tx = "none" => new.started
  /\ ~(records /\ old.tx = "none") => new.started = old.started
  /\ new.pending = IF st = "commit" THEN "none"
                   ELSE IF records /\ old.tx # "none" THEN status ELSE old.pending
  /\ new.exported = IF st = "export" THEN old.before.rows ELSE old.exported
  /\ holder' = IF st = "lock" THEN [holder EXCEPT ![Mine(r).lock] = r] ELSE holder
  /\ st = "lock" => holder[Mine(r).lock] = Nobody

Moved(r) ==
  /\ Busy(r) /\ family' = family
  /\ \A q \in Runners \ {r} : run'[q] = run[q]
  /\ run' \in [Runners -> Sessions]
  /\ \/ Left(r)
     \/ Built(r)
     \/ \E st \in Steps : At(r, st) /\ WentOn(r, st) /\ Wrote(r, st)

LEMMA LeaveMoves ==
  ASSUME RunnerTypes, NEW r \in Runners, Busy(r), Leave(r), family' = family,
         broken \subseteq broken', broken' \subseteq Facts,
         \/ ledger' = ledger
         \/ /\ run[r].pc <= Len(Mine(r).steps)
            /\ (run[r].started /\ Mine(r).recordsFailure) \/ At(r, "build")
            /\ ledger' = [ledger EXCEPT ![run[r].script] = "FAILED"],
         UNCHANGED <<facts, rows, applied, replaced>>
  PROVE  Moved(r)
<1>1. run' = [run EXCEPT ![r] = Idle] /\ run \in [Runners -> Sessions]
  BY DEF Leave, RunnerTypes
<1>2. /\ \A q \in Runners \ {r} : run'[q] = run[q]
      /\ run' \in [Runners -> Sessions] /\ run'[r] = Idle
  BY <1>1, IdleSession
<1>. QED
  BY <1>2 DEF Leave, Moved, Left

LEMMA AbandonMoves ==
  ASSUME RunnerTypes, NEW r \in Runners, Busy(r), Abandon(r), family' = family,
         run[r].pc <= Len(Mine(r).steps)
  PROVE  Moved(r)
<1>1. broken \subseteq broken' /\ broken' \subseteq Facts
  BY DEF Abandon, RunnerTypes
<1>. QED
  BY <1>1, LeaveMoves DEF Abandon

LEMMA AdvanceMoves ==
  ASSUME RunnerTypes, NEW r \in Runners, NEW u \in Sessions, Advance(r, u)
  PROVE  /\ \A q \in Runners \ {r} : run'[q] = run[q]
         /\ run' \in [Runners -> Sessions] /\ run'[r] \in Sessions
         /\ run'[r].pc = u.pc + 1 /\ run'[r].script = u.script
         /\ run'[r].before = u.before /\ run'[r].seen = u.seen
         /\ run'[r].tx = u.tx /\ run'[r].view = u.view
         /\ run'[r].ran = u.ran /\ run'[r].locked = u.locked
         /\ run'[r].started = u.started /\ run'[r].pending = u.pending
         /\ run'[r].exported = u.exported
<1>. DEFINE v == [u EXCEPT !.pc = @ + 1]
<1>1. /\ v \in Sessions
      /\ v.pc = u.pc + 1 /\ v.script = u.script /\ v.before = u.before /\ v.seen = u.seen
      /\ v.tx = u.tx /\ v.view = u.view /\ v.ran = u.ran /\ v.locked = u.locked
      /\ v.started = u.started /\ v.pending = u.pending /\ v.exported = u.exported
  BY DEF Sessions
<1>2. run' = [run EXCEPT ![r] = v] /\ run \in [Runners -> Sessions]
  BY DEF Advance, RunnerTypes
<1>. HIDE DEF v
<1>3. /\ \A q \in Runners \ {r} : run'[q] = run[q]
      /\ run' \in [Runners -> Sessions] /\ run'[r] = v
  BY <1>1, <1>2
<1>. QED
  BY <1>1, <1>3

LEMMA WentOnMoves ==
  ASSUME RunnerTypes, NEW r \in Runners, NEW st \in Steps, At(r, st), WentOn(r, st), Wrote(r, st),
         \A q \in Runners \ {r} : run'[q] = run[q],
         run' \in [Runners -> Sessions], family' = family
  PROVE  Moved(r)
BY DEF Moved, At

LEMMA QueriedType ==
  ASSUME RunnerTypes, NEW r \in Runners, Busy(r)
  PROVE  /\ Queried(r) \in Sessions
         /\ Queried(r).tx = IF run[r].tx = "fresh" THEN "snapshot" ELSE run[r].tx
         /\ Queried(r).view = IF run[r].tx = "fresh" THEN Database ELSE run[r].view
         /\ Queried(r).script = run[r].script /\ Queried(r).pc = run[r].pc
         /\ Queried(r).before = run[r].before /\ Queried(r).ran = run[r].ran
         /\ Queried(r).locked = run[r].locked /\ Queried(r).started = run[r].started
         /\ Queried(r).pending = run[r].pending /\ Queried(r).exported = run[r].exported
         /\ Queried(r).seen = run[r].seen
<1>1. run[r] \in Sessions /\ Database \in Readings
  BY BusySession, SeesType
<1>. QED
  BY <1>1 DEF Queried, Sessions

LEMMA StepMoves ==
  ASSUME RunnerTypes, NEW r \in Runners, Busy(r), Step(r)
  PROVE  Moved(r)
<1>. DEFINE old == run[r]
<1>1. /\ old \in Sessions /\ old.script \in Scripts /\ old.pc \in Nat \ {0}
      /\ Mine(r) = Script[old.script] /\ Mine(r).lock \in Locks
      /\ Report(r) \in Readings /\ Queried(r) \in Sessions /\ old.before.rows \in Nat
  BY BusySession, SeesType, QueriedType DEF Sessions, Readings
<1>2. broken \subseteq Facts
  BY DEF RunnerTypes
<1>3. ASSUME NEW st, At(r, st), family' = family, Abandon(r) PROVE Moved(r)
  BY <1>3, AbandonMoves DEF At
<1>. USE DEF Quiet, bookkeeping
<1>4. ASSUME NEW st \in {"ledger", "decide", "phases", "check", "compare", "build"},
             At(r, st), Advance(r, old), Quiet, family' = family,
             st = "ledger" => ledger[old.script] # "SUCCEEDED",
             st = "build" => Mine(r).builds \subseteq facts \cup old.before.facts
                                 \cup (IF Mine(r).skipsInvalid THEN broken ELSE {})
      PROVE  Moved(r)
  <2>1. st \in Steps
    BY <1>4 DEF Steps
  <2>2. WentOn(r, st)
    BY <1>1, <1>4, AdvanceMoves DEF WentOn, Reading, Recording
  <2>3. Wrote(r, st)
    BY <1>4 DEF Wrote, Recording
  <2>. QED
    BY <1>1, <1>4, <2>1, <2>2, <2>3, AdvanceMoves, WentOnMoves
<1>5. CASE Look(r)
  <2>. DEFINE u == [Queried(r) EXCEPT !.before = Report(r)]
  <2>1. u \in Sessions /\ "look" \in Steps
    BY <1>1 DEF Sessions, Steps
  <2>2. At(r, "look") /\ Advance(r, u) /\ family' = family /\ Quiet
    BY <1>5 DEF Look
  <2>3. WentOn(r, "look")
    BY <1>1, <2>1, <2>2, AdvanceMoves, QueriedType DEF WentOn, Sessions, Reading, Recording
  <2>4. Wrote(r, "look")
    BY <2>2 DEF Wrote, Recording
  <2>. QED
    BY <1>1, <2>1, <2>2, <2>3, <2>4, AdvanceMoves, WentOnMoves
<1>6. CASE Inspect(r)
  <2>. DEFINE u == [Queried(r) EXCEPT !.before = Report(r)]
  <2>1. u \in Sessions
    BY <1>1 DEF Sessions
  <2>2. ASSUME NEW st \in {"inspect", "collect"}, At(r, st), Advance(r, u),
               family' = family, Quiet
        PROVE  Moved(r)
    <3>1. st \in Steps
      BY <2>2 DEF Steps
    <3>2. WentOn(r, st)
      BY <1>1, <2>1, <2>2, AdvanceMoves, QueriedType DEF WentOn, Sessions, Reading, Recording
    <3>3. Wrote(r, st)
      BY <2>2 DEF Wrote, Recording
    <3>. QED
      BY <1>1, <2>1, <2>2, <3>1, <3>2, <3>3, AdvanceMoves, WentOnMoves
  <2>3. /\ At(r, "inspect") \/ At(r, "collect")
        /\ family' = family
        /\ Abandon(r) \/ (Advance(r, u) /\ Quiet)
    BY <1>6 DEF Inspect
  <2>. QED
    BY <1>3, <2>2, <2>3
<1>7. CASE TakeLock(r)
  <2>1. "lock" \in Steps
    BY DEF Steps
  <2>2. /\ At(r, "lock") /\ family' = family
        /\ \/ Abandon(r)
           \/ /\ Advance(r, Queried(r))
              /\ holder[Mine(r).lock] = Nobody /\ holder' = [holder EXCEPT ![Mine(r).lock] = r]
              /\ UNCHANGED <<facts, broken, rows, ledger, applied, replaced>>
    BY <1>7 DEF TakeLock
  <2>3. ~Abandon(r) => WentOn(r, "lock")
    BY <1>1, <2>2, AdvanceMoves, QueriedType DEF WentOn, Sessions, Reading, Recording
  <2>4. ~Abandon(r) => Wrote(r, "lock")
    BY <2>2 DEF Wrote, Recording
  <2>. QED
    BY <1>1, <1>3, <2>1, <2>2, <2>3, <2>4, AdvanceMoves, WentOnMoves
<1>8. CASE Remember(r)
  <2>. DEFINE u == [old EXCEPT !.seen = ledger[old.script]]
  <2>1. u \in Sessions /\ "remember" \in Steps
    BY <1>1, BusySession DEF Sessions, Steps, RunnerTypes
  <2>2. At(r, "remember") /\ Advance(r, u) /\ family' = family /\ Quiet
    BY <1>8 DEF Remember
  <2>3. WentOn(r, "remember")
    BY <1>1, <2>1, <2>2, AdvanceMoves DEF WentOn, Sessions, Reading, Recording
  <2>4. Wrote(r, "remember")
    BY <2>2 DEF Wrote, Recording
  <2>. QED
    BY <1>1, <2>1, <2>2, <2>3, <2>4, AdvanceMoves, WentOnMoves
<1>9. CASE Ledger(r) \/ Decide(r) \/ Phases(r) \/ Check(r) \/ Compare(r)
  <2>1. ASSUME NEW st \in {"ledger", "decide", "phases", "check", "compare"}, At(r, st),
               family' = family,
               Abandon(r) \/ (Advance(r, old) /\ Quiet
                                /\ (st = "ledger" => ledger[old.script] # "SUCCEEDED"))
        PROVE  Moved(r)
    BY <1>3, <1>4, <2>1
  <2>2. CASE Ledger(r)
    BY <2>1, <2>2 DEF Ledger, DecideOn
  <2>3. CASE Decide(r)
    BY <2>1, <2>3 DEF Decide, DecideOn
  <2>4. CASE Phases(r)
    BY <2>1, <2>4 DEF Phases
  <2>5. CASE Check(r)
    BY <2>1, <2>5 DEF Check
  <2>6. CASE Compare(r)
    BY <2>1, <2>6 DEF Compare
  <2>. QED
    BY <1>9, <2>2, <2>3, <2>4, <2>5, <2>6
<1>10. CASE Build(r)
  <2>. DEFINE covered == facts \cup old.before.facts
                           \cup (IF Mine(r).skipsInvalid THEN broken ELSE {})
  <2>1. /\ At(r, "build") /\ family' = family
        /\ \/ Advance(r, old) /\ Quiet /\ Mine(r).builds \ covered = {}
           \/ \E c \in Mine(r).builds : facts' = facts \cup {c}
                /\ UNCHANGED <<broken, rows, ledger, holder, run, applied, replaced>>
           \/ \E c \in Mine(r).builds : broken' = broken \cup {c} /\ Leave(r)
                /\ ledger' = [ledger EXCEPT ![old.script] = "FAILED"]
                /\ UNCHANGED <<facts, rows, applied, replaced>>
    BY <1>1, <1>10 DEF Build
  <2>2. CASE Advance(r, old) /\ Quiet /\ Mine(r).builds \ covered = {}
    BY <1>4, <2>1, <2>2
  <2>3. CASE \E c \in Mine(r).builds : facts' = facts \cup {c}
               /\ UNCHANGED <<broken, rows, ledger, holder, run, applied, replaced>>
    BY <2>1, <2>3 DEF Moved, Built, RunnerTypes
  <2>4. CASE \E c \in Mine(r).builds : broken' = broken \cup {c} /\ Leave(r)
               /\ ledger' = [ledger EXCEPT ![old.script] = "FAILED"]
               /\ UNCHANGED <<facts, rows, applied, replaced>>
    <3>1. Mine(r).builds \subseteq Facts /\ old.pc <= Len(Mine(r).steps)
      BY <1>1, <2>1, ScriptFields DEF At
    <3>. QED
      BY <1>2, <2>1, <2>4, <3>1, LeaveMoves
  <2>. QED
    BY <2>1, <2>2, <2>3, <2>4
<1>11. ASSUME NEW st \in Recording, At(r, st),
              Record(r, IF st = "succeeded" THEN "SUCCEEDED" ELSE "RUNNING"),
              UNCHANGED <<facts, broken, rows, holder, applied, replaced, family>>
       PROVE  Moved(r)
  <2>. DEFINE status == IF st = "succeeded" THEN "SUCCEEDED" ELSE "RUNNING"
  <2>1. st \in Steps /\ status \in Statuses /\ st # "commit"
    BY <1>11 DEF Steps, Statuses, Recording
  <2>2. CASE old.tx = "none"
    <3>. DEFINE u == [old EXCEPT !.started = TRUE]
    <3>1. u \in Sessions /\ Advance(r, u) /\ ledger' = [ledger EXCEPT ![old.script] = status]
      BY <1>1, <1>11, <2>2 DEF Sessions, Record
    <3>2. WentOn(r, st)
      BY <1>1, <1>11, <2>1, <2>2, <3>1, AdvanceMoves DEF WentOn, Sessions, Reading, Recording
    <3>3. Wrote(r, st)
      BY <1>11, <2>2, <3>1 DEF Wrote, Recording
    <3>. QED
      BY <1>1, <1>11, <2>1, <3>1, <3>2, <3>3, AdvanceMoves, WentOnMoves
  <2>3. CASE old.tx # "none"
    <3>. DEFINE u == [old EXCEPT !.pending = status]
    <3>1. u \in Sessions /\ Advance(r, u) /\ ledger' = ledger
      BY <1>1, <1>11, <2>1, <2>3 DEF Sessions, Record
    <3>2. WentOn(r, st)
      BY <1>1, <1>11, <2>1, <2>3, <3>1, AdvanceMoves DEF WentOn, Sessions, Reading, Recording
    <3>3. Wrote(r, st)
      BY <1>11, <2>3, <3>1 DEF Wrote, Recording
    <3>. QED
      BY <1>1, <1>11, <2>1, <3>1, <3>2, <3>3, AdvanceMoves, WentOnMoves
  <2>. QED
    BY <2>2, <2>3
<1>12. CASE MarkRunning(r) \/ Insert(r) \/ MarkSucceeded(r)
  <2>1. CASE MarkRunning(r)
    BY <1>11, <2>1 DEF MarkRunning, Recording
  <2>2. CASE Insert(r)
    BY <1>3, <1>11, <2>2 DEF Insert, Recording
  <2>3. CASE MarkSucceeded(r)
    BY <1>11, <2>3 DEF MarkSucceeded, Recording
  <2>. QED
    BY <1>12, <2>1, <2>2, <2>3
<1>13. CASE Begin(r)
  <2>1. ASSUME NEW st \in {"begin", "snapshot"}, At(r, st),
               Advance(r, [old EXCEPT !.tx = IF st = "begin" THEN "read" ELSE "fresh"])
        PROVE  Moved(r)
    <3>. DEFINE u == [old EXCEPT !.tx = IF st = "begin" THEN "read" ELSE "fresh"]
    <3>1. u \in Sessions /\ st \in Steps /\ family' = family /\ Quiet
      BY <1>1, <1>13, <2>1 DEF Sessions, Steps, Begin
    <3>2. WentOn(r, st)
      BY <1>1, <2>1, <3>1, AdvanceMoves DEF WentOn, Sessions, Reading, Recording
    <3>3. Wrote(r, st)
      BY <2>1, <3>1 DEF Wrote, Recording
    <3>. QED
      BY <1>1, <2>1, <3>1, <3>2, <3>3, AdvanceMoves, WentOnMoves
  <2>. QED
    BY <1>13, <2>1 DEF Begin
<1>14. CASE LockTables(r)
  <2>. DEFINE u == [old EXCEPT !.locked = TRUE]
  <2>1. u \in Sessions /\ "tables" \in Steps
    BY <1>1 DEF Sessions, Steps
  <2>2. /\ At(r, "tables") /\ family' = family
        /\ Abandon(r) \/ (Advance(r, u) /\ Quiet)
    BY <1>14 DEF LockTables
  <2>3. ~Abandon(r) => WentOn(r, "tables")
    BY <1>1, <2>1, <2>2, AdvanceMoves DEF WentOn, Sessions, Reading, Recording
  <2>4. ~Abandon(r) => Wrote(r, "tables")
    BY <2>2 DEF Wrote, Recording
  <2>. QED
    BY <1>1, <1>3, <2>1, <2>2, <2>3, <2>4, AdvanceMoves, WentOnMoves
<1>15. CASE Recheck(r)
  <2>1. "recheck" \in Steps
    BY DEF Steps
  <2>2. /\ At(r, "recheck") /\ family' = family
        /\ Abandon(r) \/ (Advance(r, Queried(r)) /\ Quiet /\ Sees(r).rows = old.before.rows)
    BY <1>15 DEF Recheck
  <2>3. ~Abandon(r) => WentOn(r, "recheck")
    BY <1>1, <2>2, AdvanceMoves, QueriedType DEF WentOn, Sessions, Reading, Recording
  <2>4. ~Abandon(r) => Wrote(r, "recheck")
    BY <2>2 DEF Wrote, Recording
  <2>. QED
    BY <1>1, <1>3, <2>1, <2>2, <2>3, <2>4, AdvanceMoves, WentOnMoves
<1>16. CASE Export(r)
  <2>. DEFINE u == [old EXCEPT !.exported = old.before.rows]
  <2>1. u \in Sessions /\ "export" \in Steps
    BY <1>1 DEF Sessions, Steps
  <2>2. At(r, "export") /\ Advance(r, u) /\ family' = family /\ Quiet
    BY <1>16 DEF Export
  <2>3. WentOn(r, "export")
    BY <1>1, <2>1, <2>2, AdvanceMoves DEF WentOn, Sessions, Reading, Recording
  <2>4. Wrote(r, "export")
    BY <2>2 DEF Wrote, Recording
  <2>. QED
    BY <1>1, <2>1, <2>2, <2>3, <2>4, AdvanceMoves, WentOnMoves
<1>17. CASE RunSql(r)
  <2>. DEFINE u == [Queried(r) EXCEPT !.ran = TRUE, !.locked = TRUE]
  <2>1. u \in Sessions /\ "sql" \in Steps
    BY <1>1 DEF Sessions, Steps
  <2>2. /\ At(r, "sql") /\ family' = family
        /\ \/ Abandon(r)
           \/ /\ Advance(r, u) /\ Quiet
              /\ ~(old.tx = "snapshot" /\ old.view.rows # rows /\ Script[old.script].rewrites)
    BY <1>17 DEF RunSql
  <2>3. /\ u.script = old.script /\ u.pc = old.pc /\ u.before = old.before
        /\ u.tx = Queried(r).tx /\ u.view = Queried(r).view
        /\ u.ran = TRUE /\ u.locked = TRUE /\ u.started = old.started
        /\ u.pending = old.pending /\ u.exported = old.exported
    BY <1>1, QueriedType DEF Sessions
  <2>. HIDE DEF u
  <2>4. ~Abandon(r) => WentOn(r, "sql")
    BY <1>1, <2>1, <2>2, <2>3, AdvanceMoves, QueriedType DEF WentOn, Reading, Recording
  <2>5. ~Abandon(r) => Wrote(r, "sql")
    BY <1>1, <2>2 DEF Wrote, Recording
  <2>. QED
    BY <1>1, <1>3, <2>1, <2>2, <2>4, <2>5, AdvanceMoves, WentOnMoves
<1>18. CASE Commit(r)
  <2>. DEFINE u == [old EXCEPT !.tx = "none", !.ran = FALSE, !.locked = FALSE,
                               !.pending = "none"]
  <2>1. u \in Sessions /\ "commit" \in Steps
    BY <1>1 DEF Sessions, Steps, Statuses
  <2>2. At(r, "commit") /\ Advance(r, u) /\ family' = family /\ holder' = holder
    BY <1>18 DEF Commit
  <2>3. /\ u.script = old.script /\ u.pc = old.pc /\ u.before = old.before
        /\ u.tx = "none" /\ u.view = old.view
        /\ u.ran = FALSE /\ u.locked = FALSE /\ u.started = old.started
        /\ u.pending = "none" /\ u.exported = old.exported
    BY <1>1 DEF Sessions
  <2>. HIDE DEF u
  <2>4. WentOn(r, "commit")
    BY <1>1, <2>1, <2>2, <2>3, AdvanceMoves DEF WentOn, Reading, Recording
  <2>5. Wrote(r, "commit")
    BY <1>18 DEF Wrote, Recording, Commit
  <2>. QED
    BY <1>1, <2>1, <2>2, <2>4, <2>5, AdvanceMoves, WentOnMoves
<1>19. CASE Finish(r)
  <2>1. /\ Leave(r) /\ family' = family
        /\ UNCHANGED <<facts, broken, rows, ledger, applied, replaced>>
    BY <1>19 DEF Finish
  <2>. QED
    BY <1>2, <2>1, LeaveMoves
<1>. QED
  BY <1>5, <1>6, <1>7, <1>8, <1>9, <1>10, <1>12, <1>13, <1>14, <1>15, <1>16, <1>17,
     <1>18, <1>19 DEF Step

LEMMA InterruptMoves ==
  ASSUME RunnerTypes, NEW r \in Runners, Interrupt(r)
  PROVE  Moved(r)
<1>1. /\ Busy(r) /\ family' = family /\ broken \subseteq Facts
      /\ \/ run[r].pc <= Len(Mine(r).steps) /\ Abandon(r)
         \/ Leave(r) /\ UNCHANGED <<facts, broken, rows, ledger, applied, replaced>>
         \/ /\ \E c \in Mine(r).builds : broken' = broken \cup {c}
            /\ Leave(r) /\ UNCHANGED <<facts, rows, ledger, applied, replaced>>
  BY DEF Interrupt, RunnerTypes
<1>2. Mine(r).builds \subseteq Facts
  BY <1>1, BusySession, ScriptFields
<1>. QED
  BY <1>1, <1>2, LeaveMoves, AbandonMoves

\* Every step of the specification is a step of a session, the start of one, or a
\* write of the application.
LEMMA NextMoves ==
  ASSUME RunnerTypes, [Next]_vars
  PROVE  \/ \E r \in Runners : Moved(r)
         \/ \E r \in Runners, s \in family : Start(r, s)
         \/ Write
         \/ \E a \in AppFacts : Spoil(a)
         \/ UNCHANGED vars
<1>1. ASSUME NEW r \in Runners, Step(r) PROVE Busy(r)
  BY <1>1 DEF Step, Look, Inspect, TakeLock, Remember, Ledger, Decide, Phases, MarkRunning,
     Insert, Begin, LockTables, Recheck, Export, RunSql, Build, Check, Compare,
     MarkSucceeded, Commit, Finish, At
<1>. QED
  BY <1>1, StepMoves, InterruptMoves DEF Next

LEMMA TypesAtStart ==
  ASSUME Init PROVE RunnerTypes
<1>1. family \in Families /\ facts \subseteq Facts
  BY ScriptsAreTyped DEF Init
<1>2. /\ ledger \in [family -> Statuses] /\ holder \in [Locks -> Runners \cup {Nobody}]
      /\ applied \in [family -> Nat] /\ DOMAIN replaced = family
  BY DEF Init, Statuses
<1>3. /\ run \in [Runners -> Sessions] /\ \A r \in Runners : run[r] = Idle
  BY IdleSession DEF Init
<1>. QED
  BY <1>1, <1>2, <1>3, IdleSession, ScriptsAreTyped DEF Init, RunnerTypes, Busy

LEMMA TypesStep ==
  ASSUME RunnerTypes, [Next]_vars PROVE RunnerTypes'
<1>1. ASSUME NEW r \in Runners, Moved(r) PROVE RunnerTypes'
  <2>1. /\ run[r] \in Sessions /\ run[r].script \in family /\ run[r].script \in Scripts
        /\ run[r].pc \in Nat \ {0} /\ Mine(r) = Script[run[r].script]
        /\ Mine(r).lock \in Locks /\ Busy(r) /\ family' = family
    BY <1>1, BusySession DEF Moved
  <2>2. Report(r).rows <= MaxWrites /\ Database.rows <= MaxWrites
    BY <2>1, SeesType DEF RunnerTypes, Database
  <2>3. Locks' = Locks
    BY <2>1 DEF Locks
  <2>4. /\ run' \in [Runners -> Sessions] /\ rows' \in 0 .. MaxWrites /\ DOMAIN replaced' = family
        /\ applied' \in [family -> Nat]
    <3>1. CASE Left(r)
      BY <1>1, <3>1 DEF Left, Moved, RunnerTypes
    <3>2. CASE Built(r)
      BY <1>1, <3>2 DEF Built, Moved, RunnerTypes
    <3>3. ASSUME NEW st \in Steps, Wrote(r, st)
          PROVE rows' = rows /\ DOMAIN replaced' = family /\ applied' \in [family -> Nat]
      BY <2>1, <3>3 DEF Wrote, RunnerTypes
    <3>. QED
      BY <1>1, <3>1, <3>2, <3>3 DEF Moved, RunnerTypes
  <2>5. facts' \subseteq Facts /\ broken' \subseteq Facts
    <3>1. CASE Left(r)
      BY <3>1 DEF Left, RunnerTypes
    <3>2. CASE Built(r)
      BY <2>1, <3>2, ScriptFields DEF Built, RunnerTypes
    <3>3. ASSUME NEW st \in Steps, Wrote(r, st) PROVE facts' \subseteq Facts /\ broken' \subseteq Facts
      <4>1. Effect(run[r].script, Database).facts \subseteq Facts
        BY <2>1, ScriptFields DEF Effect, Database, RunnerTypes
      <4>. QED
        BY <3>3, <4>1 DEF Wrote, RunnerTypes
    <3>. QED
      BY <1>1, <3>1, <3>2, <3>3 DEF Moved
  <2>6. ledger' \in [family -> Statuses]
    <3>1. CASE Left(r)
      BY <2>1, <3>1 DEF Left, RunnerTypes, Statuses
    <3>2. CASE Built(r)
      BY <3>2 DEF Built, RunnerTypes
    <3>3. ASSUME NEW st \in Steps, Wrote(r, st) PROVE ledger' \in [family -> Statuses]
      <4>1. run[r].pending \in Statuses /\ "SUCCEEDED" \in Statuses /\ "RUNNING" \in Statuses
        BY <2>1 DEF Sessions, Statuses
      <4>. QED
        BY <2>1, <3>3, <4>1 DEF Wrote, RunnerTypes
    <3>. QED
      BY <1>1, <3>1, <3>2, <3>3 DEF Moved
  <2>7. holder' \in [Locks -> Runners \cup {Nobody}]
    BY <1>1, <2>1 DEF Moved, Left, Built, WentOn, RunnerTypes
  <2>8. /\ Busy(r)' => run'[r].script \in family /\ run'[r].pc > 0
        /\ ~Busy(r)' => run'[r] = Idle
        /\ run'[r].before.rows <= MaxWrites /\ run'[r].view.rows <= MaxWrites
    <3>1. CASE Left(r)
      BY <3>1, IdleSession, ScriptsAreTyped DEF Left, Busy
    <3>2. CASE Built(r)
      BY <2>1, <3>2 DEF Built, RunnerTypes, Busy
    <3>3. ASSUME NEW st \in Steps, WentOn(r, st)
          PROVE /\ run'[r].script = run[r].script /\ run'[r].pc = run[r].pc + 1
                /\ run'[r].before.rows <= MaxWrites /\ run'[r].view.rows <= MaxWrites
      BY <2>2, <3>3 DEF WentOn, RunnerTypes
    <3>. QED
      BY <1>1, <2>1, <3>1, <3>2, <3>3 DEF Moved, Busy
  <2>9. \A q \in Runners :
          /\ Busy(q)' => run'[q].script \in family /\ run'[q].pc > 0
          /\ ~Busy(q)' => run'[q] = Idle
          /\ run'[q].before.rows <= MaxWrites /\ run'[q].view.rows <= MaxWrites
    BY <1>1, <2>8 DEF Moved, RunnerTypes, Busy
  <2>. QED
    BY <2>1, <2>3, <2>4, <2>5, <2>6, <2>7, <2>9 DEF RunnerTypes
<1>2. ASSUME NEW r \in Runners, NEW s \in family, Start(r, s) PROVE RunnerTypes'
  <2>. DEFINE u == [Idle EXCEPT !.script = s, !.pc = 1]
  <2>1. /\ u \in Sessions /\ u.script = s /\ u.pc = 1
        /\ u.before.rows <= MaxWrites /\ u.view.rows <= MaxWrites
        /\ s \in Scripts /\ s # Nobody
    <3>1. s \in Scripts /\ s # Nobody /\ MaxWrites \in Nat
      BY ScriptsAreTyped DEF RunnerTypes
    <3>2. u \in Sessions /\ u.script = s /\ u.pc = 1 /\ u.before = Unread /\ u.view = Unread
      BY <3>1, IdleSession DEF Sessions
    <3>. QED
      BY <3>1, <3>2, IdleSession
  <2>. HIDE DEF u
  <2>2. /\ run' = [run EXCEPT ![r] = u] /\ run \in [Runners -> Sessions]
        /\ UNCHANGED <<facts, broken, rows, ledger, holder, applied, replaced, family>>
    BY <1>2 DEF Start, Quiet, RunnerTypes, u
  <2>3. /\ run' \in [Runners -> Sessions] /\ run'[r] = u
        /\ \A q \in Runners \ {r} : run'[q] = run[q]
    BY <2>1, <2>2
  <2>. QED
    BY <2>1, <2>2, <2>3 DEF RunnerTypes, Busy, Locks
<1>3. CASE Write
  BY <1>3, ScriptsAreTyped DEF Write, RunnerTypes, bookkeeping, Busy, Locks
<1>4. ASSUME NEW a \in AppFacts, Spoil(a) PROVE RunnerTypes'
  <2>1. a \in Facts
    BY <1>4, ScriptsAreTyped, ScriptFields DEF Spoil, RunnerTypes
  <2>. QED
    BY <1>4, <2>1 DEF Spoil, RunnerTypes, Busy, Locks
<1>5. CASE UNCHANGED vars
  BY <1>5 DEF vars, RunnerTypes, Busy, Locks
<1>. QED
  BY <1>1, <1>2, <1>3, <1>4, <1>5, NextMoves

LEMMA TypesHold == Spec => []RunnerTypes
<1>1. Init => RunnerTypes
  BY TypesAtStart
<1>2. RunnerTypes /\ [Next]_vars => RunnerTypes'
  BY TypesStep
<1>. QED
  BY <1>1, <1>2, PTL DEF Spec

\* The state keeps its types, for every set of scripts and any number of sessions
\* (the variables of scripts/run-*.mjs and the tables they work on).
THEOREM RunnerTypesHold == Spec => []TypeOK
<1>1. RunnerTypes => TypeOK
  <2>. SUFFICES ASSUME RunnerTypes PROVE TypeOK
    OBVIOUS
  <2>1. ASSUME NEW d \in Readings, d.rows <= MaxWrites PROVE IsReading(d)
    BY <2>1, ScriptsAreTyped DEF IsReading, Readings
  <2>2. Database \in Readings /\ Database.rows <= MaxWrites
    BY ScriptsAreTyped DEF RunnerTypes, Database, Readings
  <2>. QED
    BY <2>1, <2>2 DEF RunnerTypes, TypeOK, Sessions
<1>. QED
  BY <1>1, TypesHold, PTL

-----------------------------------------------------------------------------
(* A session follows its script: what it remembers agrees with its place.    *)

Earlier(s, i, kinds) == \E k \in 1 .. i - 1 : Script[s].steps[k] \in kinds

Follows(r) ==
  LET q == run[r]
      s == q.script
  IN
  Busy(r) =>
    /\ q.pc <= Len(Script[s].steps) + 1
    /\ q.tx # "none" <=> InTx(s, q.pc)
    /\ q.ran <=> RanBy(s, q.pc)
    /\ q.ran => q.locked
    /\ LockedBy(s, q.pc) => q.locked
    /\ Earlier(s, q.pc, {"lock"}) => holder[Script[s].lock] = r
    /\ q.started => \E k \in 1 .. q.pc - 1 : Script[s].steps[k] \in Recording /\ ~InTx(s, k)
    /\ q.pending = "SUCCEEDED" => Earlier(s, q.pc, {"succeeded"})
    /\ q.exported # Nobody => Earlier(s, q.pc, {"export"})

FollowInv == RunnerTypes /\ \A r \in Runners : Follows(r)

\* Positions of steps up to the i-th of n.
LEMMA Positions ==
  ASSUME NEW n \in Nat, NEW i \in Nat \ {0}, i <= n
  PROVE  /\ \A j \in 1 .. n : j < i => i \in j + 1 .. n
         /\ \A j \in 1 .. i - 1 : j \in 1 .. n /\ j < i /\ j \in 1 .. i
         /\ \A k \in 1 .. i : k \in Nat \ {0} /\ k <= i /\ k <= n
         /\ \A k \in 1 .. i : \A e \in 1 .. k - 1 : e \in 1 .. i - 1
BY SMT

LEMMA FirstPlace ==
  ASSUME NEW s
  PROVE  /\ ~InTx(s, 1) /\ ~RanBy(s, 1) /\ ~LockedBy(s, 1) /\ ~FixedBy(s, 1)
         /\ \A kinds : ~Earlier(s, 1, kinds)
BY DEF InTx, RanBy, LockedBy, FixedBy, Earlier

LEMMA NextPlace ==
  ASSUME NEW s, NEW i \in Nat \ {0}, NEW st, st = Script[s].steps[i]
  PROVE  /\ InTx(s, i + 1) <=> st \in {"begin", "snapshot"} \/ (InTx(s, i) /\ st # "commit")
         /\ RanBy(s, i + 1) <=> st = "sql" \/ (RanBy(s, i) /\ st # "commit")
         /\ LockedBy(s, i + 1) <=> st = "tables" \/ (LockedBy(s, i) /\ st # "commit")
         /\ \A kinds : Earlier(s, i + 1, kinds) <=> st \in kinds \/ Earlier(s, i, kinds)
<1>1. /\ 1 .. (i + 1) - 1 = (1 .. i - 1) \cup {i}
      /\ \A b \in 1 .. i - 1 : b .. (i + 1) - 1 = (b .. i - 1) \cup {i}
      /\ i .. (i + 1) - 1 = {i}
  OBVIOUS
<1>2. InTx(s, i + 1) <=> st \in {"begin", "snapshot"} \/ (InTx(s, i) /\ st # "commit")
  BY <1>1 DEF InTx
<1>3. RanBy(s, i + 1) <=> st = "sql" \/ (RanBy(s, i) /\ st # "commit")
  BY <1>1 DEF RanBy
<1>4. LockedBy(s, i + 1) <=> st = "tables" \/ (LockedBy(s, i) /\ st # "commit")
  BY <1>1 DEF LockedBy
<1>5. \A kinds : Earlier(s, i + 1, kinds) <=> st \in kinds \/ Earlier(s, i, kinds)
  BY <1>1 DEF Earlier
<1>. QED
  BY <1>2, <1>3, <1>4, <1>5

\* Rows that are fixed at a place were fixed before, or have just been read with
\* their tables locked.
LEMMA FixedPlace ==
  ASSUME NEW s, NEW i \in Nat \ {0}, NEW st, st = Script[s].steps[i], FixedBy(s, i + 1)
  PROVE  \/ FixedBy(s, i) /\ st \notin {"begin", "snapshot", "commit"}
         \/ LockedBy(s, i) /\ st \in {"collect", "recheck"}
<1>1. PICK t \in 1 .. i, c \in 1 .. i :
        /\ t < c
        /\ Script[s].steps[t] = "tables" /\ Script[s].steps[c] \in {"collect", "recheck"}
        /\ \A k \in t .. i : Script[s].steps[k] \notin {"begin", "snapshot", "commit"}
  BY DEF FixedBy
<1>2. st \notin {"begin", "snapshot", "commit"}
  BY <1>1
<1>3. CASE c = i
  BY <1>1, <1>3 DEF LockedBy
<1>4. CASE c # i
  <2>1. t \in 1 .. i - 1 /\ c \in 1 .. i - 1 /\ \A k \in t .. i - 1 : k \in t .. i
    BY <1>1, <1>4
  <2>. QED
    BY <1>1, <1>2, <2>1 DEF FixedBy
<1>. QED
  BY <1>3, <1>4

\* What StartMoves, At and the others say in terms of the session.
LEMMA StartMoves ==
  ASSUME RunnerTypes, NEW r \in Runners, NEW s \in family, Start(r, s)
  PROVE  /\ ~Busy(r) /\ run' \in [Runners -> Sessions] /\ s \in Scripts
         /\ \A q \in Runners \ {r} : run'[q] = run[q]
         /\ run'[r].script = s /\ run'[r].pc = 1 /\ run'[r].before = Unread
         /\ run'[r].tx = "none" /\ run'[r].view = Unread /\ run'[r].ran = FALSE
         /\ run'[r].locked = FALSE /\ run'[r].started = FALSE /\ run'[r].pending = "none"
         /\ run'[r].exported = Nobody
         /\ UNCHANGED <<facts, broken, rows, ledger, holder, applied, replaced, family>>
<1>. DEFINE u == [Idle EXCEPT !.script = s, !.pc = 1]
<1>1. s \in Scripts
  BY ScriptsAreTyped DEF RunnerTypes
<1>2. /\ u \in Sessions /\ u.script = s /\ u.pc = 1 /\ u.before = Unread
      /\ u.tx = "none" /\ u.view = Unread /\ u.ran = FALSE
      /\ u.locked = FALSE /\ u.started = FALSE /\ u.pending = "none"
      /\ u.exported = Nobody
  BY <1>1, IdleSession DEF Sessions, Idle
<1>. HIDE DEF u
<1>3. /\ run' = [run EXCEPT ![r] = u] /\ run \in [Runners -> Sessions] /\ ~Busy(r)
      /\ UNCHANGED <<facts, broken, rows, ledger, holder, applied, replaced, family>>
  BY DEF Start, Quiet, RunnerTypes, u
<1>. QED
  BY <1>1, <1>2, <1>3

\* What a step of one session leaves alone: every lock another one holds.
LEMMA LocksKept ==
  ASSUME RunnerTypes, NEW r \in Runners, Moved(r), NEW q \in Runners \ {r}, NEW l \in Locks,
         holder[l] = q
  PROVE  holder'[l] = q
<1>1. q # Nobody /\ Mine(r).lock \in Locks
  BY BusySession, ScriptsAreTyped DEF Moved
<1>. QED
  BY <1>1 DEF Moved, Left, Built, WentOn, RunnerTypes

LEMMA FollowStep ==
  ASSUME FollowInv, [Next]_vars PROVE FollowInv'
<1>1. RunnerTypes /\ RunnerTypes'
  BY TypesStep DEF FollowInv
<1>2. ASSUME NEW r \in Runners, Moved(r), NEW q \in Runners PROVE Follows(q)'
  <2>. DEFINE s == run[r].script
              i == run[r].pc
  <2>1. /\ run[r] \in Sessions /\ s \in Scripts /\ i \in Nat \ {0} /\ Mine(r).lock \in Locks
        /\ Mine(r) = Script[s] /\ Busy(r) /\ Len(Script[s].steps) \in Nat
    BY <1>1, <1>2, BusySession, ScriptFields DEF Moved
  <2>2. CASE q # r /\ Busy(q)
    <3>1. /\ run'[q] = run[q] /\ Follows(q) /\ Mine(q).lock \in Locks
          /\ Mine(q) = Script[run[q].script]
      BY <1>1, <1>2, <2>2, BusySession DEF Moved, FollowInv
    <3>2. holder[Mine(q).lock] = q => holder'[Mine(q).lock] = q
      BY <1>1, <1>2, <2>2, <3>1, LocksKept
    <3>. QED
      BY <2>2, <3>1, <3>2 DEF Follows, Busy
  <2>3. CASE q # r /\ ~Busy(q)
    BY <1>2, <2>3 DEF Moved, Follows, Busy
  <2>4. CASE q = r /\ Left(r)
    BY <2>4, IdleSession DEF Left, Follows, Busy
  <2>5. CASE q = r /\ Built(r)
    BY <2>5 DEF Built, Follows, Busy, FollowInv
  <2>6. ASSUME NEW st \in Steps, At(r, st), WentOn(r, st), Wrote(r, st), q = r
        PROVE  Follows(q)'
    <3>1. /\ st = Script[s].steps[i] /\ i <= Len(Script[s].steps)
          /\ run'[r].script = s /\ run'[r].pc = i + 1 /\ run'[r] \in Sessions
      BY <2>1, <2>6 DEF At, WentOn
    <3>2. Follows(r)
      BY DEF FollowInv
    <3>3. run'[r].pc <= Len(Script[s].steps) + 1
      BY <2>1, <3>1
    <3>4. run'[r].tx # "none" <=> InTx(s, i + 1)
      <4>1. CASE st \in {"begin", "snapshot"}
        BY <2>1, <2>6, <3>1, <4>1, NextPlace DEF WentOn
      <4>2. CASE st = "commit"
        <5>1. run'[r].tx = "none"
          BY <2>6, <4>2 DEF WentOn, Reading
        <5>2. ~InTx(s, i + 1)
          BY <2>1, <3>1, <4>2, NextPlace
        <5>. QED
          BY <5>1, <5>2
      <4>3. CASE st \notin {"begin", "snapshot", "commit"}
        <5>1. run'[r].tx # "none" <=> run[r].tx # "none"
          BY <2>6, <4>3 DEF WentOn
        <5>2. InTx(s, i + 1) <=> InTx(s, i)
          BY <2>1, <3>1, <4>3, NextPlace
        <5>. QED
          BY <2>1, <3>2, <5>1, <5>2 DEF Follows
      <4>. QED
        BY <4>1, <4>2, <4>3
    <3>5. /\ run'[r].ran <=> RanBy(s, i + 1)
          /\ run'[r].ran => run'[r].locked
          /\ LockedBy(s, i + 1) => run'[r].locked
      <4>1. CASE st \in {"sql", "commit", "tables"}
        BY <2>1, <2>6, <3>1, <3>2, <4>1, NextPlace DEF WentOn, Follows
      <4>2. CASE st \notin {"sql", "commit", "tables"}
        <5>1. run'[r].ran = run[r].ran /\ run'[r].locked = run[r].locked
          BY <2>6, <4>2 DEF WentOn
        <5>. QED
          BY <2>1, <3>1, <3>2, <4>2, <5>1, NextPlace DEF Follows
      <4>. QED
        BY <4>1, <4>2
    <3>6. Earlier(s, i + 1, {"lock"}) => holder'[Script[s].lock] = r
      <4>1. st = "lock" => holder'[Script[s].lock] = r
        BY <1>1, <2>1, <2>6 DEF WentOn, RunnerTypes
      <4>2. st # "lock" => holder' = holder
        BY <2>6 DEF WentOn
      <4>. QED
        BY <2>1, <3>1, <3>2, <4>1, <4>2, NextPlace DEF Follows
    <3>7. run'[r].started =>
            \E k \in 1 .. (i + 1) - 1 : Script[s].steps[k] \in Recording /\ ~InTx(s, k)
      <4>1. CASE st \in Recording /\ run[r].tx = "none"
        BY <2>1, <3>1, <3>2, <4>1 DEF Follows
      <4>2. CASE ~(st \in Recording /\ run[r].tx = "none")
        <5>1. run'[r].started = run[r].started
          BY <2>6, <4>2 DEF WentOn
        <5>. QED
          BY <2>1, <3>2, <5>1 DEF Follows
      <4>. QED
        BY <4>1, <4>2
    <3>8. run'[r].pending = "SUCCEEDED" => Earlier(s, i + 1, {"succeeded"})
      BY <2>1, <2>6, <3>1, <3>2, NextPlace DEF WentOn, Follows, Recording
    <3>9. run'[r].exported # Nobody => Earlier(s, i + 1, {"export"})
      BY <2>1, <2>6, <3>1, <3>2, NextPlace DEF WentOn, Follows
    <3>. QED
      BY <2>6, <3>1, <3>3, <3>4, <3>5, <3>6, <3>7, <3>8, <3>9 DEF Follows
  <2>. QED
    BY <1>2, <2>2, <2>3, <2>4, <2>5, <2>6 DEF Moved
<1>3. ASSUME NEW r \in Runners, NEW s \in family, Start(r, s), NEW q \in Runners
      PROVE  Follows(q)'
  <2>1. CASE q = r
    <3>1. Len(Script[s].steps) \in Nat
      BY <1>1, <1>3, StartMoves, ScriptFields
    <3>2. /\ run'[r].script = s /\ run'[r].pc = 1 /\ run'[r].tx = "none"
          /\ run'[r].ran = FALSE /\ run'[r].locked = FALSE /\ run'[r].started = FALSE
          /\ run'[r].pending = "none" /\ run'[r].exported = Nobody
      BY <1>1, <1>3, StartMoves
    <3>3. ~InTx(s, 1) /\ ~RanBy(s, 1) /\ ~LockedBy(s, 1) /\ ~Earlier(s, 1, {"lock"})
      BY FirstPlace
    <3>. QED
      BY <2>1, <3>1, <3>2, <3>3 DEF Follows
  <2>2. CASE q # r
    BY <1>1, <1>3, <2>2, StartMoves, ZenonT(40) DEF Follows, FollowInv, Busy
  <2>. QED
    BY <2>1, <2>2
<1>4. ASSUME UNCHANGED <<run, holder>>, NEW q \in Runners PROVE Follows(q)'
  BY <1>4 DEF Follows, FollowInv, Busy
<1>. QED
  BY <1>1, <1>2, <1>3, <1>4, NextMoves DEF FollowInv, Write, Spoil, vars

LEMMA FollowsFromStart == ASSUME Init PROVE FollowInv
BY TypesAtStart, IdleSession DEF Init, FollowInv, Follows, Busy

LEMMA FollowsHold == Spec => []FollowInv
<1>1. Init => FollowInv
  BY FollowsFromStart
<1>2. FollowInv /\ [Next]_vars => FollowInv'
  BY FollowStep
<1>. QED
  BY <1>1, <1>2, PTL DEF Spec

-----------------------------------------------------------------------------
(* The exported file.                                                        *)

\* The version of the protected rows that the session's SQL works on.
BaseRows(r) == IF run[r].tx = "snapshot" THEN run[r].view.rows ELSE rows

Exports(s) == \E e \in DOMAIN Script[s].steps : Script[s].steps[e] = "export"

\* Once the tables are locked and the rows read, what the session has read is what
\* its SQL will replace; what it exports is what it has read.
Fixed(r) ==
  LET q == run[r] IN
  /\ Busy(r) /\ FixedBy(q.script, q.pc) =>
       q.locked /\ q.tx # "fresh" /\ q.before.rows = BaseRows(r)
  /\ Busy(r) /\ Script[q.script].rewrites /\ Exports(q.script) =>
       /\ q.exported \in {Nobody, q.before.rows}
       /\ q.ran => q.exported \in {Nobody, rows}

ExportInv == FollowInv /\ (\A r \in Runners : Fixed(r)) /\ ExportHoldsWhatWasReplaced

LEMMA RowsStay ==
  ASSUME NEW r \in Runners, Moved(r) PROVE rows' = rows
BY DEF Moved, Left, Built, Wrote

\* The step that fixes the rows, or keeps them fixed.
LEMMA FixedStep ==
  ASSUME FollowInv, NEW r \in Runners, Fixed(r), Busy(r),
         NEW st \in Steps, At(r, st), WentOn(r, st), Wrote(r, st),
         FixedBy(run[r].script, run[r].pc + 1)
  PROVE  run'[r].locked /\ run'[r].tx # "fresh" /\ run'[r].before.rows = BaseRows(r)'
<1>. DEFINE s == run[r].script
            i == run[r].pc
<1>1. /\ RunnerTypes /\ i \in Nat \ {0} /\ st = Script[s].steps[i] /\ Follows(r)
      /\ Report(r).rows = BaseRows(r) /\ Sees(r).rows = BaseRows(r)
      /\ Database.rows = rows /\ rows' = rows
  BY BusySession, SeesType DEF FollowInv, At, BaseRows, Database, Wrote
<1>2. run[r].locked /\ st \notin {"begin", "snapshot", "commit"}
  BY <1>1, FixedPlace DEF Fixed, Follows
<1>3. run'[r].locked
  <2>1. CASE st \in {"tables", "sql"}
    BY <2>1 DEF WentOn
  <2>2. CASE st \notin {"tables", "sql"}
    <3>1. run'[r].locked = run[r].locked
      BY <1>2, <2>2 DEF WentOn
    <3>. QED
      BY <1>2, <3>1
  <2>. QED
    BY <2>1, <2>2
<1>4. CASE FixedBy(s, i)
  <2>1. run[r].tx # "fresh" /\ run[r].before.rows = BaseRows(r)
    BY <1>4 DEF Fixed
  <2>2. run'[r].tx = run[r].tx /\ run'[r].view = run[r].view
    BY <1>2, <2>1 DEF WentOn
  <2>3. BaseRows(r)' = BaseRows(r)
    BY <1>1, <2>2 DEF BaseRows
  <2>4. run'[r].before = Report(r) \/ run'[r].before = run[r].before
    BY DEF WentOn
  <2>. QED
    BY <1>1, <1>3, <2>1, <2>2, <2>3, <2>4
<1>5. CASE ~FixedBy(s, i)
  <2>1. st \in {"collect", "recheck"}
    BY <1>1, <1>5, FixedPlace
  <2>2. run'[r].tx = (IF run[r].tx = "fresh" THEN "snapshot" ELSE run[r].tx)
        /\ run'[r].view = (IF run[r].tx = "fresh" THEN Database ELSE run[r].view)
    BY <2>1 DEF WentOn, Reading
  <2>3. BaseRows(r)' = BaseRows(r)
    BY <1>1, <2>2 DEF BaseRows
  <2>4. run'[r].before.rows = BaseRows(r)
    BY <1>1, <2>1 DEF WentOn, Wrote, Reading
  <2>. QED
    BY <1>3, <2>2, <2>3, <2>4
<1>. QED
  BY <1>4, <1>5

\* What has been exported stays what has been read, and what was replaced.
LEMMA ExportedStep ==
  ASSUME FollowInv, NEW r \in Runners, Fixed(r), Busy(r),
         NEW st \in Steps, At(r, st), WentOn(r, st), Wrote(r, st),
         Script[run[r].script].rewrites, Exports(run[r].script)
  PROVE  /\ run'[r].exported \in {Nobody, run'[r].before.rows}
         /\ run'[r].ran => run'[r].exported \in {Nobody, rows}
<1>. DEFINE s == run[r].script
            i == run[r].pc
<1>1. /\ RunnerTypes /\ i \in Nat \ {0} /\ st = Script[s].steps[i] /\ Follows(r)
      /\ s \in Scripts /\ i <= Len(Script[s].steps) /\ i \in DOMAIN Script[s].steps
      /\ Len(Script[s].steps) \in Nat /\ DOMAIN Script[s].steps = 1 .. Len(Script[s].steps)
  BY BusySession, ScriptFields DEF FollowInv, At
<1>2. /\ run[r].exported \in {Nobody, run[r].before.rows}
      /\ run[r].ran => run[r].exported \in {Nobody, rows}
  BY DEF Fixed
<1>3. /\ st = "sql" => FixedBy(s, i)
      /\ \A j \in DOMAIN Script[s].steps : j < i =>
           /\ Script[s].steps[j] = "export" => st \notin Reading
           /\ Script[s].steps[j] = "sql" => st # "export"
  <2>1. \A k \in DOMAIN Script[s].steps :
          /\ Script[s].steps[k] = "sql" => FixedBy(s, k)
          /\ \A j \in k + 1 .. Len(Script[s].steps) :
               /\ Script[s].steps[k] = "export" => Script[s].steps[j] \notin Reading
               /\ Script[s].steps[k] = "sql" => Script[s].steps[j] # "export"
    BY <1>1, ExportsComeFirst DEF Exports
  <2>2. \A j \in DOMAIN Script[s].steps : j < i => i \in j + 1 .. Len(Script[s].steps)
    BY <1>1, Positions
  <2>. QED
    BY <1>1, <2>1, <2>2
<1>4. /\ run[r].exported # Nobody => st \notin Reading
      /\ run[r].ran => st # "export"
  <2>1. run[r].exported # Nobody => \E j \in 1 .. i - 1 : Script[s].steps[j] = "export"
    BY <1>1 DEF Follows, Earlier
  <2>2. run[r].ran => \E j \in 1 .. i - 1 : Script[s].steps[j] = "sql"
    BY <1>1 DEF Follows, RanBy
  <2>3. \A j \in 1 .. i - 1 : j \in DOMAIN Script[s].steps /\ j < i
    BY <1>1, Positions
  <2>. QED
    BY <1>3, <2>1, <2>2, <2>3
<1>5. run'[r].exported \in {Nobody, run'[r].before.rows}
  BY <1>2, <1>4 DEF WentOn, Reading
<1>6. ASSUME run'[r].ran PROVE run'[r].exported \in {Nobody, rows}
  <2>1. CASE st = "sql"
    <3>1. run[r].before.rows = BaseRows(r)
      BY <1>3, <2>1 DEF Fixed
    <3>2. BaseRows(r) = rows
      BY <1>1, <2>1, BusySession DEF BaseRows, Wrote
    <3>. QED
      BY <1>2, <2>1, <3>1, <3>2 DEF WentOn
  <2>2. CASE st # "sql"
    <3>1. st # "commit"
      BY <1>6 DEF WentOn
    <3>2. run[r].ran
      BY <1>6, <2>2, <3>1 DEF WentOn
    <3>3. run'[r].exported = run[r].exported
      BY <1>4, <3>2 DEF WentOn
    <3>. QED
      BY <1>2, <3>2, <3>3
  <2>. QED
    BY <2>1, <2>2
<1>. QED
  BY <1>5, <1>6

LEMMA ExportStep ==
  ASSUME ExportInv, [Next]_vars PROVE ExportInv'
<1>1. FollowInv /\ FollowInv' /\ RunnerTypes
  BY FollowStep DEF ExportInv, FollowInv
<1>2. ASSUME NEW r \in Runners, Moved(r), NEW q \in Runners PROVE Fixed(q)'
  <2>1. rows' = rows /\ Fixed(q) /\ Fixed(r) /\ Busy(r)
    BY <1>2, RowsStay DEF ExportInv, Moved
  <2>2. CASE q # r
    BY <1>2, <2>1, <2>2 DEF Moved, Fixed, BaseRows, Busy
  <2>3. CASE q = r /\ Left(r)
    BY <2>3, IdleSession DEF Left, Fixed, Busy
  <2>4. CASE q = r /\ Built(r)
    BY <2>1, <2>4 DEF Built, Fixed, BaseRows, Busy
  <2>5. ASSUME NEW st \in Steps, At(r, st), WentOn(r, st), Wrote(r, st), q = r
        PROVE  Fixed(q)'
    <3>1. run'[r].script = run[r].script /\ run'[r].pc = run[r].pc + 1
      BY <2>5 DEF WentOn
    <3>2. FixedBy(run'[r].script, run'[r].pc) =>
            run'[r].locked /\ run'[r].tx # "fresh" /\ run'[r].before.rows = BaseRows(r)'
      BY <1>1, <2>1, <2>5, <3>1, FixedStep
    <3>3. Script[run'[r].script].rewrites /\ Exports(run'[r].script) =>
            /\ run'[r].exported \in {Nobody, run'[r].before.rows}
            /\ run'[r].ran => run'[r].exported \in {Nobody, rows'}
      BY <1>1, <2>1, <2>5, <3>1, ExportedStep
    <3>. QED
      BY <2>5, <3>2, <3>3 DEF Fixed
  <2>. QED
    BY <1>2, <2>2, <2>3, <2>4, <2>5 DEF Moved
<1>3. ASSUME NEW r \in Runners, Moved(r) PROVE ExportHoldsWhatWasReplaced'
  <2>. DEFINE s == run[r].script
  <2>1. ExportHoldsWhatWasReplaced /\ family' = family /\ Busy(r) /\ Follows(r) /\ Fixed(r)
    BY <1>3 DEF ExportInv, FollowInv, Moved
  <2>2. CASE replaced' = replaced
    BY <2>1, <2>2 DEF ExportHoldsWhatWasReplaced
  <2>3. ASSUME NEW st \in Steps, At(r, st), Wrote(r, st), st = "commit", run[r].ran
        PROVE  ExportHoldsWhatWasReplaced'
    <3>1. replaced' = [replaced EXCEPT ![s] = @ \cup {<<run[r].exported, rows>>}]
      BY <2>3 DEF Wrote
    <3>2. Script[s].rewrites => run[r].exported \in {Nobody, rows}
      <4>1. CASE Exports(s)
        BY <2>1, <2>3, <4>1 DEF Fixed
      <4>2. CASE ~Exports(s)
        <5>1. s \in Scripts /\ run[r].pc <= Len(Script[s].steps) /\ run[r].pc \in Nat
          BY <1>1, <2>1, <2>3, BusySession DEF At
        <5>2. ~Earlier(s, run[r].pc, {"export"})
          BY <4>2, <5>1, ScriptFields DEF Earlier, Exports
        <5>. QED
          BY <2>1, <5>2 DEF Follows
      <4>. QED
        BY <4>1, <4>2
    <3>3. DOMAIN replaced = family
      BY <1>1 DEF RunnerTypes
    <3>4. ASSUME NEW t \in family, Script[t].rewrites, NEW p \in replaced'[t]
          PROVE  p[1] = p[2] \/ p[1] = Nobody
      <4>1. p \in replaced[t] \/ (t = s /\ p = <<run[r].exported, rows>>)
        BY <3>1, <3>3, <3>4
      <4>. QED
        BY <2>1, <3>2, <3>4, <4>1 DEF ExportHoldsWhatWasReplaced
    <3>. QED
      BY <2>1, <3>4 DEF ExportHoldsWhatWasReplaced
  <2>4. \/ replaced' = replaced
        \/ \E st \in Steps : At(r, st) /\ Wrote(r, st) /\ st = "commit" /\ run[r].ran
    BY <1>3 DEF Moved, Left, Built, Wrote
  <2>. QED
    BY <2>2, <2>3, <2>4
<1>4. ASSUME NEW r \in Runners, NEW s \in family, Start(r, s) PROVE ExportInv'
  <2>1. ASSUME NEW q \in Runners PROVE Fixed(q)'
    <3>1. CASE q = r
      BY <1>1, <1>4, <3>1, StartMoves, FirstPlace DEF Fixed
    <3>2. CASE q # r
      <4>1. run'[q] = run[q] /\ rows' = rows /\ Fixed(q)
        BY <1>1, <1>4, <3>2, StartMoves DEF ExportInv
      <4>. QED
        BY <4>1 DEF Fixed, BaseRows, Busy
    <3>. QED
      BY <3>1, <3>2
  <2>. QED
    BY <1>1, <1>4, <2>1, StartMoves DEF ExportInv, ExportHoldsWhatWasReplaced
<1>5. CASE Write
  <2>1. \A q \in Runners : ~run[q].locked
    BY <1>5 DEF Write, RowsLocked
  <2>2. run' = run /\ family' = family /\ replaced' = replaced
    BY <1>5 DEF Write, bookkeeping
  <2>3. ASSUME NEW q \in Runners PROVE Fixed(q)'
    <3>1. Fixed(q) /\ Follows(q)
      BY DEF ExportInv, FollowInv
    <3>. QED
      BY <2>1, <2>2, <3>1 DEF Fixed, Follows, Busy
  <2>. QED
    BY <1>1, <2>2, <2>3 DEF ExportInv, ExportHoldsWhatWasReplaced
<1>6. CASE UNCHANGED <<run, rows, replaced, family>>
  BY <1>1, <1>6 DEF ExportInv, ExportHoldsWhatWasReplaced, Fixed, BaseRows, Busy
<1>. QED
  BY <1>1, <1>2, <1>3, <1>4, <1>5, <1>6, NextMoves DEF ExportInv, Spoil, vars

\* For every set of scripts whose steps come in the order the scripts keep, any
\* number of sessions and of application writes: the file a script has exported
\* holds the rows its transaction replaced, as they were when it replaced them
\* (the export, the LOCK TABLE and the rereading of run-independent-commodity-
\* catalog-migration.mjs and its siblings).
THEOREM ExportHoldsWhatWasReplacedHolds == Spec => []ExportHoldsWhatWasReplaced
<1>1. Init => ExportInv
  BY FollowsFromStart, IdleSession
     DEF Init, ExportInv, Fixed, Busy, ExportHoldsWhatWasReplaced
<1>2. ExportInv /\ [Next]_vars => ExportInv'
  BY ExportStep
<1>3. ExportInv => ExportHoldsWhatWasReplaced
  BY DEF ExportInv
<1>. QED
  BY <1>1, <1>2, <1>3, PTL DEF Spec

-----------------------------------------------------------------------------
(* An entry that says SUCCEEDED is final.                                    *)

HeededLedger(s, i) ==
  \E l, k \in 1 .. i - 1 :
    l < k /\ Script[s].steps[l] = "lock" /\ Script[s].steps[k] = "ledger"

\* A careful session that has read the ledger under its lock, and is not at its
\* end, runs a script that has not succeeded.
Heeds(r) ==
  LET q == run[r] IN
  (Busy(r) /\ q.script \in Careful /\ q.pc <= Len(Mine(r).steps)
     /\ HeededLedger(q.script, q.pc)) => ledger[q.script] # "SUCCEEDED"

FinalInv == FollowInv /\ \A r \in Runners : Heeds(r)

LEMMA HeededPlace ==
  ASSUME NEW s, NEW i \in Nat \ {0}, NEW st, st = Script[s].steps[i], HeededLedger(s, i + 1)
  PROVE  HeededLedger(s, i) \/ st = "ledger"
BY DEF HeededLedger

\* At a step that writes, a careful session has heeded the ledger.
LEMMA WritersHeed ==
  ASSUME FollowInv, NEW r \in Runners, Busy(r), run[r].script \in Careful,
         run[r].pc <= Len(Mine(r).steps),
         \/ \E st : At(r, st) /\ st \in Recording \cup {"build", "commit"}
         \/ run[r].started
  PROVE  HeededLedger(run[r].script, run[r].pc)
<1>. DEFINE s == run[r].script
            i == run[r].pc
<1>1. /\ s \in Scripts /\ i \in Nat \ {0} /\ i <= Len(Script[s].steps) /\ Follows(r)
      /\ DOMAIN Script[s].steps = 1 .. Len(Script[s].steps) /\ Len(Script[s].steps) \in Nat
  BY BusySession, ScriptFields DEF FollowInv
<1>2. \A k \in DOMAIN Script[s].steps :
        Script[s].steps[k] \in Recording \cup {"build", "commit"} => HeededLedger(s, k)
  BY CarefulScriptsAskFirst DEF HeededLedger, Recording
<1>3. PICK k \in 1 .. i : Script[s].steps[k] \in Recording \cup {"build", "commit"}
  <2>1. CASE run[r].started
    <3>1. PICK k \in 1 .. i - 1 : Script[s].steps[k] \in Recording
      BY <1>1, <2>1 DEF Follows
    <3>. QED
      BY <1>1, <3>1, Positions
  <2>2. CASE ~run[r].started
    <3>1. i \in 1 .. i
      BY <1>1
    <3>2. Script[s].steps[i] \in Recording \cup {"build", "commit"}
      BY <2>2 DEF At, Mine
    <3>. QED
      BY <3>1, <3>2
  <2>. QED
    BY <2>1, <2>2
<1>4. HeededLedger(s, k)
  BY <1>1, <1>2, <1>3
<1>. QED
  BY <1>1, <1>3, <1>4 DEF HeededLedger

\* Two sessions that have heeded the ledger for one script are one session.
LEMMA OneHeeds ==
  ASSUME FollowInv, NEW r \in Runners, NEW q \in Runners, Busy(r), Busy(q),
         run[r].script = run[q].script,
         HeededLedger(run[r].script, run[r].pc), HeededLedger(run[q].script, run[q].pc)
  PROVE  r = q
<1>1. \A p \in {r, q} : Earlier(run[p].script, run[p].pc, {"lock"})
  BY DEF HeededLedger, Earlier
<1>. QED
  BY <1>1 DEF FollowInv, Follows

\* What a step of r writes of the ledger and of the history.
LEMMA LedgerMoves ==
  ASSUME FollowInv, NEW r \in Runners, Moved(r), NEW s \in family,
         ledger'[s] # ledger[s] \/ applied'[s] # applied[s]
  PROVE  /\ s = run[r].script /\ Busy(r) /\ run[r].pc <= Len(Mine(r).steps)
         /\ \/ \E st : At(r, st) /\ st \in Recording \cup {"build", "commit"}
            \/ run[r].started
<1>1. /\ ledger \in [family -> Statuses] /\ applied \in [family -> Nat] /\ Busy(r)
      /\ run[r].script \in family
  BY BusySession DEF FollowInv, RunnerTypes, Moved
<1>2. CASE Left(r)
  BY <1>1, <1>2 DEF Left
<1>3. CASE Built(r)
  BY <1>3 DEF Built
<1>4. ASSUME NEW st \in Steps, At(r, st), Wrote(r, st)
      PROVE  /\ s = run[r].script /\ run[r].pc <= Len(Mine(r).steps)
             /\ st \in Recording \cup {"build", "commit"}
  <2>1. CASE st \in Recording \cup {"commit"}
    BY <1>1, <1>4, <2>1 DEF Wrote, At
  <2>2. CASE st \notin Recording \cup {"commit"}
    BY <1>4, <2>2 DEF Wrote
  <2>. QED
    BY <2>1, <2>2
<1>. QED
  BY <1>1, <1>2, <1>3, <1>4 DEF Moved

\* A success is recorded last, or in a transaction that only has to be committed.
LEMMA SuccessPlace ==
  ASSUME NEW s \in Scripts, NEW i \in Nat \ {0}, i <= Len(Script[s].steps),
         Script[s].steps[i] = "succeeded"
  PROVE  /\ i >= Len(Script[s].steps) - 1
         /\ i < Len(Script[s].steps) => InTx(s, i)
         /\ Script[s].goal \subseteq Script[s].adds \cup Script[s].builds
         /\ Script[s].adds # {} => Earlier(s, i, {"sql"})
         /\ Script[s].builds # {} => Earlier(s, i, {"build"})
<1>1. i \in DOMAIN Script[s].steps /\ Len(Script[s].steps) \in Nat
  BY ScriptFields
<1>. QED
  BY <1>1, ScriptsEndWithSuccess DEF Earlier

LEMMA FinalStep ==
  ASSUME FinalInv, [Next]_vars PROVE FinalInv'
<1>1. FollowInv /\ FollowInv' /\ RunnerTypes
  BY FollowStep DEF FinalInv, FollowInv
<1>2. ASSUME NEW r \in Runners, Moved(r), NEW q \in Runners PROVE Heeds(q)'
  <2>. DEFINE s == run[r].script
              i == run[r].pc
  <2>1. /\ Busy(r) /\ family' = family /\ s \in Scripts /\ i \in Nat \ {0} /\ s \in family
        /\ Mine(r) = Script[s] /\ Len(Script[s].steps) \in Nat /\ Heeds(q) /\ Heeds(r)
        /\ ledger \in [family -> Statuses]
    BY <1>1, <1>2, BusySession, ScriptFields DEF Moved, FinalInv, RunnerTypes
  <2>2. CASE q # r
    <3>. SUFFICES ASSUME Busy(q), run[q].script \in Careful, run[q].pc <= Len(Mine(q).steps),
                         HeededLedger(run[q].script, run[q].pc)
                  PROVE  ledger'[run[q].script] # "SUCCEEDED"
      BY <1>2, <2>2 DEF Moved, Heeds, Busy, Mine
    <3>1. run[q].script \in family /\ ledger[run[q].script] # "SUCCEEDED"
      BY <1>1, <2>1, BusySession DEF Heeds
    <3>2. ASSUME ledger'[run[q].script] # ledger[run[q].script] PROVE FALSE
      <4>1. run[q].script = s /\ HeededLedger(s, i)
        BY <1>1, <1>2, <3>1, <3>2, LedgerMoves, WritersHeed
      <4>. QED
        BY <1>1, <2>1, <2>2, <4>1, OneHeeds
    <3>. QED
      BY <3>1, <3>2
  <2>3. CASE q = r /\ Left(r)
    BY <2>3, IdleSession DEF Left, Heeds, Busy
  <2>4. CASE q = r /\ Built(r)
    BY <2>1, <2>4 DEF Built, Heeds, Busy, Mine
  <2>5. ASSUME NEW st \in Steps, At(r, st), WentOn(r, st), Wrote(r, st), q = r
        PROVE  Heeds(q)'
    <3>1. /\ st = Script[s].steps[i] /\ i <= Len(Script[s].steps) /\ Follows(r)
          /\ run'[r].script = s /\ run'[r].pc = i + 1 /\ Mine(r)' = Script[s]
      BY <1>1, <2>1, <2>5 DEF At, WentOn, Mine, FollowInv
    <3>. SUFFICES ASSUME s \in Careful, i + 1 <= Len(Script[s].steps), HeededLedger(s, i + 1)
                  PROVE  ledger'[s] # "SUCCEEDED"
      BY <2>5, <3>1 DEF Heeds
    <3>2. ledger[s] # "SUCCEEDED"
      <4>1. CASE st = "ledger"
        BY <2>5, <4>1 DEF Wrote
      <4>2. CASE st # "ledger"
        BY <2>1, <3>1, <4>2, HeededPlace DEF Heeds
      <4>. QED
        BY <4>1, <4>2
    <3>3. CASE st = "succeeded"
      <4>1. InTx(s, i)
        <5>1. /\ s \in Scripts /\ i \in Nat \ {0} /\ i < Len(Script[s].steps)
              /\ i <= Len(Script[s].steps) /\ Script[s].steps[i] = "succeeded"
          BY <2>1, <3>1, <3>3
        <5>. QED
          BY <5>1, SuccessPlace
      <4>2. ledger' = ledger
        <5>1. run[r].tx # "none"
          BY <2>1, <3>1, <4>1 DEF Follows
        <5>. QED
          BY <2>5, <3>3, <5>1 DEF Wrote
      <4>. QED
        BY <3>2, <4>2
    <3>4. CASE st = "commit"
      <4>1. run[r].pending # "SUCCEEDED"
        <5>. SUFFICES ASSUME run[r].pending = "SUCCEEDED" PROVE FALSE
          OBVIOUS
        <5>1. PICK k \in 1 .. i - 1 : Script[s].steps[k] = "succeeded"
          BY <2>1, <3>1 DEF Follows, Earlier
        <5>2. k >= Len(Script[s].steps) - 1
          <6>1. k \in Nat \ {0} /\ k <= Len(Script[s].steps)
            BY <2>1, <3>1
          <6>. QED
            BY <2>1, <5>1, <6>1, SuccessPlace
        <5>. QED
          BY <2>1, <5>1, <5>2
      <4>. QED
        BY <2>1, <2>5, <3>2, <3>4, <4>1 DEF Wrote, Recording
    <3>5. CASE st \notin {"succeeded", "commit"}
      BY <2>1, <2>5, <3>2, <3>5 DEF Wrote
    <3>. QED
      BY <3>3, <3>4, <3>5
  <2>. QED
    BY <1>2, <2>2, <2>3, <2>4, <2>5 DEF Moved
<1>3. ASSUME NEW r \in Runners, NEW s \in family, Start(r, s), NEW q \in Runners
      PROVE  Heeds(q)'
  <2>1. CASE q = r
    <3>1. run'[r].pc = 1
      BY <1>1, <1>3, StartMoves
    <3>. QED
      BY <2>1, <3>1 DEF Heeds, HeededLedger
  <2>2. CASE q # r
    <3>1. run'[q] = run[q] /\ ledger' = ledger /\ Heeds(q)
      BY <1>1, <1>3, <2>2, StartMoves DEF FinalInv
    <3>. QED
      BY <3>1 DEF Heeds, Busy, Mine
  <2>. QED
    BY <2>1, <2>2
<1>4. ASSUME UNCHANGED <<run, ledger>>, NEW q \in Runners PROVE Heeds(q)'
  BY <1>4 DEF FinalInv, Heeds, Busy, Mine
<1>. QED
  BY <1>1, <1>2, <1>3, <1>4, NextMoves DEF FinalInv, Write, Spoil, vars

\* For every set of scripts of which the careful ones read the ledger under their
\* lock before they write: an entry that says SUCCEEDED is never changed and its
\* script never applied again, by any session, however the sessions interleave,
\* fail and die (the ledger query after pg_try_advisory_lock in
\* scripts/run-*.mjs).
THEOREM SuccessIsFinalHolds == Spec => SuccessIsFinal
<1>. DEFINE Final == \A s \in family \cap Careful : ledger[s] = "SUCCEEDED" =>
                       ledger'[s] = "SUCCEEDED" /\ applied'[s] = applied[s]
<1>1. Init => FinalInv
  BY FollowsFromStart, IdleSession DEF Init, FinalInv, Heeds, Busy
<1>2. FinalInv /\ [Next]_vars => FinalInv'
  BY FinalStep
<1>3. FinalInv /\ [Next]_vars => [Final]_vars
  <2>. SUFFICES ASSUME FinalInv, [Next]_vars, NEW s \in family \cap Careful,
                       ledger[s] = "SUCCEEDED"
                PROVE  ledger'[s] = ledger[s] /\ applied'[s] = applied[s]
    OBVIOUS
  <2>1. FollowInv /\ RunnerTypes
    BY DEF FinalInv, FollowInv
  <2>2. ASSUME NEW r \in Runners, Moved(r) PROVE ledger'[s] = ledger[s] /\ applied'[s] = applied[s]
    <3>. SUFFICES ASSUME ledger'[s] # ledger[s] \/ applied'[s] # applied[s] PROVE FALSE
      OBVIOUS
    <3>1. /\ s = run[r].script /\ Busy(r) /\ run[r].pc <= Len(Mine(r).steps)
          /\ HeededLedger(run[r].script, run[r].pc)
      BY <2>1, <2>2, LedgerMoves, WritersHeed
    <3>. QED
      BY <3>1 DEF FinalInv, Heeds
  <2>3. ASSUME NEW r \in Runners, NEW t \in family, Start(r, t)
        PROVE  ledger' = ledger /\ applied' = applied
    BY <2>3 DEF Start, Quiet
  <2>. QED
    BY <2>1, <2>2, <2>3, NextMoves DEF Write, Spoil, vars
<1>. QED
  BY <1>1, <1>2, <1>3, PTL DEF Spec, SuccessIsFinal

-----------------------------------------------------------------------------
(* What the ledger says has succeeded is there.                              *)

\* Facts that no script of the family removes.
Kept == Facts \ UNION {Script[t].removes : t \in family}

Invalid(s) == IF Script[s].skipsInvalid THEN broken ELSE {}

\* What the SQL and the builds behind a session have made is there, and what it has
\* read still is.
Made(r) ==
  LET q == run[r]
      s == q.script
  IN
  Busy(r) =>
    /\ Earlier(s, q.pc, {"sql"}) => q.ran \/ Script[s].adds \cap Kept \subseteq facts
    /\ Earlier(s, q.pc, {"build"}) => Script[s].builds \cap Kept \subseteq facts \cup Invalid(s)
    /\ (q.before.facts \cup q.view.facts) \cap Kept \subseteq facts

ThereInv == FollowInv /\ (\A r \in Runners : Made(r)) /\ SucceededIsThere

\* Kept facts and invalid indexes stay, whoever takes a step.
LEMMA FactsGrow ==
  ASSUME RunnerTypes, NEW r \in Runners, Moved(r)
  PROVE  /\ Kept' = Kept /\ facts \cap Kept \subseteq facts' /\ broken \subseteq broken'
         /\ \A s : Invalid(s) \subseteq Invalid(s)'
<1>1. /\ family' = family /\ run[r].script \in family
      /\ Mine(r) = Script[run[r].script]
  BY BusySession DEF Moved
<1>2. Kept' = Kept
  BY <1>1 DEF Kept
<1>3. Script[run[r].script].removes \cap Kept = {}
  BY <1>1 DEF Kept
<1>4. Effect(run[r].script, Database).facts =
        (facts \ Script[run[r].script].removes) \cup Script[run[r].script].adds
  BY DEF Effect, Database
<1>5. /\ facts \cap Kept \subseteq facts' /\ broken \subseteq broken'
  <2>1. CASE Left(r)
    BY <2>1 DEF Left
  <2>2. CASE Built(r)
    BY <2>2 DEF Built
  <2>3. ASSUME NEW st \in Steps, Wrote(r, st)
        PROVE  /\ facts \cap Kept \subseteq facts' /\ broken \subseteq broken'
    BY <1>3, <1>4, <2>3 DEF Wrote
  <2>. QED
    BY <2>1, <2>2, <2>3 DEF Moved
<1>. QED
  BY <1>2, <1>5 DEF Invalid

LEMMA MadeStep ==
  ASSUME FollowInv, NEW r \in Runners, Busy(r), Made(r), Moved(r),
         NEW st \in Steps, At(r, st), WentOn(r, st), Wrote(r, st)
  PROVE  Made(r)'
<1>. DEFINE s == run[r].script
            i == run[r].pc
<1>1. /\ RunnerTypes /\ i \in Nat \ {0} /\ st = Script[s].steps[i] /\ Follows(r)
      /\ s \in Scripts /\ i \in DOMAIN Script[s].steps /\ Mine(r) = Script[s]
      /\ run'[r].script = s /\ run'[r].pc = i + 1
  BY BusySession, ScriptFields DEF FollowInv, At, WentOn
<1>2. /\ Kept' = Kept /\ facts \cap Kept \subseteq facts' /\ broken \subseteq broken'
      /\ Invalid(s) \subseteq Invalid(s)'
  BY <1>1, FactsGrow
<1>3. Earlier(s, i + 1, {"sql"}) =>
        run'[r].ran \/ Script[s].adds \cap Kept \subseteq facts'
  <2>1. CASE st = "sql"
    BY <2>1 DEF WentOn
  <2>2. CASE st = "commit" /\ run[r].ran
    <3>1. facts' = Effect(s, Database).facts
      BY <2>2 DEF Wrote
    <3>2. Effect(s, Database).facts = (facts \ Script[s].removes) \cup Script[s].adds
      BY DEF Effect, Database
    <3>. QED
      BY <3>1, <3>2
  <2>3. CASE st # "sql" /\ ~(st = "commit" /\ run[r].ran)
    <3>1. Earlier(s, i + 1, {"sql"}) => Earlier(s, i, {"sql"})
      BY <1>1, <2>3, NextPlace
    <3>2. Earlier(s, i, {"sql"}) => run[r].ran \/ Script[s].adds \cap Kept \subseteq facts
      BY DEF Made
    <3>3. run[r].ran => run'[r].ran
      BY <2>3 DEF WentOn
    <3>. QED
      BY <1>2, <3>1, <3>2, <3>3
  <2>. QED
    BY <2>1, <2>2, <2>3
<1>4. (run[r].before.facts \cup run[r].view.facts) \cap Kept \subseteq facts
  BY DEF Made
<1>5. Earlier(s, i + 1, {"build"}) =>
        Script[s].builds \cap Kept \subseteq facts' \cup Invalid(s)'
  <2>1. CASE st = "build"
    <3>1. Script[s].builds \subseteq facts \cup run[r].before.facts \cup Invalid(s)
      BY <1>1, <2>1 DEF Wrote, Invalid
    <3>. QED
      BY <1>2, <1>4, <3>1
  <2>2. CASE st # "build"
    <3>1. Earlier(s, i + 1, {"build"}) => Earlier(s, i, {"build"})
      BY <1>1, <2>2, NextPlace
    <3>2. Earlier(s, i, {"build"}) => Script[s].builds \cap Kept \subseteq facts \cup Invalid(s)
      BY DEF Made
    <3>. QED
      BY <1>2, <3>1, <3>2
  <2>. QED
    BY <2>1, <2>2
<1>6. (run'[r].before.facts \cup run'[r].view.facts) \cap Kept \subseteq facts'
  <2>1. run'[r].view = Database \/ run'[r].view = run[r].view
    BY DEF WentOn
  <2>2. Database.facts = facts
    BY DEF Database
  <2>3. CASE st \in Reading
    <3>1. ~run[r].ran
      <4>1. ~RanBy(s, i)
        BY <1>1, <2>3, ScriptsEndWithSuccess
      <4>. QED
        BY <1>1, <4>1 DEF Follows
    <3>2. Report(r).facts \subseteq facts \/ Report(r).facts \subseteq run[r].view.facts
      BY <1>1, <2>2, <3>1, SeesType
    <3>3. run'[r].before = Report(r)
      BY <2>3 DEF WentOn
    <3>. QED
      BY <1>2, <1>4, <2>1, <2>2, <3>2, <3>3
  <2>4. CASE st \notin Reading
    <3>1. run'[r].before = run[r].before
      BY <2>4 DEF WentOn
    <3>. QED
      BY <1>2, <1>4, <2>1, <2>2, <3>1
  <2>. QED
    BY <2>3, <2>4
<1>. QED
  BY <1>1, <1>2, <1>3, <1>5, <1>6 DEF Made

\* The SQL runs in a transaction.
LEMMA RanInTx ==
  ASSUME NEW s \in Scripts, NEW i \in Nat \ {0}, i <= Len(Script[s].steps), RanBy(s, i)
  PROVE  InTx(s, i)
<1>1. PICK q \in 1 .. i - 1 : /\ Script[s].steps[q] = "sql"
                              /\ \A m \in q .. i - 1 : Script[s].steps[m] # "commit"
  BY DEF RanBy
<1>2. InTx(s, q)
  <2>1. q \in DOMAIN Script[s].steps
    BY <1>1, ScriptFields
  <2>. QED
    BY <1>1, <2>1, ScriptsEndWithSuccess
<1>3. PICK b \in 1 .. q - 1 : /\ Script[s].steps[b] \in {"begin", "snapshot"}
                              /\ \A m \in b .. q - 1 : Script[s].steps[m] # "commit"
  BY <1>2 DEF InTx
<1>4. b \in 1 .. i - 1 /\ \A m \in b .. i - 1 : m \in b .. q - 1 \/ m \in q .. i - 1
  OBVIOUS
<1>. QED
  BY <1>1, <1>3, <1>4 DEF InTx

Succeeds(r, st) ==
  \/ st = "succeeded" /\ run[r].tx = "none"
  \/ st = "commit" /\ run[r].pending = "SUCCEEDED"

\* A session that records a success, or commits it, has made what it promises.
LEMMA SuccessIsMade ==
  ASSUME FollowInv, NEW r \in Runners, Busy(r), Made(r), Moved(r),
         NEW s, s = run[r].script,
         NEW st \in Steps, At(r, st), WentOn(r, st), Wrote(r, st),
         Succeeds(r, st)
  PROVE  Lasting(s) \subseteq facts' \cup Invalid(s)'
<1>. DEFINE i == run[r].pc
<1>1. /\ i \in Nat \ {0} /\ i <= Len(Script[s].steps) /\ Len(Script[s].steps) \in Nat
      /\ s \in Scripts /\ st = Script[s].steps[i] /\ Follows(r)
  BY BusySession, ScriptFields DEF FollowInv, At
<1>2. /\ facts \cap Kept \subseteq facts' /\ Invalid(s) \subseteq Invalid(s)'
  <2>1. RunnerTypes
    BY DEF FollowInv
  <2>2. facts \cap Kept \subseteq facts' /\ \A t : Invalid(t) \subseteq Invalid(t)'
    BY <2>1, FactsGrow
  <2>. QED
    BY <2>2
<1>3. \E k \in 1 .. i : Script[s].steps[k] = "succeeded"
  <2>1. CASE st = "succeeded"
    <3>1. i \in 1 .. i /\ Script[s].steps[i] = "succeeded"
      BY <1>1, <2>1
    <3>. QED
      BY <3>1
  <2>2. CASE st # "succeeded"
    <3>1. Earlier(s, i, {"succeeded"})
      BY <1>1, <2>2 DEF Follows, Succeeds
    <3>2. PICK k \in 1 .. i - 1 : Script[s].steps[k] = "succeeded"
      BY <3>1 DEF Earlier
    <3>3. k \in 1 .. i
      <4>1. i \in Nat
        BY <1>1
      <4>. HIDE DEF i
      <4>. QED
        BY <4>1
    <3>. QED
      BY <3>2, <3>3
  <2>. QED
    BY <2>1, <2>2
<1>4. /\ Script[s].goal \subseteq Script[s].adds \cup Script[s].builds
      /\ Script[s].adds # {} => Earlier(s, i, {"sql"})
      /\ Script[s].builds # {} => Earlier(s, i, {"build"})
  <2>. PICK k \in 1 .. i : Script[s].steps[k] = "succeeded"
    BY <1>3
  <2>1. k \in Nat \ {0} /\ k <= i /\ k <= Len(Script[s].steps)
    BY <1>1, Positions
  <2>2. /\ Script[s].goal \subseteq Script[s].adds \cup Script[s].builds
        /\ Script[s].adds # {} => Earlier(s, k, {"sql"})
        /\ Script[s].builds # {} => Earlier(s, k, {"build"})
    BY <1>1, <2>1, SuccessPlace
  <2>3. ASSUME NEW kinds, Earlier(s, k, kinds) PROVE Earlier(s, i, kinds)
    <3>1. PICK e \in 1 .. k - 1 : Script[s].steps[e] \in kinds
      BY <2>3 DEF Earlier
    <3>2. e \in 1 .. i - 1
      BY <1>1, <3>1, Positions
    <3>. QED
      BY <3>1, <3>2 DEF Earlier
  <2>. QED
    BY <2>2, <2>3
<1>5. Script[s].builds \cap Kept \subseteq facts \cup Invalid(s)
  BY <1>4 DEF Made
<1>6. Script[s].adds \cap Kept \subseteq facts'
  <2>1. CASE run[r].ran
    <3>1. st = "commit"
      <4>1. InTx(s, i)
        BY <1>1, <2>1, RanInTx DEF Follows
      <4>. QED
        BY <1>1, <2>1, <4>1 DEF Follows, Succeeds
    <3>2. facts' = Effect(s, Database).facts
      BY <2>1, <3>1 DEF Wrote
    <3>3. Effect(s, Database).facts = (facts \ Script[s].removes) \cup Script[s].adds
      BY DEF Effect, Database
    <3>. QED
      BY <3>2, <3>3
  <2>2. CASE ~run[r].ran
    BY <1>2, <1>4, <2>2 DEF Made
  <2>. QED
    BY <2>1, <2>2
<1>7. Lasting(s) \subseteq (Script[s].adds \cap Kept) \cup (Script[s].builds \cap Kept)
  <2>1. Script[s].goal \subseteq Facts
    BY <1>1, ScriptFields
  <2>. QED
    BY <1>4, <2>1 DEF Lasting, Kept
<1>8. Script[s].builds \cap Kept \subseteq facts' \cup Invalid(s)'
  BY <1>2, <1>5
<1>. QED
  BY <1>6, <1>7, <1>8

LEMMA ThereStep ==
  ASSUME ThereInv, [Next]_vars PROVE ThereInv'
<1>1. FollowInv /\ FollowInv' /\ RunnerTypes /\ ledger \in [family -> Statuses]
  BY FollowStep DEF ThereInv, FollowInv, RunnerTypes
<1>2. ASSUME NEW r \in Runners, Moved(r) PROVE ThereInv'
  <2>1. /\ Busy(r) /\ Made(r) /\ SucceededIsThere /\ family' = family
        /\ run[r].script \in family
    BY <1>1, <1>2, BusySession DEF Moved, ThereInv
  <2>2. /\ Kept' = Kept /\ facts \cap Kept \subseteq facts' /\ broken \subseteq broken'
        /\ \A s : Invalid(s) \subseteq Invalid(s)'
    BY <1>1, <1>2, FactsGrow
  <2>3. ASSUME NEW q \in Runners, run'[q] = run[q] PROVE Made(q)'
    <3>1. Made(q)
      BY DEF ThereInv
    <3>. QED
      BY <2>2, <2>3, <3>1 DEF Made, Busy
  <2>4. Made(r)'
    <3>1. CASE Left(r)
      BY <3>1, IdleSession DEF Left, Made, Busy
    <3>2. CASE Built(r)
      BY <2>3, <3>2 DEF Built
    <3>. QED
      BY <1>1, <1>2, <2>1, <3>1, <3>2, MadeStep DEF Moved
  <2>5. \A s \in family : Lasting(s)' = Lasting(s) /\ Lasting(s) \subseteq Kept \cup (Script[s].goal \ Facts)
    BY <2>1 DEF Lasting, Kept
  <2>6. \A s \in family : s \in Scripts /\ Script[s].goal \subseteq Facts
    BY <1>1, ScriptsAreTyped, ScriptFields DEF RunnerTypes
  <2>7. ASSUME NEW s \in family, ledger'[s] = "SUCCEEDED"
        PROVE  Lasting(s) \subseteq facts' \cup Invalid(s)'
    <3>1. CASE ledger[s] = "SUCCEEDED"
      <4>1. Lasting(s) \subseteq facts \cup Invalid(s)
        BY <2>1, <3>1 DEF SucceededIsThere, Invalid
      <4>. QED
        BY <2>2, <2>5, <2>6, <4>1
    <3>2. CASE ledger[s] # "SUCCEEDED"
      <4>1. ~Left(r) /\ ~Built(r)
        BY <1>1, <2>1, <2>7, <3>2 DEF Left, Built
      <4>2. PICK st \in Steps : At(r, st) /\ WentOn(r, st) /\ Wrote(r, st)
        BY <1>2, <4>1 DEF Moved
      <4>3. s = run[r].script /\ Succeeds(r, st)
        <5>1. CASE st \in Recording /\ run[r].tx = "none"
          BY <1>1, <2>1, <2>7, <3>2, <4>2, <5>1 DEF Wrote, Recording, Succeeds
        <5>2. CASE ~(st \in Recording /\ run[r].tx = "none")
          BY <1>1, <2>1, <2>7, <3>2, <4>2, <5>2 DEF Wrote, Succeeds
        <5>. QED
          BY <5>1, <5>2
      <4>. QED
        BY <1>1, <1>2, <2>1, <4>2, <4>3, SuccessIsMade DEF Invalid
    <3>. QED
      BY <3>1, <3>2
  <2>8. SucceededIsThere'
    BY <2>1, <2>5, <2>7 DEF SucceededIsThere, Invalid
  <2>9. \A q \in Runners : Made(q)'
    BY <1>2, <2>3, <2>4 DEF Moved
  <2>. QED
    BY <1>1, <2>8, <2>9 DEF ThereInv
<1>3. ASSUME NEW r \in Runners, NEW s \in family, Start(r, s) PROVE ThereInv'
  <2>1. UNCHANGED <<facts, broken, ledger, family>>
    BY <1>1, <1>3, StartMoves
  <2>2. Made(r)'
    <3>1. /\ run'[r].script = s /\ run'[r].pc = 1
          /\ run'[r].before = Unread /\ run'[r].view = Unread
      BY <1>1, <1>3, StartMoves
    <3>2. ~Earlier(s, 1, {"sql"}) /\ ~Earlier(s, 1, {"build"}) /\ Unread.facts = {}
      BY FirstPlace, IdleSession
    <3>. QED
      BY <3>1, <3>2 DEF Made
  <2>3. ASSUME NEW q \in Runners \ {r} PROVE Made(q)'
    <3>1. run'[q] = run[q] /\ Made(q)
      BY <1>1, <1>3, StartMoves DEF ThereInv
    <3>. QED
      BY <2>1, <3>1 DEF Made, Busy, Kept, Invalid
  <2>4. SucceededIsThere'
    BY <2>1 DEF ThereInv, SucceededIsThere, Lasting
  <2>. QED
    BY <1>1, <2>2, <2>3, <2>4 DEF ThereInv
<1>4. ASSUME UNCHANGED <<run, broken, ledger, family>>, facts \subseteq facts' PROVE ThereInv'
  <2>1. ASSUME NEW q \in Runners PROVE Made(q)'
    <3>1. Made(q)
      BY DEF ThereInv
    <3>. QED
      BY <1>4, <3>1 DEF Made, Busy, Kept, Invalid
  <2>2. SucceededIsThere'
    BY <1>4 DEF ThereInv, SucceededIsThere, Lasting
  <2>. QED
    BY <1>1, <2>1, <2>2 DEF ThereInv
<1>. QED
  BY <1>1, <1>2, <1>3, <1>4, NextMoves DEF Write, Spoil, vars, bookkeeping

-----------------------------------------------------------------------------
(* What was applied is recorded.                                             *)

\* An atomic session writes its entry in its transaction, and the success is the
\* last it does before the COMMIT.
Records(r) ==
  LET q == run[r] IN
  (Busy(r) /\ q.script \in Atomic) =>
    /\ ~q.started
    /\ q.pc > 1 /\ Mine(r).steps[q.pc - 1] = "succeeded" => q.pending = "SUCCEEDED"

AppliedInv == FollowInv /\ (\A r \in Runners : Records(r)) /\ AppliedIsRecorded

LEMMA AtomicPlace ==
  ASSUME FollowInv, NEW r \in Runners, Busy(r), run[r].script \in Atomic,
         NEW st, At(r, st)
  PROVE  /\ st \in Recording => run[r].tx # "none"
         /\ st = "commit" => /\ run[r].pc = Len(Mine(r).steps) /\ run[r].pc > 1
                             /\ Mine(r).steps[run[r].pc - 1] = "succeeded"
         /\ st # "build" /\ ~Mine(r).recordsFailure
<1>. DEFINE s == run[r].script
            i == run[r].pc
<1>1. /\ i \in DOMAIN Script[s].steps /\ st = Script[s].steps[i] /\ Follows(r)
      /\ Mine(r) = Script[s]
  BY BusySession, ScriptFields DEF FollowInv, At
<1>2. /\ Script[s].steps[i] \in Recording => InTx(s, i)
      /\ Script[s].steps[i] = "commit" =>
           i = Len(Script[s].steps) /\ i > 1 /\ Script[s].steps[i - 1] = "succeeded"
      /\ Script[s].steps[i] # "build" /\ ~Script[s].recordsFailure
  BY <1>1, AtomicScriptsWriteOnce DEF Recording
<1>. QED
  BY <1>1, <1>2 DEF Follows

LEMMA AppliedStep ==
  ASSUME AppliedInv, [Next]_vars PROVE AppliedInv'
<1>1. FollowInv /\ FollowInv' /\ RunnerTypes /\ AppliedIsRecorded
  BY FollowStep DEF AppliedInv, FollowInv
<1>2. ASSUME NEW r \in Runners, Moved(r), NEW q \in Runners PROVE Records(q)'
  <2>1. Records(q) /\ Busy(r)
    BY <1>2 DEF AppliedInv, Moved
  <2>2. CASE run'[q] = run[q]
    BY <2>1, <2>2 DEF Records, Busy, Mine
  <2>3. CASE q = r /\ Left(r)
    BY <2>3, IdleSession DEF Left, Records, Busy
  <2>4. ASSUME NEW st \in Steps, At(r, st), WentOn(r, st), Wrote(r, st), q = r,
               run[r].script \in Atomic
        PROVE  Records(q)'
    <3>1. st \in Recording => run[r].tx # "none"
      BY <1>1, <2>1, <2>4, AtomicPlace
    <3>2. /\ Mine(r)' = Mine(r) /\ run'[r].pc = run[r].pc + 1 /\ run[r].pc \in Nat
          /\ Mine(r).steps[run[r].pc] = st
      BY <1>1, <2>1, <2>4, BusySession DEF WentOn, At, Mine
    <3>3. ~run'[r].started
      BY <2>1, <2>4, <3>1 DEF WentOn, Records
    <3>4. st = "succeeded" => run'[r].pending = "SUCCEEDED"
      BY <2>4, <3>1 DEF WentOn, Recording
    <3>5. Mine(r).steps[run'[r].pc - 1] = st
      BY <3>2
    <3>. QED
      BY <2>4, <3>2, <3>3, <3>4, <3>5 DEF Records
  <2>5. ASSUME NEW st \in Steps, WentOn(r, st), q = r, run[r].script \notin Atomic
        PROVE  Records(q)'
    BY <2>5 DEF WentOn, Records
  <2>. QED
    BY <1>2, <2>2, <2>3, <2>4, <2>5 DEF Moved, Built
<1>3. ASSUME NEW r \in Runners, Moved(r) PROVE AppliedIsRecorded'
  <2>. DEFINE s == run[r].script
  <2>1. /\ Busy(r) /\ Records(r) /\ family' = family /\ s \in family
        /\ ledger \in [family -> Statuses] /\ applied \in [family -> Nat]
    BY <1>1, <1>3, BusySession DEF Moved, AppliedInv, RunnerTypes
  <2>. SUFFICES ASSUME NEW t \in family \cap Atomic, applied'[t] > 0
                PROVE  ledger'[t] = "SUCCEEDED"
    BY <2>1 DEF AppliedIsRecorded
  <2>2. applied[t] > 0 => ledger[t] = "SUCCEEDED"
    BY <1>1 DEF AppliedIsRecorded
  <2>3. CASE ledger'[t] = ledger[t] /\ applied'[t] = applied[t]
    BY <2>2, <2>3
  <2>4. CASE ~(ledger'[t] = ledger[t] /\ applied'[t] = applied[t])
    <3>1. t = s
      BY <1>1, <1>3, <2>4, LedgerMoves
    <3>2. ~Left(r)
      <4>. SUFFICES ASSUME Left(r) PROVE FALSE
        OBVIOUS
      <4>1. ledger' # ledger /\ applied' = applied
        BY <2>4 DEF Left
      <4>2. ~run[r].started
        BY <2>1, <3>1 DEF Records
      <4>3. At(r, "build")
        BY <4>1, <4>2 DEF Left
      <4>. QED
        BY <1>1, <2>1, <3>1, <4>3, AtomicPlace
    <3>3. ~Built(r)
      BY <2>4 DEF Built
    <3>4. PICK st \in Steps : At(r, st) /\ WentOn(r, st) /\ Wrote(r, st)
      BY <1>3, <3>2, <3>3 DEF Moved
    <3>5. /\ st \in Recording => run[r].tx # "none"
          /\ st = "commit" => run[r].pending = "SUCCEEDED"
      BY <1>1, <2>1, <3>1, <3>4, AtomicPlace DEF Records
    <3>6. st = "commit"
      <4>. SUFFICES ASSUME st # "commit" PROVE FALSE
        OBVIOUS
      <4>1. applied' = applied /\ ledger' = ledger
        BY <3>4, <3>5 DEF Wrote
      <4>. QED
        BY <2>4, <4>1
    <3>7. ledger' = [ledger EXCEPT ![s] = "SUCCEEDED"]
      BY <3>4, <3>5, <3>6 DEF Wrote, Recording
    <3>. QED
      BY <2>1, <3>1, <3>7
  <2>. QED
    BY <2>3, <2>4
<1>4. ASSUME NEW r \in Runners, NEW s \in family, Start(r, s) PROVE AppliedInv'
  <2>1. ASSUME NEW q \in Runners PROVE Records(q)'
    <3>1. CASE q = r
      <4>1. run'[r].pc = 1 /\ run'[r].started = FALSE
        BY <1>1, <1>4, StartMoves
      <4>. QED
        BY <3>1, <4>1 DEF Records
    <3>2. CASE q # r
      <4>1. run'[q] = run[q] /\ Records(q)
        BY <1>1, <1>4, <3>2, StartMoves DEF AppliedInv
      <4>. QED
        BY <4>1 DEF Records, Busy, Mine
    <3>. QED
      BY <3>1, <3>2
  <2>2. UNCHANGED <<applied, ledger, family>>
    BY <1>1, <1>4, StartMoves
  <2>. QED
    BY <1>1, <2>1, <2>2 DEF AppliedInv, AppliedIsRecorded
<1>5. ASSUME UNCHANGED <<run, applied, ledger, family>> PROVE AppliedInv'
  <2>1. ASSUME NEW q \in Runners PROVE Records(q)'
    BY <1>5 DEF AppliedInv, Records, Busy, Mine
  <2>. QED
    BY <1>1, <1>5, <2>1 DEF AppliedInv, AppliedIsRecorded
<1>6. ASSUME NEW r \in Runners, Moved(r) PROVE AppliedInv'
  BY <1>1, <1>2, <1>3, <1>6 DEF AppliedInv
<1>. QED
  BY <1>1, <1>4, <1>5, <1>6, NextMoves DEF Write, Spoil, vars, bookkeeping

\* For every set of scripts that record a success last, and any number of sessions,
\* failures and deaths: a script whose entry says SUCCEEDED has left what it
\* promises, and a script that commits its entry with its SQL has been applied only
\* if its entry says so (app_schema_migrations of scripts/run-*.mjs).
THEOREM LedgerTellsTheTruthHolds == Spec => []LedgerTellsTheTruth
<1>1. Init => ThereInv /\ AppliedInv
  <2>. SUFFICES ASSUME Init PROVE ThereInv /\ AppliedInv
    OBVIOUS
  <2>1. FollowInv /\ \A r \in Runners : ~Busy(r)
    BY FollowsFromStart, IdleSession DEF Init, Busy
  <2>2. SucceededIsThere /\ AppliedIsRecorded
    BY DEF Init, SucceededIsThere, AppliedIsRecorded
  <2>. QED
    BY <2>1, <2>2 DEF ThereInv, Made, AppliedInv, Records
<1>2. ThereInv /\ [Next]_vars => ThereInv'
  BY ThereStep
<1>3. AppliedInv /\ [Next]_vars => AppliedInv'
  BY AppliedStep
<1>4. ThereInv /\ AppliedInv => LedgerTellsTheTruth
  BY DEF ThereInv, AppliedInv, LedgerTellsTheTruth
<1>. QED
  BY <1>1, <1>2, <1>3, <1>4, PTL DEF Spec

-----------------------------------------------------------------------------
(***************************************************************************)
(* The commodities.  A group of one name is never empty, so it has a row   *)
(* with the most references and, among those, the lowest id: the canonical *)
(* row exists, belongs to the group and is the same for all its members.   *)
(***************************************************************************)
LEMMA LeastNatural ==
  ASSUME NEW S \in SUBSET Nat, S # {} PROVE \E m \in S : \A n \in S : m <= n
<1>. DEFINE R == OpToRel(<, Nat)
<1>1. \E m \in S : \A n \in S : ~(<<n, m>> \in R)
  BY NatLessThanWellFounded, WFMin
<1>2. \A m, n \in S : ~(<<n, m>> \in R) => m <= n
  BY DEF OpToRel
<1>. QED
  BY <1>1, <1>2

LEMMA CommodityNumbers == CommodityIds \subseteq Nat \ {0} /\ 0 \notin CommodityIds
BY CommodityIdsAreNumbers

LEMMA ReferencesCount ==
  ASSUME NEW c
  PROVE  /\ Cardinality(Places) \in Nat /\ Cardinality(References(c)) \in Nat
         /\ Cardinality(References(c)) <= Cardinality(Places)
<1>1. IsFiniteSet(Places)
  BY PlacesAreFinite, FS_Union DEF Places
<1>2. References(c) \in SUBSET Places
  BY DEF References
<1>. QED
  BY <1>1, <1>2, FS_Subset, FS_CardinalityType

\* Every group of commodities of one name has a canonical row.
LEMMA CanonicalExists ==
  ASSUME NEW c \in CommodityIds, Exists(c)
  PROVE  /\ Canonical(c) \in SameNamed(c)
         /\ \A other \in SameNamed(c) : Precedes(Canonical(c), other)
<1>. DEFINE G == SameNamed(c)
            Count(d) == Cardinality(References(d))
            Misses == {Cardinality(Places) - Count(d) : d \in G}
<1>1. c \in G /\ G \subseteq CommodityIds
  BY DEF SameNamed, SameName
<1>2. \A d \in G : Count(d) \in Nat /\ Count(d) <= Cardinality(Places)
  BY ReferencesCount
<1>3. Misses \in SUBSET Nat /\ Misses # {}
  BY <1>1, <1>2, ReferencesCount
<1>4. PICK m \in Misses : \A n \in Misses : m <= n
  <2>. HIDE DEF Misses
  <2>. QED
    BY <1>3, LeastNatural
<1>5. PICK d \in G : \A e \in G : Count(e) <= Count(d)
  <2>1. PICK d \in G : m = Cardinality(Places) - Count(d)
    OBVIOUS
  <2>2. \A e \in G : m <= Cardinality(Places) - Count(e)
    BY <1>4
  <2>3. \A e \in G : Count(e) <= Count(d)
    <3>. HIDE DEF G, Count
    <3>. QED
      BY <1>2, <2>1, <2>2, ReferencesCount
  <2>. QED
    BY <2>3
<1>. DEFINE Best == {e \in G : Count(e) = Count(d)}
<1>6. Best \in SUBSET Nat /\ Best # {}
  BY <1>1, CommodityNumbers
<1>7. PICK b \in Best : \A e \in Best : b <= e
  <2>. HIDE DEF Best
  <2>. QED
    BY <1>6, LeastNatural
<1>8. \A other \in G : Precedes(b, other)
  BY <1>2, <1>5, <1>7 DEF Precedes
<1>. QED
  BY <1>7, <1>8 DEF Canonical

LEMMA CanonicalOfGroup ==
  ASSUME NEW c \in CommodityIds, NEW d \in CommodityIds, SameName(c, d)
  PROVE  SameNamed(c) = SameNamed(d) /\ Canonical(c) = Canonical(d)
<1>1. SameNamed(c) = SameNamed(d)
  BY DEF SameNamed, SameName
<1>. QED
  BY <1>1 DEF Canonical

LEMMA MergeKeeps ==
  ASSUME commodities \in [CommodityIds -> Commodity \cup {NoRow}],
         places \in [Places -> Reference], MergeDuplicates
  PROVE  KeepsMeaning
<1>1. /\ commodities' = MergedCommodities /\ places' = MergedPlaces /\ Orphans = {}
  BY DEF MergeDuplicates
<1>2. NoRow \notin Commodity
  BY RowsAreTold DEF Commodity
<1>3. ASSUME NEW c \in CommodityIds, Exists(c)
      PROVE  /\ Canonical(c) \in CommodityIds /\ Exists(Canonical(c))
             /\ SameName(c, Canonical(c))
             /\ Canonical(Canonical(c)) = Canonical(c)
  <2>1. Canonical(c) \in CommodityIds /\ SameName(c, Canonical(c))
    BY <1>3, CanonicalExists DEF SameNamed
  <2>. QED
    BY <2>1, CanonicalOfGroup DEF SameName
<1>4. ASSUME NEW c \in CommodityIds, Exists(c), Canonical(c) = c
      PROVE  /\ commodities'[c] # NoRow
             /\ commodities'[c].service = commodities[c].service
             /\ commodities'[c].name = commodities[c].name
             /\ (\E d \in SameNamed(c) : commodities[d].described) => commodities'[c].described
  <2>. DEFINE all == \E d \in SameNamed(c) : commodities[d].described
  <2>1. commodities'[c] = [commodities[c] EXCEPT !.described = all]
    BY <1>1, <1>4 DEF MergedCommodities
  <2>2. commodities[c] \in Commodity /\ all \in BOOLEAN
    BY <1>4 DEF Exists
  <2>. HIDE DEF all
  <2>3. /\ commodities'[c] \in Commodity
        /\ commodities'[c].service = commodities[c].service
        /\ commodities'[c].name = commodities[c].name
        /\ commodities'[c].described = all
    BY <2>1, <2>2 DEF Commodity
  <2>. QED
    BY <1>2, <2>3 DEF all
<1>5. ASSUME NEW c \in CommodityIds, ~(Exists(c) /\ Canonical(c) = c)
      PROVE  commodities'[c] = NoRow
  BY <1>1, <1>5 DEF MergedCommodities
<1>6. ASSUME NEW p \in Places
      PROVE  /\ places'[p].text = places[p].text
             /\ places[p].id # 0 =>
                  /\ places'[p].id \in CommodityIds
                  /\ commodities'[places'[p].id] # NoRow
                  /\ commodities'[places'[p].id].service = commodities[places[p].id].service
                  /\ commodities'[places'[p].id].name = commodities[places[p].id].name
  <2>1. CASE places[p].id = 0
    BY <1>1, <2>1 DEF MergedPlaces
  <2>2. CASE places[p].id # 0
    <3>. DEFINE c == places[p].id
    <3>1. c \in CommodityIds /\ Exists(c) /\ places[p] \in Reference
      BY <1>1, <2>2 DEF Orphans, Reference
    <3>2. places'[p] = [places[p] EXCEPT !.id = Canonical(c)]
      BY <1>1, <2>2, <3>1 DEF MergedPlaces
    <3>3. places'[p].id = Canonical(c) /\ places'[p].text = places[p].text
      BY <3>1, <3>2 DEF Reference
    <3>. QED
      BY <1>3, <1>4, <3>1, <3>3 DEF SameName
  <2>. QED
    BY <2>1, <2>2
<1>7. ASSUME NEW c \in CommodityIds, Exists(c)
      PROVE  \E d \in CommodityIds :
               /\ commodities'[d] # NoRow
               /\ commodities'[d].service = commodities[c].service
               /\ commodities'[d].name = commodities[c].name
               /\ commodities[c].described => commodities'[d].described
  <2>1. /\ Canonical(c) \in CommodityIds /\ Exists(Canonical(c)) /\ SameName(c, Canonical(c))
        /\ Canonical(Canonical(c)) = Canonical(c) /\ c \in SameNamed(Canonical(c))
    BY <1>3, <1>7 DEF SameName, SameNamed
  <2>. QED
    BY <1>4, <2>1 DEF SameName
<1>8. Duplicates' = {}
  <2>. SUFFICES ASSUME NEW c \in CommodityIds, NEW d \in CommodityIds, c # d, SameName(c, d)'
                PROVE  FALSE
    BY DEF Duplicates
  <2>1. Exists(c) /\ Canonical(c) = c /\ Exists(d) /\ Canonical(d) = d
    BY <1>5 DEF SameName, Exists
  <2>2. SameName(c, d)
    BY <1>4, <2>1 DEF SameName
  <2>. QED
    BY <2>1, <2>2, CanonicalOfGroup
<1>. QED
  BY <1>6, <1>7, <1>8 DEF KeepsMeaning

LEMMA CatalogTypesStep ==
  ASSUME CatalogTypeOK, [CatalogNext]_catalogVars PROVE CatalogTypeOK'
<1>. USE DEF CatalogTypeOK
<1>1. ASSUME NEW e \in CatalogEditors, NEW q \in Request, Continue(e, q) PROVE
        editor' \in [CatalogEditors -> Request \cup {Free}]
  BY <1>1 DEF Continue
<1>2. ASSUME NEW e \in CatalogEditors, NEW q \in Request, Open(e, q) PROVE
        editor' \in [CatalogEditors -> Request \cup {Free}]
  BY <1>2 DEF Open
<1>3. ASSUME NEW e \in CatalogEditors, End(e) PROVE
        editor' \in [CatalogEditors -> Request \cup {Free}]
  BY <1>3 DEF End
<1>4. ASSUME NEW e \in CatalogEditors, NEW row \in Commodity, CheckNewName(e, row)
      PROVE  CatalogTypeOK'
  <2>1. [pc |-> "insert", row |-> row] \in Request
    BY DEF Request
  <2>. QED
    BY <1>2, <1>4, <2>1 DEF CheckNewName
<1>5. ASSUME NEW e \in CatalogEditors, InsertCommodity(e) PROVE CatalogTypeOK'
  <2>1. editor[e].row \in Commodity
    BY <1>5 DEF InsertCommodity, Due, Request
  <2>. QED
    BY <1>3, <1>5, <2>1 DEF InsertCommodity
<1>6. ASSUME NEW e \in CatalogEditors, NEW c \in CommodityIds, NEW row \in Commodity,
             LoadCommodity(e, c, row)
      PROVE  CatalogTypeOK'
  <2>1. [pc |-> "check", id |-> c, row |-> row] \in Request
    BY DEF Request
  <2>. QED
    BY <1>2, <1>6, <2>1 DEF LoadCommodity
<1>. DEFINE Saving == [pc : {"check", "reload", "update", "restore"}, id : CommodityIds,
                       row : Commodity]
<1>7. \A e \in CatalogEditors, pc \in {"check", "reload", "update", "restore"} :
        Due(e, pc) => editor[e] \in Saving
  BY DEF Due, Request
<1>8. \A q \in Saving, pc \in {"check", "reload", "update", "restore"} :
        [q EXCEPT !.pc = pc] \in Request
  BY DEF Request
<1>9. ASSUME NEW e \in CatalogEditors, CheckName(e) PROVE CatalogTypeOK'
  <2>1. [editor[e] EXCEPT !.pc = "reload"] \in Request
    BY <1>7, <1>8, <1>9 DEF CheckName
  <2>. QED
    BY <1>1, <1>3, <1>9, <2>1 DEF CheckName
<1>10. ASSUME NEW e \in CatalogEditors, ReloadCommodity(e) PROVE CatalogTypeOK'
  <2>1. [editor[e] EXCEPT !.pc = IF Exists(editor[e].id) THEN "update" ELSE "restore"] \in Request
    BY <1>7, <1>8, <1>10 DEF ReloadCommodity
  <2>. QED
    BY <1>1, <1>10, <2>1 DEF ReloadCommodity
<1>11. ASSUME NEW e \in CatalogEditors, SaveCommodity(e) PROVE CatalogTypeOK'
  <2>1. editor[e] \in Saving
    BY <1>7, <1>11 DEF SaveCommodity
  <2>. QED
    BY <1>3, <1>11, <2>1 DEF SaveCommodity
<1>12. ASSUME NEW e \in CatalogEditors, NEW c \in CommodityIds, CheckImages(e, c)
       PROVE  CatalogTypeOK'
  <2>1. commodities[c] \in Commodity
    BY <1>12 DEF CheckImages, Exists
  <2>2. [pc |-> "documents", id |-> c, name |-> commodities[c].name] \in Request
    BY <2>1 DEF Request, Commodity
  <2>. QED
    BY <1>2, <1>12, <2>2 DEF CheckImages
<1>. DEFINE Deleting == [pc : {"documents", "delete"}, id : CommodityIds, name : Names]
<1>13. \A e \in CatalogEditors, pc \in {"documents", "delete"} :
         Due(e, pc) => editor[e] \in Deleting
  BY DEF Due, Request
<1>14. ASSUME NEW e \in CatalogEditors, CheckDocuments(e) PROVE CatalogTypeOK'
  <2>1. [editor[e] EXCEPT !.pc = "delete"] \in Request
    BY <1>13, <1>14 DEF CheckDocuments, Request
  <2>. QED
    BY <1>1, <1>3, <1>14, <2>1 DEF CheckDocuments
<1>15. ASSUME NEW e \in CatalogEditors, DeleteCommodity(e) PROVE CatalogTypeOK'
  <2>1. editor[e] \in Deleting
    BY <1>13, <1>15 DEF DeleteCommodity
  <2>. QED
    BY <1>3, <1>15, <2>1 DEF DeleteCommodity
<1>16. ASSUME NEW e \in CatalogEditors, NEW p \in Places, NEW c \in CommodityIds,
              NEW text \in Names \cup {NoName}, ChooseCommodity(e, p, c, text)
       PROVE  CatalogTypeOK'
  <2>1. [pc |-> "refer", id |-> c, place |-> p, text |-> text] \in Request
    BY DEF Request
  <2>. QED
    BY <1>2, <1>16, <2>1 DEF ChooseCommodity
<1>17. ASSUME NEW e \in CatalogEditors, StoreReference(e) PROVE CatalogTypeOK'
  <2>1. editor[e] \in [pc : {"refer"}, id : CommodityIds, place : Places,
                       text : Names \cup {NoName}]
    BY <1>17 DEF StoreReference, Due, Request
  <2>2. [id |-> editor[e].id, text |-> editor[e].text] \in Reference
    BY <2>1 DEF Reference
  <2>. QED
    BY <1>3, <1>17, <2>1, <2>2 DEF StoreReference
<1>18. ASSUME MergeDuplicates PROVE CatalogTypeOK'
  <2>1. ASSUME NEW c \in CommodityIds PROVE MergedCommodities[c] \in Commodity \cup {NoRow}
    <3>. DEFINE all == \E d \in SameNamed(c) : commodities[d].described
    <3>1. all \in BOOLEAN
      OBVIOUS
    <3>2. MergedCommodities[c] = IF Exists(c) /\ Canonical(c) = c
                                 THEN [commodities[c] EXCEPT !.described = all] ELSE NoRow
      BY DEF MergedCommodities
    <3>. HIDE DEF all
    <3>. QED
      BY <3>1, <3>2 DEF Exists, Commodity
  <2>2. ASSUME NEW p \in Places PROVE MergedPlaces[p] \in Reference
    <3>1. CASE places[p].id # 0 /\ Exists(places[p].id)
      <4>1. places[p].id \in CommodityIds
        BY <3>1 DEF Reference
      <4>2. Canonical(places[p].id) \in CommodityIds
        BY <3>1, <4>1, CanonicalExists DEF SameNamed
      <4>3. MergedPlaces[p] = [places[p] EXCEPT !.id = Canonical(places[p].id)]
        BY <3>1 DEF MergedPlaces
      <4>. QED
        BY <4>2, <4>3 DEF Reference
    <3>2. CASE ~(places[p].id # 0 /\ Exists(places[p].id))
      BY <3>2 DEF MergedPlaces
    <3>. QED
      BY <3>1, <3>2
  <2>3. /\ MergedCommodities \in [CommodityIds -> Commodity \cup {NoRow}]
        /\ MergedPlaces \in [Places -> Reference]
    BY <2>1, <2>2 DEF MergedCommodities, MergedPlaces
  <2>. QED
    BY <1>18, <2>3 DEF MergeDuplicates
<1>19. ASSUME ContractNames PROVE CatalogTypeOK'
  BY <1>19 DEF ContractNames
<1>20. ASSUME UNCHANGED catalogVars PROVE CatalogTypeOK'
  BY <1>20 DEF catalogVars
<1>. QED
  BY <1>4, <1>5, <1>6, <1>9, <1>10, <1>11, <1>12, <1>14, <1>15, <1>16, <1>17, <1>18, <1>19,
     <1>20 DEF CatalogNext, CommodityRequest

-----------------------------------------------------------------------------
(***************************************************************************)
(* Commodity Types.  What the proofs need of the rows: their types, that   *)
(* there are finitely many, and that a reading ranks them.                 *)
(***************************************************************************)
CodesInv ==
  /\ types \subseteq Type /\ IsFiniteSet(types)
  /\ sources \subseteq Source /\ IsFiniteSet(sources)
  /\ \A s, u \in sources : s.rank = u.rank => s = u
  /\ cargo \in [TypeInquiries -> Cargo]
  /\ rates \in [TariffSets -> Rates]
  /\ issuedType \in TypeIds \cup {0}
  /\ renaming \subseteq Type

LEMMA CandidateFields ==
  ASSUME CodesInv, NEW s \in Candidates
  PROVE  /\ s \in sources /\ s \in Source /\ s.service \in TypeServices
         /\ Code(s) \in Texts /\ Code(s) # NoText /\ s.name \in Texts
         /\ \A id : /\ AsType(s, id).id = id /\ AsType(s, id).service = s.service
                    /\ AsType(s, id).code = Code(s) /\ AsType(s, id).name = s.name
BY CodesAreTyped DEF CodesInv, Candidates, Source, Code, AsType

\* A service and a code have one candidate: the one read first.
LEMMA OneCandidate ==
  ASSUME CodesInv, NEW s \in Candidates, NEW u \in Candidates,
         s.service = u.service, Folded[Code(s)] = Folded[Code(u)]
  PROVE  s = u
<1>1. s.rank <= u.rank /\ u.rank <= s.rank /\ s \in sources /\ u \in sources
  BY CandidateFields DEF Candidates
<1>2. s.rank \in Nat /\ u.rank \in Nat
  BY CandidateFields DEF Source
<1>. QED
  BY <1>1, <1>2 DEF CodesInv

LEMMA AddedRow ==
  ASSUME CodesInv, NEW chosen \in SUBSET Candidates, NEW a \in Added(chosen)
  PROVE  \E s \in chosen : a = AsType(s, a.id)
<1>1. PICK s \in chosen :
        a = AsType(s, issuedType + Cardinality({u \in chosen : u.rank <= s.rank}))
  BY DEF Added
<1>. QED
  BY <1>1, CandidateFields

\* The INSERT adds exactly the candidates the preflight has counted as missing.
LEMMA FillsAll ==
  ASSUME CodesInv, BackfillAccepts(types), NEW chosen \in SUBSET Candidates, Fills(chosen)
  PROVE  chosen = Missing(types)
<1>1. ASSUME NEW s \in chosen PROVE s \in Missing(types)
  <2>1. \A t \in types : ~SameCode(AsType(s, 0), t)
    BY CandidateFields DEF Fills, Clash
  <2>. QED
    BY <2>1 DEF Missing
<1>2. ASSUME NEW s \in Missing(types), s \notin chosen PROVE FALSE
  <2>1. s \in Candidates /\ \A t \in types : ~SameCode(AsType(s, 0), t)
    BY DEF Missing
  <2>2. PICK t \in types \cup Added(chosen) : Clash(AsType(s, 0), t)
    BY <1>2, <2>1 DEF Fills
  <2>3. t \in Added(chosen)
    BY <2>1, <2>2 DEF Clash, BackfillAccepts
  <2>4. PICK u \in chosen : t = AsType(u, t.id)
    BY <2>3, AddedRow
  <2>5. u \in Candidates /\ s # u
    BY <1>2
  <2>6. s.service = u.service
    BY <2>1, <2>2, <2>4, <2>5, CandidateFields DEF Clash, SameTypeName, SameCode
  <2>7. CASE SameTypeName(AsType(s, 0), t)
    <3>1. SameTypeName(AsType(s, 0), AsType(u, 0))
      BY <2>1, <2>4, <2>5, <2>7, CandidateFields DEF SameTypeName
    <3>2. Code(s) = Code(u)
      BY <2>1, <2>5, <3>1 DEF BackfillAccepts
    <3>. QED
      BY <2>1, <2>5, <2>6, <3>2, OneCandidate
  <2>8. CASE SameCode(AsType(s, 0), t)
    <3>1. Folded[Code(s)] = Folded[Code(u)]
      BY <2>1, <2>4, <2>5, <2>8, CandidateFields DEF SameCode
    <3>. QED
      BY <2>1, <2>5, <2>6, <3>1, OneCandidate
  <2>. QED
    BY <2>2, <2>7, <2>8 DEF Clash
<1>. QED
  BY <1>1, <1>2 DEF Missing

LEMMA ClashIsMutual ==
  ASSUME NEW a, NEW b PROVE Clash(a, b) <=> Clash(b, a)
BY DEF Clash, SameTypeName, SameCode

\* The rows added are new, and as many as the candidates they come from.
LEMMA AddedCount ==
  ASSUME CodesInv, NEW chosen \in SUBSET Candidates, Fills(chosen)
  PROVE  /\ IsFiniteSet(types \cup Added(chosen))
         /\ Cardinality(types \cup Added(chosen)) = Cardinality(types) + Cardinality(chosen)
<1>. DEFINE Id(s) == issuedType + Cardinality({u \in chosen : u.rank <= s.rank})
            row == [s \in chosen |-> AsType(s, Id(s))]
<1>1. IsFiniteSet(chosen) /\ IsFiniteSet(types)
  BY FS_Subset DEF CodesInv, Candidates
<1>2. Added(chosen) = {row[s] : s \in chosen}
  BY DEF Added
<1>3. ASSUME NEW s \in chosen, NEW u \in chosen, row[s] = row[u] PROVE s = u
  <2>1. AsType(s, Id(s)) = AsType(u, Id(u))
    BY <1>3
  <2>2. s.service = u.service /\ s.name = u.name
    <3>. HIDE DEF Id
    <3>. QED
      BY <2>1, CandidateFields
  <2>3. SameTypeName(AsType(s, 0), AsType(u, 0))
    BY <2>2, CandidateFields DEF SameTypeName
  <2>. QED
    BY <2>3 DEF Fills, Clash
<1>4. row \in Surjection(chosen, Added(chosen)) /\ row \in Injection(chosen, Added(chosen))
  <2>1. row \in [chosen -> Added(chosen)] /\ \A t \in Added(chosen) : \E s \in chosen : row[s] = t
    BY <1>2
  <2>. HIDE DEF row
  <2>. QED
    BY <1>3, <2>1 DEF Surjection, Injection, IsInjective
<1>5. IsFiniteSet(Added(chosen)) /\ Cardinality(Added(chosen)) = Cardinality(chosen)
  <2>. HIDE DEF row
  <2>. QED
    BY <1>1, <1>4, FS_Surjection
<1>6. types \cap Added(chosen) = {}
  <2>. SUFFICES ASSUME NEW t \in types, t \in Added(chosen) PROVE FALSE
    OBVIOUS
  <2>1. PICK s \in chosen : t = AsType(s, t.id)
    BY AddedRow
  <2>2. SameTypeName(AsType(s, 0), t)
    BY <2>1, CandidateFields DEF SameTypeName
  <2>. QED
    BY <2>2 DEF Fills, Clash
<1>7. Cardinality(types) \in Nat /\ Cardinality(chosen) \in Nat
  BY <1>1, FS_CardinalityType
<1>. QED
  BY <1>1, <1>5, <1>6, <1>7, FS_Union, FS_EmptySet

LEMMA AddedAreNew ==
  ASSUME CodesInv, NEW chosen \in SUBSET Candidates, Fills(chosen)
  PROVE  /\ \A t \in types, a \in Added(chosen) : ~Clash(t, a) /\ a.code # NoText
         /\ \A a, b \in Added(chosen) : a # b => ~Clash(a, b)
<1>. DEFINE Id(s) == issuedType + Cardinality({u \in chosen : u.rank <= s.rank})
<1>1. \A a \in Added(chosen) : \E s \in chosen : a = AsType(s, Id(s))
  BY DEF Added
<1>. HIDE DEF Id
<1>2. ASSUME NEW s \in chosen, NEW b, Clash(AsType(s, Id(s)), b) PROVE Clash(AsType(s, 0), b)
  BY <1>2, CandidateFields DEF Clash, SameTypeName, SameCode
<1>3. ASSUME NEW t \in types, NEW a \in Added(chosen) PROVE ~Clash(t, a) /\ a.code # NoText
  <2>1. PICK s \in chosen : a = AsType(s, Id(s))
    BY <1>1
  <2>. QED
    BY <1>2, <2>1, ClashIsMutual, CandidateFields DEF Fills
<1>4. ASSUME NEW a \in Added(chosen), NEW b \in Added(chosen), a # b PROVE ~Clash(a, b)
  <2>1. PICK s \in chosen, u \in chosen : a = AsType(s, Id(s)) /\ b = AsType(u, Id(u))
    BY <1>1
  <2>2. s # u
    BY <1>4, <2>1
  <2>3. ~Clash(AsType(s, 0), AsType(u, 0))
    BY <2>2 DEF Fills
  <2>4. Clash(a, b) => Clash(AsType(s, 0), b)
    BY <1>2, <2>1
  <2>5. Clash(b, AsType(s, 0)) => Clash(AsType(u, 0), AsType(s, 0))
    BY <1>2, <2>1
  <2>. QED
    BY <2>3, <2>4, <2>5, ClashIsMutual
<1>. QED
  BY <1>3, <1>4

LEMMA BackfillSuffices ==
  ASSUME CodesInv, BackfillAccepts(types), NEW chosen \in SUBSET Candidates, Fills(chosen)
  PROVE  BackfillComplete(types \cup Added(chosen))
<1>. DEFINE after == types \cup Added(chosen)
<1>1. chosen = Missing(types)
  BY FillsAll
<1>2. Missing(after) = {}
  <2>. SUFFICES ASSUME NEW s \in Candidates
                PROVE  \E t \in after : SameCode(AsType(s, 0), t)
    BY DEF Missing
  <2>1. CASE s \in chosen
    <3>1. PICK id : AsType(s, id) \in Added(chosen)
      BY <2>1 DEF Added
    <3>2. SameCode(AsType(s, 0), AsType(s, id))
      BY CandidateFields DEF SameCode
    <3>. QED
      BY <3>1, <3>2
  <2>2. CASE s \notin chosen
    BY <1>1, <2>2 DEF Missing
  <2>. QED
    BY <2>1, <2>2
<1>3. ASSUME NEW t \in after, NEW u \in after, t # u PROVE ~SameCode(t, u) /\ ~SameTypeName(t, u)
  <2>1. CASE t \in types /\ u \in types
    BY <1>3, <2>1 DEF BackfillAccepts
  <2>2. CASE t \in types /\ u \in Added(chosen)
    BY <2>2, AddedAreNew DEF Clash, SameCode
  <2>3. CASE t \in Added(chosen) /\ u \in types
    <3>1. ~Clash(t, u) /\ t.code # NoText
      BY <2>3, AddedAreNew, ClashIsMutual
    <3>. QED
      BY <3>1 DEF Clash
  <2>4. CASE t \in Added(chosen) /\ u \in Added(chosen)
    <3>1. t.code # NoText
      <4>1. PICK s \in chosen : t = AsType(s, t.id)
        BY <2>4, AddedRow
      <4>. QED
        BY <4>1, CandidateFields
    <3>. QED
      BY <1>3, <2>4, <3>1, AddedAreNew DEF Clash
  <2>. QED
    BY <2>1, <2>2, <2>3, <2>4
<1>4. BackfillAccepts(after)
  BY <1>2, <1>3 DEF BackfillAccepts
<1>5. Cardinality(after) = Cardinality(types) + Cardinality(Missing(types))
  BY <1>1, AddedCount
<1>. QED
  BY <1>2, <1>4, <1>5 DEF BackfillComplete

-----------------------------------------------------------------------------
LEMMA RateFields ==
  ASSUME CodesInv, NEW s \in TariffSets
  PROVE  /\ Len(rates[s]) \in Nat /\ Len(rates[s]) <= MaxRates
         /\ DOMAIN rates[s] = 1..Len(rates[s])
         /\ \A k \in 1..Len(rates[s]) : rates[s][k] \in Rate /\ <<s, k>> \in RateIndexes
<1>1. PICK n \in 0..MaxRates : rates[s] \in [1..n -> Rate]
  BY SMTT(30) DEF CodesInv, Rates
<1>2. n \in Nat /\ n <= MaxRates
  BY <1>1, CodesAreTyped
<1>3. rates[s] \in Seq(Rate) /\ Len(rates[s]) = n
  BY <1>1, <1>2
<1>4. ASSUME NEW k \in 1..n PROVE <<s, k>> \in RateIndexes
  <2>1. <<s, k>> \in TariffSets \X (1..MaxRates)
    BY <1>2, CodesAreTyped
  <2>2. <<s, k>>[1] = s /\ <<s, k>>[2] = k
    OBVIOUS
  <2>. QED
    BY <1>2, <1>3, <2>1, <2>2 DEF RateIndexes
<1>. QED
  BY <1>1, <1>2, <1>3, <1>4

LEMMA StandsFor ==
  ASSUME NEW found, NEW id, Stands(found, id)
  PROVE  \E t \in found : found = {t} /\ IdOf(found) = t.id /\ id \in {0, t.id}
<1>1. PICK t \in found : found = {t} /\ id \in {0, t.id}
  BY DEF Stands
<1>2. (CHOOSE u \in found : TRUE) = t
  BY <1>1
<1>. QED
  BY <1>1, <1>2 DEF IdOf

\* What the plan finds for the rates: the Type each one's code stands for.
LEMMA PlannedRates ==
  ASSUME CodesInv, PlanBuilds, NEW s \in TariffSets
  PROVE  LET set == Identified(Resolves).rates[s] IN
         /\ Len(set) = Len(rates[s])
         /\ \A k \in 1..Len(rates[s]) :
              /\ \E t \in AgencyTypes :
                   /\ Resolves[rates[s][k].code] = {t}
                   /\ set[k].id = t.id /\ rates[s][k].id \in {0, t.id}
              /\ set[k] \in Rate /\ set[k].code = rates[s][k].code
              /\ set[k].named /\ set[k].amount = "number"
<1>. DEFINE set == Identified(Resolves).rates[s]
            n == Len(rates[s])
            to(k) == [rates[s][k] EXCEPT !.id = IdOf(Resolves[rates[s][k].code]), !.named = TRUE]
<1>1. set = [k \in 1..n |-> to(k)]
  BY DEF Identified
<1>2. n \in Nat /\ Len(set) = n
  <2>1. n \in Nat
    BY RateFields
  <2>. HIDE DEF n, to, set
  <2>. QED
    BY <1>1, <2>1
<1>3. ASSUME NEW k \in 1..n
      PROVE  /\ \E t \in AgencyTypes :
                  /\ Resolves[rates[s][k].code] = {t}
                  /\ set[k].id = t.id /\ rates[s][k].id \in {0, t.id}
             /\ set[k] \in Rate /\ set[k].code = rates[s][k].code
             /\ set[k].named /\ set[k].amount = "number"
  <2>. DEFINE rate == rates[s][k]
  <2>1. rate \in Rate /\ <<s, k>> \in RateIndexes /\ <<s, k>>[1] = s /\ <<s, k>>[2] = k
    BY RateFields
  <2>2. rate.amount = "number" /\ Stands(Resolves[rate.code], rate.id)
    BY <2>1 DEF PlanBuilds
  <2>3. PICK t \in Resolves[rate.code] :
          /\ Resolves[rate.code] = {t} /\ IdOf(Resolves[rate.code]) = t.id
          /\ rate.id \in {0, t.id}
    BY <2>2, StandsFor
  <2>4. t \in AgencyTypes
    BY <2>1, <2>3 DEF Resolves, Rate
  <2>5. t.id \in TypeIds
    BY <2>4 DEF AgencyTypes, CodesInv, Type
  <2>6. set[k] = [rate EXCEPT !.id = t.id, !.named = TRUE]
    BY <1>1, <2>3
  <2>7. /\ set[k] \in Rate /\ set[k].id = t.id /\ set[k].code = rate.code /\ set[k].named
        /\ set[k].amount = rate.amount
    <3>. HIDE DEF set, rate
    <3>. QED
      BY <2>1, <2>5, <2>6 DEF Rate
  <2>. QED
    BY <2>2, <2>3, <2>4, <2>7
<1>. QED
  BY <1>2, <1>3

LEMMA PlannedCargo ==
  ASSUME CodesInv, PlanBuilds, NEW i \in TypeInquiries
  PROVE  LET row == Identified(Resolves).cargo[i] IN
         /\ \E t \in AgencyTypes :
              /\ Resolves[cargo[i].text] = {t}
              /\ row.id = t.id /\ cargo[i].id \in {0, t.id}
         /\ row \in Cargo /\ row.text = cargo[i].text
<1>. DEFINE row == Identified(Resolves).cargo[i]
<1>1. cargo[i] \in Cargo /\ Stands(Resolves[cargo[i].text], cargo[i].id)
  BY DEF CodesInv, PlanBuilds
<1>2. PICK t \in Resolves[cargo[i].text] :
        /\ Resolves[cargo[i].text] = {t} /\ IdOf(Resolves[cargo[i].text]) = t.id
        /\ cargo[i].id \in {0, t.id}
  BY <1>1, StandsFor
<1>3. t \in AgencyTypes
  BY <1>1, <1>2 DEF Resolves, Cargo
<1>4. t.id \in TypeIds
  BY <1>3 DEF AgencyTypes, CodesInv, Type
<1>5. row = [cargo[i] EXCEPT !.id = t.id]
  BY <1>2 DEF Identified
<1>6. row \in Cargo /\ row.id = t.id /\ row.text = cargo[i].text
  <2>. HIDE DEF row
  <2>. QED
    BY <1>1, <1>4, <1>5 DEF Cargo
<1>. QED
  BY <1>2, <1>3, <1>6

\* What the identity phase plans passes the contract, but for two rates of one Type.
LEMMA PlanPassesContract ==
  ASSUME CodesInv, PlanBuilds, types # {},
         \A s \in TariffSets : ~TwoOfOneType(Identified(Resolves).rates[s])
  PROVE  ContractTakes(Identified(Resolves).rates)
<1>. DEFINE sets == Identified(Resolves).rates
<1>1. ASSUME NEW s \in TariffSets, NEW k \in 1..Len(sets[s])
      PROVE  /\ \E t \in types : sets[s][k].id = t.id
             /\ sets[s][k].named /\ sets[s][k].amount = "number"
  BY PlannedRates DEF AgencyTypes
<1>. QED
  BY <1>1 DEF ContractTakes

-----------------------------------------------------------------------------
\* The lookup of an inquiry's rate finds the Type its text stood for.
LEMMA IdentityKeepsTariffs ==
  ASSUME CodesInv, Identity, NEW i \in TypeInquiries, NEW s \in TariffSets,
         ~TwoOfOneType(rates'[s]), NEW k \in 1..Len(rates[s]), Charges(i, s, k)
  PROVE  Charges(i, s, k)'
<1>. DEFINE set == rates'[s]
            n == Len(rates[s])
<1>1. PlanBuilds /\ cargo' = Identified(Resolves).cargo /\ rates' = Identified(Resolves).rates
  BY DEF Identity
<1>2. Len(set) = n /\ n \in Nat
  BY <1>1, PlannedRates, RateFields
<1>3. PICK t \in AgencyTypes : /\ Resolves[cargo[i].text] = {t}
                               /\ cargo'[i].id = t.id /\ cargo[i].id \in {0, t.id}
  BY <1>1, PlannedCargo
<1>4. \A u \in AgencyTypes : u.id # 0
  BY CodesAreTyped DEF AgencyTypes, CodesInv, Type
<1>5. PICK u \in AgencyTypes : /\ Resolves[rates[s][k].code] = {u}
                               /\ set[k].id = u.id /\ rates[s][k].id \in {0, u.id}
  BY <1>1, PlannedRates
<1>6. u.id = t.id
  <2>1. k \in OfType(i, s) \/ (k \in OfCode(i, s) /\ OfType(i, s) = {})
    BY DEF Charges, Fitting
  <2>2. CASE k \in OfType(i, s)
    BY <1>3, <1>5, <2>2 DEF OfType
  <2>3. CASE k \in OfCode(i, s)
    <3>1. /\ Form(Folded, rates[s][k].code) # NoText
          /\ Form(Folded, rates[s][k].code) = Form(Folded, cargo[i].text)
      BY <2>3 DEF OfCode
    <3>2. rates[s][k].code \in Texts \cup {NoText} /\ cargo[i].text \in Texts \cup {NoText}
      BY RateFields DEF CodesInv, Rate, Cargo
    <3>3. Form(Key, rates[s][k].code) = Form(Key, cargo[i].text)
      BY <3>1, <3>2, CodesAreTyped DEF Form
    <3>4. Resolves[rates[s][k].code] = Resolves[cargo[i].text]
      BY <3>2, <3>3 DEF Resolves
    <3>. QED
      BY <1>3, <1>5, <3>4
  <2>. QED
    BY <2>1, <2>2, <2>3
<1>7. OfType(i, s)' = {k}
  <2>1. OfType(i, s)' = {j \in 1..n : cargo'[i].id # 0 /\ set[j].id = cargo'[i].id}
    BY <1>2 DEF OfType
  <2>2. \A j \in 1..n : set[j].id = set[k].id => j = k
    BY <1>2 DEF TwoOfOneType
  <2>. HIDE DEF set
  <2>. QED
    BY <1>3, <1>4, <1>5, <1>6, <2>1, <2>2
<1>. QED
  BY <1>2, <1>7 DEF Charges, Fitting

LEMMA ContractKeepsTariffs ==
  ASSUME CodesInv, ContractCodes, NEW i \in TypeInquiries, NEW s \in TariffSets,
         NEW k \in 1..Len(rates[s]), Charges(i, s, k)
  PROVE  Charges(i, s, k)'
<1>. DEFINE n == Len(rates[s])
<1>1. n \in Nat /\ \A j \in 1..n : rates[s][j] \in Rate
  BY RateFields
<1>2. /\ Len(rates'[s]) = n /\ cargo' = cargo
      /\ \A j \in 1..n : rates'[s][j] = [rates[s][j] EXCEPT !.code = NoText]
  BY <1>1 DEF ContractCodes
<1>3. \A j \in 1..n : rates'[s][j].id = rates[s][j].id
  <2>. HIDE DEF n
  <2>. QED
    BY <1>1, <1>2 DEF Rate
<1>4. \A j \in 1..n : rates[s][j].id # 0
  BY CodesAreTyped DEF ContractCodes, ContractTakes, CodesInv, Type
<1>5. OfCode(i, s) = {} /\ OfCode(i, s)' = {}
  BY <1>2, <1>3, <1>4 DEF OfCode
<1>6. OfType(i, s)' = OfType(i, s)
  BY <1>2, <1>3 DEF OfType
<1>. QED
  BY <1>5, <1>6 DEF Charges, Fitting

-----------------------------------------------------------------------------
LEMMA ImageIsFinite ==
  ASSUME NEW S, NEW f, IsFiniteSet(S), DOMAIN f = S, f \in [S -> {f[x] : x \in S}]
  PROVE  IsFiniteSet({f[x] : x \in S})
<1>1. f \in Surjection(S, {f[x] : x \in S})
  BY DEF Surjection
<1>. QED
  BY <1>1, FS_Surjection

LEMMA TypesRewritten ==
  ASSUME CodesInv, NEW f \in [types -> Type], types' = {f[t] : t \in types}
  PROVE  types' \subseteq Type /\ IsFiniteSet(types')
<1>1. f \in [types -> {f[t] : t \in types}] /\ DOMAIN f = types
  OBVIOUS
<1>. QED
  BY <1>1, ImageIsFinite DEF CodesInv

LEMMA TypesAdded ==
  ASSUME CodesInv, NEW chosen \in SUBSET Candidates, Fills(chosen),
         issuedType + Cardinality(chosen) \in TypeIds \cup {0}
  PROVE  Added(chosen) \subseteq Type
<1>. SUFFICES ASSUME NEW s \in chosen
              PROVE  AsType(s, issuedType + Cardinality({u \in chosen : u.rank <= s.rank})) \in Type
  BY DEF Added
<1>. DEFINE first == {u \in chosen : u.rank <= s.rank}
<1>1. IsFiniteSet(chosen)
  BY FS_Subset DEF CodesInv, Candidates
<1>2. s \in first
  BY CandidateFields DEF Source
<1>3. IsFiniteSet(first) /\ Cardinality(first) \in Nat /\ Cardinality(chosen) \in Nat
      /\ Cardinality(first) <= Cardinality(chosen) /\ Cardinality(first) # 0
  BY <1>1, <1>2, FS_Subset, FS_CardinalityType, FS_EmptySet
<1>4. issuedType \in Nat /\ issuedType + Cardinality(chosen) \in TypeIds
  BY <1>3, CodesAreTyped DEF CodesInv
<1>. DEFINE id == issuedType + Cardinality(first)
<1>5. id \in 1..(issuedType + Cardinality(chosen))
  BY <1>3, <1>4
<1>6. id \in TypeIds
  BY <1>4, <1>5, CodesAreTyped
<1>. HIDE DEF id
<1>7. AsType(s, id) \in Type
  BY <1>6, CandidateFields DEF AsType, Type
<1>. QED
  BY <1>7 DEF id

LEMMA CodesStep ==
  ASSUME CodesInv, [TypesNext]_typeVars PROVE CodesInv'
<1>. USE DEF CodesInv
<1>1. ASSUME Backfill PROVE CodesInv'
  <2>1. PICK chosen \in SUBSET Candidates :
          /\ Fills(chosen) /\ issuedType + Cardinality(chosen) \in TypeIds \cup {0}
          /\ types' = types \cup Added(chosen)
          /\ issuedType' = issuedType + Cardinality(chosen)
    BY <1>1 DEF Backfill
  <2>2. types' \subseteq Type /\ IsFiniteSet(types')
    BY <2>1, TypesAdded, AddedCount
  <2>. QED
    BY <1>1, <2>1, <2>2 DEF Backfill
<1>2. ASSUME Identity PROVE CodesInv'
  <2>1. PlanBuilds /\ cargo' = Identified(Resolves).cargo /\ rates' = Identified(Resolves).rates
    BY <1>2 DEF Identity
  <2>2. cargo' \in [TypeInquiries -> Cargo]
    <3>1. DOMAIN cargo' = TypeInquiries /\ cargo' = [i \in TypeInquiries |-> cargo'[i]]
      BY <2>1 DEF Identified
    <3>2. \A i \in TypeInquiries : cargo'[i] \in Cargo
      BY <2>1, PlannedCargo
    <3>. QED
      BY <3>1, <3>2
  <2>3. rates' \in [TariffSets -> Rates]
    <3>1. rates' = [s \in TariffSets |-> rates'[s]]
      BY <2>1 DEF Identified
    <3>2. ASSUME NEW s \in TariffSets PROVE rates'[s] \in Rates
      <4>1. Len(rates[s]) \in 0..MaxRates
        BY RateFields, CodesAreTyped
      <4>2. rates'[s] = [k \in 1..Len(rates[s]) |-> rates'[s][k]]
        BY <2>1 DEF Identified
      <4>3. \A k \in 1..Len(rates[s]) : rates'[s][k] \in Rate
        BY <2>1, PlannedRates
      <4>. QED
        BY <4>1, <4>2, <4>3 DEF Rates
    <3>. QED
      BY <3>1, <3>2
  <2>. QED
    BY <1>2, <2>2, <2>3 DEF Identity
<1>3. ASSUME ContractCodes PROVE CodesInv'
  <2>. DEFINE f == [t \in types |-> [t EXCEPT !.code = NoText]]
  <2>1. f \in [types -> Type] /\ types' = {f[t] : t \in types}
    BY <1>3 DEF ContractCodes, Type
  <2>2. types' \subseteq Type /\ IsFiniteSet(types')
    <3>. HIDE DEF f
    <3>. QED
      BY <2>1, TypesRewritten
  <2>3. ASSUME NEW s \in TariffSets
        PROVE  [k \in 1..Len(rates[s]) |-> [rates[s][k] EXCEPT !.code = NoText]] \in Rates
    <3>1. \A rate \in Rate : [rate EXCEPT !.code = NoText] \in Rate
      BY DEF Rate
    <3>2. Len(rates[s]) \in 0..MaxRates /\ \A k \in 1..Len(rates[s]) : rates[s][k] \in Rate
      <4>1. CodesInv
        OBVIOUS
      <4>. HIDE DEF CodesInv
      <4>2. \A k \in 1..Len(rates[s]) : rates[s][k] \in Rate
        BY <4>1, RateFields
      <4>3. Len(rates[s]) \in Nat /\ Len(rates[s]) <= MaxRates
        BY <4>1, RateFields
      <4>. QED
        BY <4>2, <4>3, CodesAreTyped
    <3>. DEFINE n == Len(rates[s])
                set == [k \in 1..n |-> [rates[s][k] EXCEPT !.code = NoText]]
    <3>3. set \in [1..n -> Rate]
      <4>. HIDE DEF n, CodesInv
      <4>. QED
        BY <3>1, <3>2 DEF n
    <3>. HIDE DEF set
    <3>4. set \in Rates
      BY <3>2, <3>3 DEF Rates
    <3>. QED
      BY <3>4 DEF set
  <2>. QED
    BY <1>3, <2>2, <2>3 DEF ContractCodes
<1>4. ASSUME NEW s \in TypeServices, NEW name \in Texts, CreateType(s, name) PROVE CodesInv'
  <2>. DEFINE t == [id |-> issuedType + 1, service |-> s, code |-> NoText, name |-> name]
  <2>1. t \in Type
    BY <1>4 DEF CreateType, Type
  <2>2. types' = types \cup {t}
    BY <1>4 DEF CreateType
  <2>3. IsFiniteSet(types')
    BY <2>2, FS_Singleton, FS_Union
  <2>. QED
    BY <1>4, <2>1, <2>2, <2>3 DEF CreateType
<1>5. ASSUME NEW t \in types, LoadType(t) PROVE CodesInv'
  BY <1>5 DEF LoadType
<1>6. ASSUME NEW t \in types, DeleteType(t) PROVE CodesInv'
  <2>1. types' \subseteq types
    BY <1>6 DEF DeleteType
  <2>. QED
    BY <1>6, <2>1, FS_Subset DEF DeleteType
<1>7. ASSUME NEW t \in renaming, NEW name \in Texts, SaveType(t, name) PROVE CodesInv'
  <2>1. CASE types' = {IF u.id = t.id THEN [u EXCEPT !.name = name] ELSE u : u \in types}
    <3>. DEFINE f == [u \in types |-> IF u.id = t.id THEN [u EXCEPT !.name = name] ELSE u]
    <3>1. f \in [types -> Type] /\ types' = {f[u] : u \in types}
      BY <2>1 DEF Type
    <3>2. types' \subseteq Type /\ IsFiniteSet(types')
      <4>. HIDE DEF f
      <4>. QED
        BY <3>1, TypesRewritten
    <3>. QED
      BY <1>7, <3>2 DEF SaveType
  <2>2. CASE types' = types \cup {[t EXCEPT !.name = name, !.code = NoText]}
    <3>1. [t EXCEPT !.name = name, !.code = NoText] \in Type
      BY DEF Type
    <3>2. IsFiniteSet(types')
      BY <2>2, FS_Singleton, FS_Union
    <3>. QED
      BY <1>7, <2>2, <3>1, <3>2 DEF SaveType
  <2>3. CASE types' = types
    BY <1>7, <2>3 DEF SaveType
  <2>. QED
    BY <1>7, <2>1, <2>2, <2>3 DEF SaveType
<1>8. ASSUME NEW s \in TariffSets, NEW n \in 0..MaxRates, NEW ids \in [1..n -> TypeIds],
             SaveRates(s, ids)
      PROVE  CodesInv'
  <2>. DEFINE set == [k \in DOMAIN ids |->
                       [id |-> ids[k], code |-> NoText, named |-> TRUE, amount |-> "number"]]
  <2>1. set \in [1..n -> Rate]
    BY DEF Rate
  <2>2. set \in Rates
    <3>. HIDE DEF set
    <3>. QED
      BY <2>1 DEF Rates
  <2>3. rates' = [rates EXCEPT ![s] = set]
    BY <1>8 DEF SaveRates
  <2>. HIDE DEF set
  <2>. QED
    BY <1>8, <2>2, <2>3 DEF SaveRates
<1>9. ASSUME NEW i \in TypeInquiries, NEW t \in types, ChooseType(i, t) PROVE CodesInv'
  <2>1. [id |-> t.id, text |-> t.name] \in Cargo
    BY DEF Cargo, Type
  <2>. QED
    BY <1>9, <2>1 DEF ChooseType
<1>10. ASSUME NEW i \in TypeInquiries, NEW text \in Texts \cup {NoText}, WriteCargo(i, text)
       PROVE  CodesInv'
  <2>1. cargo' \in [TypeInquiries -> Cargo]
    BY <1>10 DEF WriteCargo, Cargo
  <2>. QED
    BY <1>10, <2>1 DEF WriteCargo
<1>11. ASSUME UNCHANGED typeVars PROVE CodesInv'
  BY <1>11 DEF typeVars
<1>. QED
  BY <1>1, <1>2, <1>3, <1>4, <1>5, <1>6, <1>7, <1>8, <1>9, <1>10, <1>11 DEF TypesNext, StaffEdit

-----------------------------------------------------------------------------
(***************************************************************************)
(* The runs follow MaintenanceSpec, whose steps are steps of one of its    *)
(* parts: what is shown of a part holds of the whole.                      *)
(***************************************************************************)
\* The scripts of a release keep the runner's specification.
THEOREM ScriptsFollowTheRunner == MaintenanceSpec => Spec
<1>1. MaintenanceInit => Init
  BY DEF MaintenanceInit
<1>2. [MaintenanceNext]_maintenanceVars => [Next]_vars
  BY DEF MaintenanceNext, maintenanceVars
<1>. QED
  BY <1>1, <1>2, PTL DEF MaintenanceSpec, Spec

LEMMA CatalogTypesHold == MaintenanceSpec => []CatalogTypeOK
<1>1. MaintenanceInit => CatalogTypeOK
  BY DEF MaintenanceInit, CatalogInit, CatalogTypeOK
<1>2. CatalogTypeOK /\ [MaintenanceNext]_maintenanceVars => CatalogTypeOK'
  <2>1. [MaintenanceNext]_maintenanceVars => [CatalogNext]_catalogVars
    BY DEF MaintenanceNext, maintenanceVars
  <2>. QED
    BY <2>1, CatalogTypesStep
<1>. QED
  BY <1>1, <1>2, PTL DEF MaintenanceSpec

\* Whatever staff has made of the commodities, the images and the documents by the
\* time the script merges them, and however many of them there are: no reference
\* comes to mean another service or name, no name and no description is lost, and
\* none is left twice (buildIndependentCommodityMergePlan).
THEOREM MergeKeepsMeaningHolds == MaintenanceSpec => MergeKeepsMeaning
<1>1. CatalogTypeOK /\ [MaintenanceNext]_maintenanceVars
        => [MergeDuplicates => KeepsMeaning]_catalogVars
  BY MergeKeeps DEF CatalogTypeOK
<1>. QED
  BY <1>1, CatalogTypesHold, PTL DEF MaintenanceSpec, MergeKeepsMeaning

LEMMA CodesHold == MaintenanceSpec => []CodesInv
<1>1. MaintenanceInit => CodesInv
  <2>. SUFFICES ASSUME MaintenanceInit PROVE CodesInv
    OBVIOUS
  <2>1. TypesInit
    BY DEF MaintenanceInit
  <2>. QED
    BY <2>1, StartsAreTyped DEF TypesInit, CodesInv
<1>2. CodesInv /\ [MaintenanceNext]_maintenanceVars => CodesInv'
  <2>1. [MaintenanceNext]_maintenanceVars => [TypesNext]_typeVars
    BY DEF MaintenanceNext, maintenanceVars
  <2>. QED
    BY <2>1, CodesStep
<1>. QED
  BY <1>1, <1>2, PTL DEF MaintenanceSpec

\* Whatever sources, Types, inquiries and rates there are: the INSERT that skips
\* what clashes leaves out no candidate the preflight of the backfill has let
\* through, and its postflight passes; and what the identity phase plans passes the
\* contract, unless two rates of a set come to one Type
\* (validateCommodityTypeBackfillPostflight, contractRates).
THEOREM PreflightSufficesHolds == MaintenanceSpec => []PreflightSuffices
<1>1. CodesInv => PreflightSuffices
  BY BackfillSuffices, PlanPassesContract DEF PreflightSuffices
<1>. QED
  BY <1>1, CodesHold, PTL

\* However staff has renamed, deleted and added Types and rewritten rates before:
\* when codes become ids and when the codes go, each inquiry is charged by the rate
\* it was charged by before, unless two rates of the set come to one Type
\* (resolveCargoAgencyRate).
THEOREM TariffsSurviveHolds == MaintenanceSpec => TariffsSurvive
<1>. DEFINE keeps == \A i \in TypeInquiries, s \in TariffSets : ~TwoOfOneType(rates'[s]) =>
                      \A k \in 1..Len(rates[s]) : Charges(i, s, k) => Charges(i, s, k)'
<1>1. CodesInv => [Identity \/ ContractCodes => keeps]_typeVars
  BY IdentityKeepsTariffs, ContractKeepsTariffs
<1>. QED
  BY <1>1, CodesHold, PTL DEF TariffsSurvive
====
