--------------------------- MODULE MigrationRunner ---------------------------
(***************************************************************************)
(* How a migration script of scripts/run-*.mjs works on the database: a    *)
(* session reads what is there, takes an advisory lock, consults the       *)
(* ledger app_schema_migrations, writes an export, runs its SQL, checks    *)
(* the result and records it, while the application keeps writing, other   *)
(* sessions run the same or a sibling script, statements fail and          *)
(* processes die.                                                          *)
(*                                                                         *)
(* A script is data: the sequence of its steps and the sets of facts about *)
(* the schema and the rows that its preflight, its SQL and its postflight  *)
(* are about.  The scripts themselves are defined, from their sources, in  *)
(* the modules that MCMigrations puts together.                            *)
(***************************************************************************)
EXTENDS Naturals, Sequences, FiniteSets

CONSTANTS
  Runners,       \* sessions that may be running a script at one time
  Scripts,       \* names of scripts, a phase of a script counting as one
  Script,        \* [Scripts -> script record], see ScriptShape
  Facts,         \* facts about the schema and the rows
  Prevents,      \* pairs <<c, a>>: constraint c keeps the application from a
  AppFacts,      \* facts the application may make true while it runs
  Families,      \* scripts that work on the same objects
  Starts,        \* [Families -> sets of facts a database may start with]
  MaxWrites,     \* bound: application writes to the protected rows
  MaxSpoils,     \* bound: facts the application makes true
  MaxRuns,       \* bound: sessions started
  MaxFaults,     \* bound: statements that fail and processes that die
  Nobody         \* no runner, no script, no lock

Statuses == {"none", "RUNNING", "SUCCEEDED", "FAILED"}

Steps == {"look", "inspect", "lock", "ledger", "remember", "decide",
          "phases", "running", "insert", "begin", "snapshot", "tables",
          "collect", "recheck", "export", "sql", "build", "check",
          "compare", "succeeded", "commit"}

\* What the definition of a script gives.
ScriptShape ==
  [lock : STRING, steps : Seq(Steps),
   reads : SUBSET Facts,    \* what its inspection asks for
   needs : SUBSET Facts,    \* preflight: facts that must hold
   blocks : SUBSET Facts,   \* preflight and postflight: must not hold
   adds : SUBSET Facts,     \* facts the SQL establishes
   builds : SUBSET Facts,   \* indexes built concurrently
   skipsInvalid : BOOLEAN,  \* builds them with IF NOT EXISTS
   removes : SUBSET Facts,  \* facts the SQL ends
   goal : SUBSET Facts,     \* postflight: facts that must hold
   guards : SUBSET Facts,   \* facts on the tables it locks
   trusts : SUBSET Facts,   \* constraints added without checking the rows
   keepsRows : BOOLEAN,     \* the postflight compares the protected rows
   rewrites : BOOLEAN,      \* the SQL updates or deletes the protected rows
   recordsFailure : BOOLEAN,
   phases : SUBSET Scripts]

VARIABLES
  facts,      \* what holds of the committed database
  broken,     \* unique indexes whose build was interrupted: present, invalid
  rows,       \* version of the protected rows: the application bumps it
  ledger,     \* [family -> status]
  holder,     \* [advisory lock names -> runner or Nobody]
  run,        \* [Runners -> what the session is doing, Idle when nothing]
  family,     \* the family of scripts of this behaviour
  spoils, runs, faults,  \* counters of the bounds
  applied,    \* history: how often the effect of a script was committed
  replaced    \* history: per script, the exported and the replaced rows

vars == <<facts, broken, rows, ledger, holder, run, family, spoils, runs,
          faults, applied, replaced>>

bookkeeping == <<spoils, runs, faults, family>>

Locks == {Script[s].lock : s \in family}

\* What a session has read: facts, invalid indexes and the rows' version.
IsReading(d) ==
  /\ DOMAIN d = {"facts", "broken", "rows"}
  /\ d.facts \cup d.broken \subseteq Facts /\ d.rows \in 0 .. MaxWrites

Unread == [facts |-> {}, broken |-> {}, rows |-> 0]

Idle == [script |-> Nobody, pc |-> 0, before |-> Unread, seen |-> "none",
         tx |-> "none", view |-> Unread, ran |-> FALSE, locked |-> FALSE,
         started |-> FALSE, pending |-> "none", exported |-> Nobody]

Database == [facts |-> facts, broken |-> broken, rows |-> rows]

Init ==
  /\ family \in Families
  /\ facts \in Starts[family]
  /\ broken = {} /\ rows = 0
  /\ ledger = [s \in family |-> "none"]
  /\ holder = [l \in Locks |-> Nobody]
  /\ run = [r \in Runners |-> Idle]
  /\ spoils = 0 /\ runs = 0 /\ faults = 0
  /\ applied = [s \in family |-> 0]
  /\ replaced = [s \in family |-> {}]

-----------------------------------------------------------------------------
(* The scripts' checks, over what a session reads.                         *)

Busy(r) == run[r].script # Nobody
Mine(r) == Script[run[r].script]

\* The preflight: everything needed is there, nothing in the way, and no
\* interrupted index under a name the script wants to create.
Accepts(s, d) ==
  /\ Script[s].needs \subseteq d.facts
  /\ Script[s].blocks \cap d.facts = {}
  /\ Script[s].skipsInvalid \/ d.broken \cap Script[s].builds = {}

\* Constraints in cs that the rows of the database d would violate.
Violated(cs, d) == {c \in cs : \E a \in d.facts : <<c, a>> \in Prevents}

\* The SQL succeeds on the objects it needs unless a constraint it adds and
\* checks is violated.
Runs(s, d) ==
  /\ Script[s].needs \subseteq d.facts
  /\ Violated(Script[s].adds \ Script[s].trusts,
              [d EXCEPT !.facts = @ \ Script[s].removes]) = {}

Effect(s, d) ==
  [d EXCEPT !.facts = (@ \ Script[s].removes) \cup Script[s].adds]

\* The postflight, against what was read before.
Verified(s, before, d) ==
  /\ Script[s].goal \subseteq d.facts
  /\ (Script[s].blocks \ Script[s].adds) \cap d.facts = {}
  /\ Script[s].skipsInvalid \/ d.broken \cap Script[s].builds = {}
  /\ Script[s].keepsRows => d.rows = before.rows

\* What the session sees: its snapshot when it has one, its own uncommitted
\* effect included.  A snapshot is taken by the first query after BEGIN.
Sees(r) ==
  LET base == IF run[r].tx = "snapshot" THEN run[r].view ELSE Database
  IN IF run[r].ran THEN Effect(run[r].script, base) ELSE base

Queried(r) ==
  IF run[r].tx = "fresh"
  THEN [run[r] EXCEPT !.tx = "snapshot", !.view = Database] ELSE run[r]

\* The application's writes wait for the tables and rows a session has locked.
Guarded(a) == \E r \in Runners : run[r].locked /\ a \in Mine(r).guards
RowsLocked == \E r \in Runners : run[r].locked

-----------------------------------------------------------------------------
(* The steps of a session.                                                 *)

At(r, step) ==
  /\ Busy(r) /\ run[r].pc <= Len(Mine(r).steps)
  /\ Mine(r).steps[run[r].pc] = step

Advance(r, local) == run' = [run EXCEPT ![r] = [local EXCEPT !.pc = @ + 1]]

\* The end of a session: its transaction is rolled back, its locks are gone.
Leave(r) ==
  /\ run' = [run EXCEPT ![r] = Idle]
  /\ holder' = [l \in Locks |-> IF holder[l] = r THEN Nobody ELSE holder[l]]

\* The catch block: ROLLBACK, and FAILED for the scripts that record it.
Abandon(r) ==
  /\ Leave(r)
  /\ ledger' = IF run[r].started /\ Mine(r).recordsFailure
               THEN [ledger EXCEPT ![run[r].script] = "FAILED"] ELSE ledger
  /\ UNCHANGED <<facts, broken, rows, applied, replaced>>

Quiet == UNCHANGED <<facts, broken, rows, ledger, holder, applied, replaced>>

Start(r, s) ==
  /\ ~Busy(r) /\ runs < MaxRuns
  /\ run' = [run EXCEPT ![r] = [Idle EXCEPT !.script = s, !.pc = 1]]
  /\ runs' = runs + 1
  /\ Quiet /\ UNCHANGED <<spoils, faults, family>>

\* What an inspection reports of what it sees.
Report(r) == [Sees(r) EXCEPT !.facts = @ \cap Mine(r).reads]

\* Read the database, without and with the preflight's verdict.
Look(r) ==
  /\ At(r, "look")
  /\ Advance(r, [Queried(r) EXCEPT !.before = Report(r)])
  /\ Quiet /\ UNCHANGED bookkeeping

\* Mutant of Inspect: what was read before the lock is kept for the export.
InspectOnce(r) ==
  /\ At(r, "inspect") \/ At(r, "collect")
  /\ \/ /\ Accepts(run[r].script, Report(r))
        /\ Advance(r, [Queried(r) EXCEPT
                        !.before = IF @ = Unread THEN Report(r) ELSE @])
        /\ Quiet
     \/ /\ ~Accepts(run[r].script, Report(r))
        /\ Abandon(r)
  /\ UNCHANGED bookkeeping

Inspect(r) ==
  /\ At(r, "inspect") \/ At(r, "collect")
  /\ \/ /\ Accepts(run[r].script, Report(r))
        /\ Advance(r, [Queried(r) EXCEPT !.before = Report(r)])
        /\ Quiet
     \/ /\ ~Accepts(run[r].script, Report(r))
        /\ Abandon(r)
  /\ UNCHANGED bookkeeping

\* pg_try_advisory_lock: a second session is turned away.
TakeLock(r) ==
  /\ At(r, "lock")
  /\ \/ /\ holder[Mine(r).lock] = Nobody
        /\ holder' = [holder EXCEPT ![Mine(r).lock] = r]
        /\ Advance(r, Queried(r))
        /\ UNCHANGED <<facts, broken, rows, ledger, applied, replaced>>
     \/ /\ holder[Mine(r).lock] # Nobody
        /\ Abandon(r)
  /\ UNCHANGED bookkeeping

Remember(r) ==
  /\ At(r, "remember")
  /\ Advance(r, [run[r] EXCEPT !.seen = ledger[run[r].script]])
  /\ Quiet /\ UNCHANGED bookkeeping

\* Act on a ledger status: a script that has succeeded ends here, with success
\* or with an error, and writes nothing.
DecideOn(r, status) ==
  \/ /\ status # "SUCCEEDED"
     /\ Advance(r, run[r])
     /\ Quiet
  \/ /\ status = "SUCCEEDED"
     /\ Abandon(r)

\* Mutant of Ledger: the entry is read and not heeded.
LedgerUnheeded(r) ==
  /\ At(r, "ledger")
  /\ Advance(r, run[r])
  /\ Quiet /\ UNCHANGED bookkeeping

Ledger(r) ==
  /\ At(r, "ledger")
  /\ DecideOn(r, ledger[run[r].script])
  /\ UNCHANGED bookkeeping

Decide(r) ==
  /\ At(r, "decide")
  /\ DecideOn(r, run[r].seen)
  /\ UNCHANGED bookkeeping

Phases(r) ==
  /\ At(r, "phases")
  /\ \/ /\ \A s \in Mine(r).phases : ledger[s] = "SUCCEEDED"
        /\ Advance(r, run[r])
        /\ Quiet
     \/ /\ \E s \in Mine(r).phases : ledger[s] # "SUCCEEDED"
        /\ Abandon(r)
  /\ UNCHANGED bookkeeping

\* Mutant of Record: the entry is written by another connection.
RecordAtOnce(r, status) ==
  /\ ledger' = [ledger EXCEPT ![run[r].script] = status]
  /\ Advance(r, [run[r] EXCEPT !.started = TRUE])

\* INSERT ... ON CONFLICT DO UPDATE: in the open transaction, or at once.
Record(r, status) ==
  \/ /\ run[r].tx = "none"
     /\ ledger' = [ledger EXCEPT ![run[r].script] = status]
     /\ Advance(r, [run[r] EXCEPT !.started = TRUE])
  \/ /\ run[r].tx # "none"
     /\ Advance(r, [run[r] EXCEPT !.pending = status])
     /\ UNCHANGED ledger

MarkRunning(r) ==
  /\ At(r, "running")
  /\ Record(r, "RUNNING")
  /\ UNCHANGED <<facts, broken, rows, holder, applied, replaced, bookkeeping>>

\* A plain INSERT, refused when the script has an entry.
Insert(r) ==
  /\ At(r, "insert")
  /\ \/ /\ ledger[run[r].script] = "none"
        /\ Record(r, "RUNNING")
        /\ UNCHANGED <<facts, broken, rows, holder, applied, replaced>>
     \/ /\ ledger[run[r].script] # "none"
        /\ Abandon(r)
  /\ UNCHANGED bookkeeping

Begin(r) ==
  /\ \/ /\ At(r, "begin")
        /\ Advance(r, [run[r] EXCEPT !.tx = "read"])
     \/ /\ At(r, "snapshot")
        /\ Advance(r, [run[r] EXCEPT !.tx = "fresh"])
  /\ Quiet /\ UNCHANGED bookkeeping

\* LOCK TABLE, or SELECT ... FOR UPDATE of the rows: gives up after its
\* lock_timeout when a sibling script holds them.
LockTables(r) ==
  /\ At(r, "tables")
  /\ \/ /\ ~RowsLocked
        /\ Advance(r, [run[r] EXCEPT !.locked = TRUE])
        /\ Quiet
     \/ /\ RowsLocked
        /\ Abandon(r)
  /\ UNCHANGED bookkeeping

\* Read again in the transaction: nothing may have changed since.
Recheck(r) ==
  /\ At(r, "recheck")
  /\ \/ /\ Sees(r).rows = run[r].before.rows
        /\ Accepts(run[r].script, Report(r))
        /\ Advance(r, Queried(r))
        /\ Quiet
     \/ /\ \/ Sees(r).rows # run[r].before.rows
           \/ ~Accepts(run[r].script, Report(r))
        /\ Abandon(r)
  /\ UNCHANGED bookkeeping

\* The rows the session has read go to a new file.
Export(r) ==
  /\ At(r, "export")
  /\ Advance(r, [run[r] EXCEPT !.exported = run[r].before.rows])
  /\ Quiet /\ UNCHANGED bookkeeping

\* The migration's statements.  They wait for the locks they need; they fail
\* on a violated constraint and, in a snapshot, on rows changed since.
RunSql(r) ==
  LET s == run[r].script
      stale == run[r].tx = "snapshot" /\ run[r].view.rows # rows
  IN /\ At(r, "sql")
     /\ run[r].locked \/ ~RowsLocked
     /\ \/ /\ Runs(s, Database) /\ ~(stale /\ Script[s].rewrites)
           /\ Advance(r, [Queried(r) EXCEPT !.ran = TRUE, !.locked = TRUE])
           /\ Quiet
        \/ /\ ~Runs(s, Database) \/ (stale /\ Script[s].rewrites)
           /\ Abandon(r)
     /\ UNCHANGED bookkeeping

\* CREATE INDEX CONCURRENTLY, one statement after another and outside of any
\* transaction: what is covered is skipped; a failed build leaves the index
\* behind, invalid, under its name, which IF NOT EXISTS takes for the index.
Build(r) ==
  LET s == run[r].script
      there == facts \cup run[r].before.facts
                 \cup (IF Script[s].skipsInvalid THEN broken ELSE {})
      left == Script[s].builds \ there
  IN /\ At(r, "build")
     /\ \/ /\ left = {}
           /\ Advance(r, run[r])
           /\ Quiet
        \/ \E c \in left :
             /\ Violated({c} \ Script[s].trusts, Database) = {}
             /\ facts' = facts \cup {c}
             /\ UNCHANGED <<broken, rows, ledger, holder, run, applied,
                            replaced>>
        \/ \E c \in left :
             /\ Violated({c} \ Script[s].trusts, Database) # {}
             /\ broken' = broken \cup {c}
             /\ Leave(r)
             /\ ledger' = [ledger EXCEPT ![s] = "FAILED"]
             /\ UNCHANGED <<facts, rows, applied, replaced>>
     /\ UNCHANGED bookkeeping

Check(r) ==
  /\ At(r, "check")
  /\ \/ /\ Verified(run[r].script, run[r].before, Report(r))
        /\ Advance(r, run[r])
        /\ Quiet
     \/ /\ ~Verified(run[r].script, run[r].before, Report(r))
        /\ Abandon(r)
  /\ UNCHANGED bookkeeping

\* Only the numbers of rows are compared, after the COMMIT.
Compare(r) ==
  /\ At(r, "compare")
  /\ \/ /\ rows = run[r].before.rows
        /\ Advance(r, run[r])
        /\ Quiet
     \/ /\ rows # run[r].before.rows
        /\ Abandon(r)
  /\ UNCHANGED bookkeeping

MarkSucceeded(r) ==
  /\ At(r, "succeeded")
  /\ Record(r, "SUCCEEDED")
  /\ UNCHANGED <<facts, broken, rows, holder, applied, replaced, bookkeeping>>

\* Mutant of Commit: the entry is not part of the transaction.
CommitWithoutEntry(r) ==
  LET s == run[r].script IN
  /\ At(r, "commit")
  /\ facts' = IF run[r].ran THEN Effect(s, Database).facts ELSE facts
  /\ applied' = IF run[r].ran THEN [applied EXCEPT ![s] = @ + 1] ELSE applied
  /\ Advance(r, [run[r] EXCEPT !.tx = "none", !.ran = FALSE, !.locked = FALSE,
                               !.pending = "none"])
  /\ UNCHANGED <<broken, rows, holder, ledger, replaced, bookkeeping>>

Commit(r) ==
  LET s == run[r].script IN
  /\ At(r, "commit")
  /\ facts' = IF run[r].ran THEN Effect(s, Database).facts ELSE facts
  /\ applied' = IF run[r].ran THEN [applied EXCEPT ![s] = @ + 1] ELSE applied
  /\ replaced' = IF run[r].ran
                 THEN [replaced EXCEPT
                         ![s] = @ \cup {<<run[r].exported, rows>>}]
                 ELSE replaced
  /\ ledger' = IF run[r].pending # "none"
               THEN [ledger EXCEPT ![s] = run[r].pending] ELSE ledger
  /\ Advance(r, [run[r] EXCEPT !.tx = "none", !.ran = FALSE, !.locked = FALSE,
                               !.pending = "none"])
  /\ UNCHANGED <<broken, rows, holder, bookkeeping>>

Finish(r) ==
  /\ Busy(r) /\ run[r].pc > Len(Mine(r).steps)
  /\ Leave(r)
  /\ UNCHANGED <<facts, broken, rows, ledger, applied, replaced, bookkeeping>>

-----------------------------------------------------------------------------
(* What else happens.                                                      *)

\* A statement fails (a timeout, a conflict): the script's catch block runs.
\* Or the process dies: nothing more is written.  Either may leave an index
\* half built.
Interrupt(r) ==
  /\ Busy(r) /\ faults < MaxFaults
  /\ faults' = faults + 1
  /\ \/ run[r].pc <= Len(Mine(r).steps) /\ Abandon(r)
     \/ /\ Leave(r)
        /\ UNCHANGED <<facts, broken, rows, ledger, applied, replaced>>
     \/ /\ At(r, "build")
        /\ \E c \in Mine(r).builds \ (facts \cup Mine(r).trusts) :
             broken' = broken \cup {c}
        /\ Leave(r)
        /\ UNCHANGED <<facts, rows, ledger, applied, replaced>>
  /\ UNCHANGED <<spoils, runs, family>>

\* The application writes the rows the scripts protect...
Write ==
  /\ ~RowsLocked /\ rows < MaxWrites
  /\ rows' = rows + 1
  /\ UNCHANGED <<facts, broken, ledger, holder, run, applied, replaced,
                 bookkeeping>>

\* ...and may make true what a preflight forbids, where no constraint stands
\* in its way and no lock holds it up.
Spoil(a) ==
  /\ spoils < MaxSpoils /\ a \notin facts /\ ~Guarded(a)
  /\ \E s \in family : a \in Script[s].blocks
  /\ Violated(facts, [Unread EXCEPT !.facts = {a}]) = {}
  /\ facts' = facts \cup {a} /\ spoils' = spoils + 1
  /\ UNCHANGED <<broken, rows, ledger, holder, run, applied, replaced, runs,
                 faults, family>>

Step(r) ==
  \/ Look(r) \/ Inspect(r) \/ TakeLock(r) \/ Remember(r) \/ Ledger(r)
  \/ Decide(r) \/ Phases(r) \/ MarkRunning(r) \/ Insert(r) \/ Begin(r)
  \/ LockTables(r) \/ Recheck(r) \/ Export(r) \/ RunSql(r) \/ Build(r)
  \/ Check(r) \/ Compare(r) \/ MarkSucceeded(r) \/ Commit(r) \/ Finish(r)

Next ==
  \/ \E r \in Runners : Step(r) \/ Interrupt(r)
  \/ \E r \in Runners : \E s \in family : Start(r, s)
  \/ Write
  \/ \E a \in AppFacts : Spoil(a)

Spec == Init /\ [][Next]_vars

-----------------------------------------------------------------------------
(* Properties.                                                             *)

TypeOK ==
  /\ IsReading(Database)
  /\ ledger \in [family -> Statuses]
  /\ holder \in [Locks -> Runners \cup {Nobody}]
  /\ family \in Families
  /\ \A r \in Runners :
       /\ run[r].script \in Scripts \cup {Nobody}
       /\ IsReading(run[r].before) /\ IsReading(run[r].view)
       /\ run[r].tx \in {"none", "read", "fresh", "snapshot"}
       /\ run[r].pending \in Statuses /\ run[r].seen \in Statuses

\* Scripts that consult the ledger while they hold their lock.
Position(s, step) ==
  {i \in 1 .. Len(Script[s].steps) : Script[s].steps[i] = step}

Before(s, first, second) ==
  \E i \in Position(s, first), j \in Position(s, second) : i < j

Careful == {s \in Scripts : Before(s, "lock", "ledger")}

\* Scripts whose ledger entry becomes SUCCEEDED in the transaction of the SQL.
Atomic == {s \in Scripts : Before(s, "succeeded", "commit")}

\* Objects that some sibling removes later do not count as lost.
Lasting(s) == Script[s].goal \ UNION {Script[t].removes : t \in family}

\* The objects a script promises exist from the moment its entry says SUCCEEDED,
\* whatever siblings, the application and broken sessions do after.  All that is
\* there of an index created IF NOT EXISTS may be the invalid remains of an
\* earlier build.
SucceededIsThere ==
  \A s \in family : ledger[s] = "SUCCEEDED" =>
    Lasting(s) \subseteq
      facts \cup (IF Script[s].skipsInvalid THEN broken ELSE {})

\* What was applied is recorded, for the scripts whose entry is part of their
\* transaction.
AppliedIsRecorded ==
  \A s \in family \cap Atomic : applied[s] > 0 => ledger[s] = "SUCCEEDED"

\* The ledger tells the truth in both directions: what it says has succeeded is
\* there, and where entry and SQL commit together an entry that says anything
\* else means that nothing was applied, wherever a session died.
LedgerTellsTheTruth == SucceededIsThere /\ AppliedIsRecorded

\* The file exported by a run that rewrote rows holds those rows as they were
\* when the run replaced them: no write of the application is in between.
ExportHoldsWhatWasReplaced ==
  \A s \in family : Script[s].rewrites =>
    \A p \in replaced[s] : p[1] = p[2] \/ p[1] = Nobody

\* Once an entry says SUCCEEDED no later session, started before or after,
\* changes it or applies the script again.
SuccessIsFinal ==
  [][\A s \in family \cap Careful : ledger[s] = "SUCCEEDED" =>
       ledger'[s] = "SUCCEEDED" /\ applied'[s] = applied[s]]_vars

-----------------------------------------------------------------------------
(* What the proofs need to know of the scripts: the order of their steps.   *)

\* Before step i of s a transaction is open; before it the SQL has run in the
\* transaction; before it the rows have been read with their tables locked.
InTx(s, i) ==
  \E b \in 1 .. i - 1 :
    /\ Script[s].steps[b] \in {"begin", "snapshot"}
    /\ \A k \in b .. i - 1 : Script[s].steps[k] # "commit"

RanBy(s, i) ==
  \E q \in 1 .. i - 1 :
    /\ Script[s].steps[q] = "sql"
    /\ \A k \in q .. i - 1 : Script[s].steps[k] # "commit"

LockedBy(s, i) ==
  \E t \in 1 .. i - 1 :
    /\ Script[s].steps[t] = "tables"
    /\ \A k \in t .. i - 1 : Script[s].steps[k] # "commit"

FixedBy(s, i) ==
  \E t, c \in 1 .. i - 1 :
    /\ t < c
    /\ Script[s].steps[t] = "tables" /\ Script[s].steps[c] \in {"collect", "recheck"}
    /\ \A k \in t .. i - 1 : Script[s].steps[k] \notin {"begin", "snapshot", "commit"}

Reading == {"look", "inspect", "collect"}

ASSUME ScriptsAreTyped ==
  /\ Script \in [Scripts -> ScriptShape]
  /\ Families \subseteq SUBSET Scripts
  /\ \A f \in Families : Starts[f] \subseteq SUBSET Facts
  /\ Nobody \notin Scripts \cup Runners
  /\ MaxWrites \in Nat

\* The SQL runs in a transaction, which no reading of the preflight shares.  A
\* success is recorded last, or last before the last COMMIT, when the SQL and
\* the builds have been done that make what is promised.
ASSUME ScriptsEndWithSuccess ==
  \A s \in Scripts : LET steps == Script[s].steps IN
    \A i \in DOMAIN steps :
      /\ steps[i] = "sql" => InTx(s, i)
      /\ steps[i] \in Reading => ~RanBy(s, i)
      /\ steps[i] = "succeeded" =>
           /\ i < Len(steps) =>
                i = Len(steps) - 1 /\ steps[Len(steps)] = "commit" /\ InTx(s, i)
           /\ Script[s].goal \subseteq Script[s].adds \cup Script[s].builds
           /\ Script[s].adds # {} => \E q \in 1 .. i - 1 : steps[q] = "sql"
           /\ Script[s].builds # {} => \E b \in 1 .. i - 1 : steps[b] = "build"

\* A careful script writes nothing before it has heeded the ledger.
ASSUME CarefulScriptsAskFirst ==
  \A s \in Careful : LET steps == Script[s].steps IN
    \A i \in DOMAIN steps :
      steps[i] \in {"running", "insert", "sql", "build", "succeeded", "commit"} =>
        \E l, k \in 1 .. i - 1 : l < k /\ steps[l] = "lock" /\ steps[k] = "ledger"

\* An atomic script has one transaction, which holds all it writes and ends
\* with the success.
ASSUME AtomicScriptsWriteOnce ==
  \A s \in Atomic : LET steps == Script[s].steps IN
    /\ ~Script[s].recordsFailure
    /\ \A i \in DOMAIN steps :
         /\ steps[i] \in {"running", "insert", "succeeded"} => InTx(s, i)
         /\ steps[i] = "commit" =>
              i = Len(steps) /\ i > 1 /\ steps[i - 1] = "succeeded"
         /\ steps[i] # "build"

\* A script that rewrites rows and exports them reads and exports them first,
\* with their tables locked.
ASSUME ExportsComeFirst ==
  \A s \in Scripts : LET steps == Script[s].steps IN
    (Script[s].rewrites /\ \E e \in DOMAIN steps : steps[e] = "export") =>
      \A i \in DOMAIN steps :
        /\ steps[i] = "sql" => FixedBy(s, i)
        /\ \A j \in i + 1 .. Len(steps) :
             /\ steps[i] = "export" => steps[j] \notin Reading
             /\ steps[i] = "sql" => steps[j] # "export"
=============================================================================
