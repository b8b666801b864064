------------------------------ MODULE ImportJobs ------------------------------
(***************************************************************************)
(* Asynchronous partner imports of one process: the uploaded file, the     *)
(* bounded in-process queue, its gate, and the gate around the workbook    *)
(* parser, which synchronous imports pass too                              *)
(* (booking-partner-import-jobs.service.ts, in-process-job-queue.ts,       *)
(* async-semaphore.ts, booking-partner-import.service.ts).                 *)
(***************************************************************************)
EXTENDS Naturals, FiniteSets, Sequences

CONSTANTS
  JobIds,           \* jobs a behaviour may enqueue, 1 .. n in this order
  Callers,          \* synchronous imports at one time
  QueueConcurrency, \* QUEUE_CONCURRENCY
  ParseConcurrency, \* BOOKING_PARTNER_IMPORT_PARSE_CONCURRENCY
  MaxPending,       \* QUEUE_MAX_PENDING
  KeepTerminal      \* ended jobs whose record is kept

ASSUME QueueAssumption ==
  /\ JobIds \subseteq Nat \ {0}
  /\ QueueConcurrency \in Nat \ {0} /\ ParseConcurrency \in Nat \ {0}
  /\ MaxPending \in Nat \ {0} /\ KeepTerminal \in Nat \ {0}

VARIABLES
  job,    \* [JobIds -> [pc, status]]: its step, and its record in the map
  file,   \* [JobIds -> the uploaded file is in the job directory]
  caller, \* [Callers -> step of a synchronous import]
  queueGate, parseGate  \* AsyncSemaphores

jobVars == <<job, file, caller, queueGate, parseGate>>

Statuses == {"none", "queued", "active", "completed", "failed", "pruned"}
Ended == {"completed", "failed"}

JobsInit ==
  /\ job = [j \in JobIds |-> [pc |-> "none", status |-> "none"]]
  /\ file = [j \in JobIds |-> FALSE]
  /\ caller = [c \in Callers |-> "idle"]
  /\ queueGate = [active |-> 0, waiters |-> <<>>]
  /\ parseGate = [active |-> 0, waiters |-> <<>>]

-----------------------------------------------------------------------------
(* AsyncSemaphore                                                          *)

HasSlot(gate, capacity) == gate.active < capacity
Entered(gate) == [gate EXCEPT !.active = @ + 1]
Lined(gate, who) == [gate EXCEPT !.waiters = Append(@, who)]

\* The first waiter takes the slot over.
Released(gate) ==
  IF gate.waiters = <<>> THEN [gate EXCEPT !.active = @ - 1]
  ELSE [gate EXCEPT !.waiters = Tail(@)]

\* Mutant of Following: the waiter leaves the line and is not woken.
NobodyFollows(gate) == {}

\* Whom a release lets in.
Following(gate) == IF gate.waiters = <<>> THEN {} ELSE {Head(gate.waiters)}

-----------------------------------------------------------------------------
(* InProcessJobQueue                                                       *)

InState(states) == {j \in JobIds : job[j].status \in states}
Waiting == InState({"queued", "active"})

\* pruneTerminalJobs: of the ended jobs those enqueued last are kept, and any
\* of them may have reached its TTL.
Pruned(records) ==
  LET ended == {j \in JobIds : records[j].status \in Ended}
      late(j) == Cardinality({i \in ended : i > j}) >= KeepTerminal
  IN [j \in JobIds |-> IF j \in ended /\ late(j)
                       THEN [records[j] EXCEPT !.status = "pruned"]
                       ELSE records[j]]

\* persistBuffer: the upload is written to the job directory.
Persist(j) ==
  /\ job[j].pc = "none" /\ \A i \in JobIds : i < j => job[i].pc # "none"
  /\ file' = [file EXCEPT ![j] = TRUE]
  /\ job' = [job EXCEPT ![j].pc = "persisted"]
  /\ UNCHANGED <<caller, queueGate, parseGate>>

\* enqueue: a full queue refuses; otherwise process(id) asks the gate at once.
Enqueue(j) ==
  /\ job[j].pc = "persisted"
  /\ IF Cardinality(Waiting) >= MaxPending
     THEN job' = [job EXCEPT ![j].pc = "refused"] /\ UNCHANGED queueGate
     ELSE IF HasSlot(queueGate, QueueConcurrency)
     THEN /\ job' = [job EXCEPT ![j] = [pc |-> "read", status |-> "active"]]
          /\ queueGate' = Entered(queueGate)
     ELSE /\ job' = [job EXCEPT ![j] = [pc |-> "gate", status |-> "queued"]]
          /\ queueGate' = Lined(queueGate, j)
  /\ UNCHANGED <<file, caller, parseGate>>

\* A refused upload is removed again.
Discard(j) ==
  /\ job[j].pc = "refused"
  /\ file' = [file EXCEPT ![j] = FALSE]
  /\ job' = [job EXCEPT ![j].pc = "answered"]
  /\ UNCHANGED <<caller, queueGate, parseGate>>

\* The handler reads the file and asks the parser's gate.
ReadFile(j) ==
  /\ job[j].pc = "read"
  /\ IF ~file[j]
     THEN job' = [job EXCEPT ![j].pc = "throw"] /\ UNCHANGED parseGate
     ELSE IF HasSlot(parseGate, ParseConcurrency)
     THEN /\ job' = [job EXCEPT ![j].pc = "parse"]
          /\ parseGate' = Entered(parseGate)
     ELSE /\ job' = [job EXCEPT ![j].pc = "parser"]
          /\ parseGate' = Lined(parseGate, j)
  /\ UNCHANGED <<file, caller, queueGate>>

\* Whoever waits at the parser's gate is let in.
Admitted(jobs) == [j \in JobIds |-> IF j \in Following(parseGate)
                                    THEN [jobs[j] EXCEPT !.pc = "parse"] ELSE jobs[j]]
AdmittedCallers(callers) ==
  [c \in Callers |-> IF c \in Following(parseGate) THEN "parse" ELSE callers[c]]

\* The parse ends, and the gate is released either way; what follows is the
\* preview or the import itself, which may also fail.
Parsed(j) ==
  /\ job[j].pc = "parse"
  /\ \E pc \in {"work", "throw"} : job' = Admitted([job EXCEPT ![j].pc = pc])
  /\ parseGate' = Released(parseGate)
  /\ caller' = AdmittedCallers(caller)
  /\ UNCHANGED <<file, queueGate>>

Work(j) ==
  /\ job[j].pc = "work"
  /\ \E pc \in {"return", "throw"} : job' = [job EXCEPT ![j].pc = pc]
  /\ UNCHANGED <<file, caller, queueGate, parseGate>>

\* finally: the file is removed.
Unlink(j) ==
  /\ job[j].pc \in {"return", "throw"} /\ file[j]
  /\ file' = [file EXCEPT ![j] = FALSE]
  /\ UNCHANGED <<job, caller, queueGate, parseGate>>

\* The outcome is recorded, old records are pruned, and the gate is released:
\* the next job becomes active.
Report(j) ==
  LET status == IF job[j].pc = "return" THEN "completed" ELSE "failed"
      recorded == Pruned([job EXCEPT ![j] = [pc |-> "done", status |-> status]])
  IN /\ job[j].pc \in {"return", "throw"} /\ ~file[j]
     /\ job' = [i \in JobIds |-> IF i \in Following(queueGate)
                  THEN [pc |-> "read", status |-> "active"] ELSE recorded[i]]
     /\ queueGate' = Released(queueGate)
     /\ UNCHANGED <<file, caller, parseGate>>

-----------------------------------------------------------------------------
(* Synchronous imports                                                     *)

Call(c) ==
  /\ caller[c] = "idle"
  /\ IF HasSlot(parseGate, ParseConcurrency)
     THEN /\ caller' = [caller EXCEPT ![c] = "parse"]
          /\ parseGate' = Entered(parseGate)
     ELSE /\ caller' = [caller EXCEPT ![c] = "parser"]
          /\ parseGate' = Lined(parseGate, c)
  /\ UNCHANGED <<job, file, queueGate>>

Return(c) ==
  /\ caller[c] = "parse"
  /\ caller' = AdmittedCallers([caller EXCEPT ![c] = "idle"])
  /\ job' = Admitted(job)
  /\ parseGate' = Released(parseGate)
  /\ UNCHANGED <<file, queueGate>>

JobStep(j) ==
  \/ Enqueue(j) \/ Discard(j) \/ ReadFile(j) \/ Parsed(j) \/ Work(j)
  \/ Unlink(j) \/ Report(j)

JobsNext ==
  \/ \E j \in JobIds : Persist(j) \/ JobStep(j)
  \/ \E c \in Callers : Call(c) \/ Return(c)

\* Promises settle: a parse, an import and a file operation come to an end.
JobsFairness ==
  /\ \A j \in JobIds : WF_jobVars(JobStep(j))
  /\ \A c \in Callers : WF_jobVars(Return(c))

JobsSpec == JobsInit /\ [][JobsNext]_jobVars /\ JobsFairness

-----------------------------------------------------------------------------
\* Every upload ends: it is refused, or its job completes or fails, and its
\* file is removed, although jobs hold one gate while they wait at another.
ImportsEnd ==
  \A j \in JobIds :
    job[j].pc = "persisted" ~> (job[j].pc \in {"answered", "done"} /\ ~file[j])
=============================================================================
