------------------------------ MODULE ImportJob ------------------------------
(***************************************************************************)
(* One CSV import: the ImportJob row, the tenant table it fills, the       *)
(* Celery task that carries it and the worker executing run_import         *)
(* (imports/services.py, imports/tasks.py).                                *)
(*                                                                         *)
(* Three stores commit separately: every row on the "tenant" connection,   *)
(* every field update of the job on the "default" (control) connection,    *)
(* and the error rows in a further statement on "default".  A fault can    *)
(* fall between any two of these commits.  Operators named X_Y are faulty  *)
(* variants of X that the properties are checked against.                  *)
(***************************************************************************)
EXTENDS Naturals, FiniteSets

CONSTANTS
  NumRows,           \* rows of the CSV file
  ChunkRows,         \* CHUNK_ROWS
  MaxStoredErrors,   \* MAX_STORED_ERRORS
  MaxRetries,        \* max_retries of the task
  RetryReportsExc,   \* does Celery's retry(exc=e) re-raise e once exhausted?
  Faults             \* which faults the environment may produce

FaultKinds ==
  { "tenant",     \* the tenant connection (or the CSV stream) breaks
    "ambiguous",  \* the tenant connection breaks after a row's commit
    "control",    \* a statement on the control database fails
    "unacknowledged",  \* it takes effect, and its client sees an error
    "broker",     \* the task, or its retry, cannot be published
    "kill" }      \* the worker process dies (out of memory, hard time limit)

ASSUME BoundsAssumption ==
  /\ NumRows \in Nat /\ ChunkRows \in Nat \ {0}
  /\ MaxStoredErrors \in Nat /\ MaxRetries \in Nat
ASSUME SwitchAssumption ==
  RetryReportsExc \in BOOLEAN /\ Faults \subseteq FaultKinds

Rows == 1..NumRows

VARIABLES
  bad,      \* the rows that conversion or a table constraint rejects
  unique,   \* the rows with a value for a UNIQUE column: never twice in the table
  again,    \* history: rows refused because an earlier attempt inserted them
  job,      \* the ImportJob row
  errors,   \* row number -> how many ImportJobError rows it has
  copies,   \* row number -> how many times the tenant table holds it
  task,     \* the Celery message
  retries,  \* its request.retries
  pc,       \* where run_import stands, and in which of its _checkpoint calls
  run       \* run_import's locals: imported, rejected, last_completed_row,
            \* pending_errors

vars == <<bad, unique, again, job, errors, copies, task, retries, pc, run>>

given == <<bad, unique>>   \* the file and the table as the job finds them

Counter == 0..NumRows

Good(n)   == {r \in 1..n : r \notin bad \cup again}
Failed(n) == {r \in 1..n : r \in bad \cup again}

-----------------------------------------------------------------------------
Init ==
  /\ bad \in SUBSET Rows /\ unique \in SUBSET (Rows \ bad) /\ again = {}
  /\ job = [status |-> "none", imported |-> 0, rejected |-> 0, last |-> 0,
            total |-> 0]
  /\ errors = [r \in Rows |-> 0]
  /\ copies = [r \in Rows |-> 0]
  /\ task = "none" /\ retries = 0 /\ pc = "idle"
  /\ run = [imported |-> 0, rejected |-> 0, last |-> 0, pending |-> {}]

(***************************************************************************)
(* start_import: the row is created (autocommit), then the task is sent.   *)
(***************************************************************************)
CreateJob ==
  /\ job.status = "none"
  /\ job' = [job EXCEPT !.status = "pending"]
  /\ task' = "unsent"
  /\ UNCHANGED <<given, again, errors, copies, retries, pc, run>>

Enqueue ==
  /\ task = "unsent"
  /\ \/ task' = "queued"
     \/ "broker" \in Faults /\ task' = "lost"
  /\ UNCHANGED <<given, again, job, errors, copies, retries, pc, run>>

(***************************************************************************)
(* The head of run_import: mark RUNNING, reload the counters, open the     *)
(* stream.  Skipping the rows up to last_processed_row changes nothing, so *)
(* the loop is entered at the row after it.                                *)
(***************************************************************************)
ResumePoint_NoSkip ==
  [imported |-> 0, rejected |-> 0, last |-> 0, pending |-> {}]
ResumePoint_CounterRestarts ==
  [imported |-> 0, rejected |-> job.rejected, last |-> job.last, pending |-> {}]
ResumePoint ==
  [imported |-> job.imported, rejected |-> job.rejected, last |-> job.last,
   pending |-> {}]

Start ==
  /\ task = "queued"
  /\ task' = "running" /\ pc' = "rows"
  /\ job' = [job EXCEPT !.status = "running"]
  /\ run' = ResumePoint
  /\ UNCHANGED <<given, again, errors, copies, retries>>

\* The job cannot be marked RUNNING, or it is and the stream does not open: no
\* handler checkpoints.
StartFails ==
  /\ task = "queued"
  /\ task' = "running" /\ pc' = "retry"
  /\ \/ "control" \in Faults /\ job' = job
     \/ /\ Faults \cap {"tenant", "unacknowledged"} # {}
        /\ job' = [job EXCEPT !.status = "running"]
  /\ UNCHANGED <<given, again, errors, copies, retries, run>>

-----------------------------------------------------------------------------
(***************************************************************************)
(* The row loop.                                                           *)
(***************************************************************************)

\* What follows a settled row: every CHUNK_ROWS rows, a checkpoint.
AfterRow(r) == pc' = IF r % ChunkRows = 0 THEN "save_loop" ELSE pc

AtRow(r) == pc = "rows" /\ r = run.last + 1 /\ r \in Rows

\* A UNIQUE constraint refuses what is in the table already.
Accepted(r) == r \notin bad /\ (r \in unique => copies[r] = 0)

ImportRow(r) ==
  /\ AtRow(r) /\ Accepted(r)
  /\ copies' = [copies EXCEPT ![r] = @ + 1]
  /\ run' = [run EXCEPT !.imported = @ + 1, !.last = r]
  /\ AfterRow(r)
  /\ UNCHANGED <<given, again, job, errors, task, retries>>

RejectRow(r) ==
  /\ AtRow(r) /\ ~Accepted(r)
  /\ again' = IF r \in bad THEN again ELSE again \cup {r}
  /\ run' = [run EXCEPT !.rejected = @ + 1, !.last = r,
               !.pending = IF Cardinality(@) < MaxStoredErrors
                           THEN @ \cup {r} ELSE @]
  /\ AfterRow(r)
  /\ UNCHANGED <<given, job, errors, copies, task, retries>>

\* OperationalError / InterfaceError on a row, or a broken stream: the outer
\* handler checkpoints and re-raises.
ConnectionLost ==
  /\ "tenant" \in Faults
  /\ pc = "rows"
  /\ pc' = "save_handler"
  /\ UNCHANGED <<given, again, job, errors, copies, task, retries, run>>

\* The same, but the server had committed the row before the connection broke.
RowCommitUnacknowledged(r) ==
  /\ "ambiguous" \in Faults
  /\ AtRow(r) /\ Accepted(r)
  /\ copies' = [copies EXCEPT ![r] = @ + 1]
  /\ pc' = "save_handler"
  /\ UNCHANGED <<given, again, job, errors, task, retries, run>>

FileRead == run.last >= NumRows

EndOfFile ==
  /\ pc = "rows" /\ FileRead
  /\ pc' = "save_final"
  /\ UNCHANGED <<given, again, job, errors, copies, task, retries, run>>

-----------------------------------------------------------------------------
(***************************************************************************)
(* _checkpoint: one UPDATE of the three counters, then, if there are any,  *)
(* one bulk INSERT of the pending errors.  It is called from the loop,     *)
(* from the handler and at the end of the file.                            *)
(***************************************************************************)
Saving  == {"save_loop", "save_handler", "save_final"}
Storing == {"errors_loop", "errors_handler", "errors_final"}

StoringAfter(p) == CASE p = "save_loop"    -> "errors_loop"
                     [] p = "save_handler" -> "errors_handler"
                     [] OTHER              -> "errors_final"

\* Where each caller continues; the loop also empties pending_errors.
InLoop(p) == p \in {"save_loop", "errors_loop"}
AfterCheckpoint ==
  /\ pc' = CASE InLoop(pc) -> "rows"
             [] pc \in {"save_handler", "errors_handler"} -> "retry"
             [] OTHER -> "complete"
  /\ run' = IF InLoop(pc) THEN [run EXCEPT !.pending = {}] ELSE run

\* The row a checkpoint records: the last one whose outcome is known, not the
\* one the loop variable row_number stands on.
CheckpointRow_InProgress == IF run.last < NumRows THEN run.last + 1 ELSE run.last
CheckpointRow == run.last

Progressed == [job EXCEPT !.imported = run.imported, !.rejected = run.rejected,
                          !.last = CheckpointRow]
ErrorsStored == [r \in Rows |-> errors[r] + IF r \in run.pending THEN 1 ELSE 0]

SaveProgress ==
  /\ pc \in Saving
  /\ job' = Progressed
  /\ IF run.pending = {} THEN AfterCheckpoint
     ELSE pc' = StoringAfter(pc) /\ run' = run
  /\ UNCHANGED <<given, again, errors, copies, task, retries>>

SaveErrors ==
  /\ pc \in Storing
  /\ errors' = ErrorsStored
  /\ AfterCheckpoint
  /\ UNCHANGED <<given, again, job, copies, task, retries>>

\* Either statement fails, or seems to.  Inside the loop the handler checkpoints
\* once more; in the handler and after the loop the exception leaves run_import.
CheckpointFails ==
  /\ pc \in Saving \cup Storing
  /\ \/ "control" \in Faults /\ UNCHANGED <<job, errors>>
     \/ /\ "unacknowledged" \in Faults
        /\ IF pc \in Saving THEN job' = Progressed /\ errors' = errors
           ELSE job' = job /\ errors' = ErrorsStored
  /\ pc' = IF InLoop(pc) THEN "save_handler" ELSE "retry"
  /\ UNCHANGED <<given, again, copies, task, retries, run>>

\* The last save of run_import.
Completed == [job EXCEPT !.total = NumRows, !.status = "completed"]

Complete ==
  /\ pc = "complete"
  /\ job' = Completed
  /\ task' = "done" /\ pc' = "idle"
  /\ UNCHANGED <<given, again, errors, copies, retries, run>>

CompleteFails ==
  /\ pc = "complete"
  /\ \/ "control" \in Faults /\ job' = job
     \/ "unacknowledged" \in Faults /\ job' = Completed
  /\ pc' = "retry"
  /\ UNCHANGED <<given, again, errors, copies, task, retries, run>>

-----------------------------------------------------------------------------
(***************************************************************************)
(* run_import_task's except clause and Celery's retry.                     *)
(***************************************************************************)
RetriesLeft == retries < MaxRetries

Attempts_Lost == retries
Attempts == retries + 1

Retry ==
  /\ pc = "retry" /\ RetriesLeft
  /\ pc' = "idle"
  /\ \/ task' = "queued" /\ retries' = Attempts
     \/ "broker" \in Faults /\ task' = "lost" /\ UNCHANGED retries
  /\ UNCHANGED <<given, again, job, errors, copies, run>>

\* Retries are exhausted.  Celery raises MaxRetriesExceededError, which the
\* task catches to mark the job FAILED -- unless retry() was given exc=, as
\* it is here, in which case Celery raises that exception instead.
ExhaustedStatus == IF RetryReportsExc THEN job.status ELSE "failed"

Exhausted ==
  /\ pc = "retry" /\ retries >= MaxRetries
  /\ \/ job' = [job EXCEPT !.status = ExhaustedStatus]
     \/ "control" \in Faults /\ job' = job
  /\ task' = "done" /\ pc' = "idle"
  /\ UNCHANGED <<given, again, errors, copies, retries, run>>

\* A message is acknowledged when it is delivered, so a task whose worker
\* dies is not delivered again.
WorkerKilled ==
  /\ "kill" \in Faults
  /\ task = "running"
  /\ task' = "lost" /\ pc' = "idle"
  /\ UNCHANGED <<given, again, job, errors, copies, retries, run>>

\* Nothing is left to do: the task ended or was lost.
Ended == task \in {"done", "lost"} /\ UNCHANGED vars

-----------------------------------------------------------------------------
Worker ==
  \/ Start \/ EndOfFile \/ SaveProgress \/ SaveErrors \/ Complete
  \/ Retry \/ Exhausted
  \/ \E r \in Rows : ImportRow(r) \/ RejectRow(r)

Fault ==
  \/ StartFails \/ CheckpointFails \/ CompleteFails
  \/ WorkerKilled \/ ConnectionLost
  \/ \E r \in Rows : RowCommitUnacknowledged(r)

Next == CreateJob \/ Enqueue \/ Worker \/ Fault \/ Ended

Spec == Init /\ [][Next]_vars

\* A live Celery worker executes what is queued; nothing forces a fault.
FairSpec == Spec /\ WF_vars(CreateJob) /\ WF_vars(Enqueue) /\ WF_vars(Worker)

-----------------------------------------------------------------------------
(***************************************************************************)
(* Properties.                                                             *)
(***************************************************************************)

\* The values each variable takes; the counters stay within the file, the
\* retries within max_retries.
TypeOK ==
  /\ bad \in SUBSET Rows /\ unique \in SUBSET (Rows \ bad) /\ again \in SUBSET Rows
  /\ job \in [status : {"none", "pending", "running", "completed", "failed"},
              imported : Counter, rejected : Counter, last : Counter,
              total : Counter]
  /\ errors \in [Rows -> Nat] /\ copies \in [Rows -> Nat]
  /\ task \in {"none", "unsent", "queued", "running", "done", "lost"}
  /\ retries \in 0..MaxRetries
  /\ pc \in {"idle", "rows", "complete", "retry"} \cup Saving \cup Storing
  /\ run \in [imported : Counter, rejected : Counter, last : Counter,
              pending : SUBSET Rows]

\* No row is silently dropped: whatever fails and is retried, a row the job
\* records as processed and that was not rejected is in the tenant table
\* (the comment on last_completed_row in run_import).
NoRowSkipped ==
  \A r \in Rows : r <= job.last /\ r \notin bad => copies[r] >= 1

\* The counters a client polls always describe the same prefix of the file,
\* across checkpoints, failures and resumed attempts (_checkpoint).  What they
\* count as rejected is bad, or is in the table: a retry was refused a row that
\* an earlier attempt had inserted without recording it.
CountsAgree ==
  /\ job.imported = Cardinality(Good(job.last))
  /\ job.rejected = Cardinality(Failed(job.last))
  /\ \A r \in again : r \in unique /\ copies[r] = 1 /\ retries > 0

\* The error rows stored for the job: only for a rejected row already counted as
\* processed, and one for a row; two when the loop's bulk_create is not
\* acknowledged and the handler stores the same errors once more.
ErrorsOnce ==
  \A r \in Rows : errors[r] > 0 =>
    /\ r \in bad \cup again /\ r <= job.last
    /\ errors[r] <= IF "unacknowledged" \in Faults THEN 2 ELSE 1

\* A job shown as COMPLETED has settled every row of its file and reports
\* their number (the last lines of run_import).
CompletedMeansAll ==
  job.status = "completed" =>
    /\ job.last = NumRows /\ job.total = NumRows
    /\ job.imported + job.rejected = job.total

\* No attempt inserts a row twice, so even when commits go unacknowledged or
\* checkpoints fail, the copies of a row are bounded by the attempts, and a row
\* with a unique value is there once at most.
CopiesBounded ==
  \A r \in Rows : copies[r] <= IF r \in unique THEN 1 ELSE retries + 1

\* When only the tenant connection, the broker or the process fails, a
\* COMPLETED job explains each rejected row (ImportJobError).  MAX_STORED_ERRORS
\* never cuts the list: pending_errors is emptied every CHUNK_ROWS rows.
EveryRejectionExplained ==
  job.status = "completed" => \A r \in bad : errors[r] = 1

\* A task that has ended has left a final status on its job (run_import_task).
EndedJobIsSettled == task = "done" => job.status \in {"completed", "failed"}

\* Progress on record never goes back, and the results of a COMPLETED or FAILED
\* job are final.  Its status is too once the task has ended; before, only COMPLETED
\* is taken back, by a task whose save of it was not acknowledged (run_import).
ProgressIsKept ==
  [][/\ job'.last >= job.last
     /\ job.status \in {"completed", "failed"} =>
          /\ [job' EXCEPT !.status = job.status] = job
          /\ \/ job'.status = job.status
             \/ /\ job.status = "completed" /\ task \in {"queued", "running"}
                /\ "unacknowledged" \in Faults]_vars

\* Under a live worker, and while the control database answers, every job whose
\* message is not lost ends COMPLETED or FAILED, or has used up its retries
\* (run_import_task): it is not retried for ever.
JobEnds ==
  <>( \/ job.status \in {"completed", "failed"} \/ task = "lost"
      \/ task = "done" /\ retries = MaxRetries )

-----------------------------------------------------------------------------
\* What the job promises, without its process: RowLedger.
Ledger == INSTANCE RowLedger WITH
  table <- copies, published <- job.last,
  outcome <- IF job.status \in {"completed", "failed"} THEN job.status ELSE "open"

\* When no statement on the control database fails and no commit goes
\* unacknowledged, the job implements the ledger.
ImplementsLedger == Ledger!Spec
=============================================================================
