----------------------------- MODULE RestoreJob ------------------------------
(***************************************************************************)
(* One restore of a portable package into a new organization: the          *)
(* RestoreJob row, the package staged in the object store, the task that   *)
(* carries it, and what restore_package leaves behind                      *)
(* (exports/services.py, exports/tasks.py, exports/restorer.py).           *)
(*                                                                         *)
(* restore_package works in two transactions, one on the "default"         *)
(* connection (organization and catalog) and one, nested in it, on the     *)
(* "tenant" connection (schemas and rows); they commit one after the       *)
(* other.  Uploaded file objects belong to neither.  Operators named X_Y   *)
(* are faulty variants of X that the properties are checked against.       *)
(***************************************************************************)
EXTENDS Naturals, FiniteSets

CONSTANTS
  MaxRetries,        \* max_retries of the task
  RetryReportsExc,   \* does Celery's retry(exc=e) re-raise e once exhausted?
  Faults             \* which faults the environment may produce

FaultKinds ==
  { "tenant",           \* a statement or commit on the tenant connection fails
    "control",          \* the same on the control database
    "storage",          \* a call to the object store fails
    "unacknowledged",   \* a commit fails after taking effect
    "broker",           \* the task, or its retry, cannot be published
    "kill" }            \* the worker process dies

ASSUME RestoreAssumption ==
  /\ MaxRetries \in Nat /\ RetryReportsExc \in BOOLEAN
  /\ Faults \subseteq FaultKinds

VARIABLES
  package,   \* is the uploaded package valid?
  status,    \* RestoreJob.status; "none" before it is created
  org,       \* RestoreJob.organization: the attempt that made it; 0 if NULL
  staged,    \* is the package in the object store?
  orgs,      \* the attempts whose default transaction is committed
  schemas,   \* the attempts whose tenant transaction is committed
  objects,   \* the attempts that uploaded file objects
  task,      \* the Celery message
  retries,   \* its request.retries
  pc,        \* where stage_restore_upload or run_restore stands
  occurred   \* the kinds of fault that have occurred so far

vars == <<package, status, org, staged, orgs, schemas, objects, task, retries, pc, occurred>>
stores == <<orgs, schemas, objects>>

Attempts == 1..(MaxRetries + 1)
attempt == retries + 1

Suffer(kind) == kind \in Faults /\ occurred' = occurred \cup {kind}
Fine == UNCHANGED occurred

-----------------------------------------------------------------------------
Init ==
  /\ package \in {"valid", "invalid"}
  /\ status = "none" /\ org = 0 /\ staged = FALSE
  /\ orgs = {} /\ schemas = {} /\ objects = {}
  /\ task = "unsent" /\ retries = 0 /\ pc = "create"
  /\ occurred = {}

(***************************************************************************)
(* stage_restore_upload: create the row, put the package, note its key in  *)
(* the row, send the task.  A failure leaves what was done so far.         *)
(***************************************************************************)
CreateJob ==
  /\ pc = "create"
  /\ status' = "pending" /\ pc' = "stage"
  /\ UNCHANGED <<package, org, staged, stores, task, retries, occurred>>

Stage ==
  /\ pc = "stage"
  /\ staged' = TRUE /\ pc' = "note"
  /\ UNCHANGED <<package, status, org, stores, task, retries, occurred>>

NoteKey ==
  /\ pc = "note"
  /\ pc' = "send"
  /\ UNCHANGED <<package, status, org, staged, stores, task, retries, occurred>>

Enqueue ==
  /\ pc = "send"
  /\ task' = "queued" /\ pc' = "idle"
  /\ UNCHANGED <<package, status, org, staged, stores, retries, occurred>>

StagingFails ==
  /\ \/ pc \in {"create", "note"} /\ Suffer("control")
     \/ pc = "stage" /\ Suffer("storage")
     \/ pc = "send" /\ Suffer("broker")
  /\ task' = "lost" /\ pc' = "idle"
  /\ UNCHANGED <<package, status, org, staged, stores, retries>>

-----------------------------------------------------------------------------
(***************************************************************************)
(* run_restore, before its try: mark VALIDATING, fetch the package.        *)
(***************************************************************************)
Begin ==
  /\ task = "queued"
  /\ task' = "running" /\ pc' = "fetch"
  /\ status' = "validating"
  /\ UNCHANGED <<package, org, staged, stores, retries, occurred>>

BeginFails ==
  /\ Suffer("control")
  /\ task = "queued"
  /\ task' = "running" /\ pc' = "retry"
  /\ UNCHANGED <<package, status, org, staged, stores, retries>>

Fetch ==
  /\ pc = "fetch" /\ staged
  /\ pc' = "open"
  /\ UNCHANGED <<package, status, org, staged, stores, task, retries, occurred>>

FetchFails ==
  /\ pc = "fetch"
  /\ (~staged /\ Fine) \/ Suffer("storage")
  /\ pc' = "retry"
  /\ UNCHANGED <<package, status, org, staged, stores, task, retries>>

(***************************************************************************)
(* Inside the try: open_package and verify_checksums, mark RESTORING,      *)
(* restore_package.                                                        *)
(***************************************************************************)
Open ==
  /\ pc = "open" /\ package = "valid"
  /\ status' = "restoring" /\ pc' = "build"
  /\ UNCHANGED <<package, org, staged, stores, task, retries, occurred>>

OpenFails ==
  /\ pc = "open"
  /\ (package = "invalid" /\ Fine) \/ Suffer("control")
  /\ pc' = "handler"
  /\ UNCHANGED <<package, status, org, staged, stores, task, retries>>

\* The body of restore_package; whether the package holds files is open.
Build ==
  /\ pc = "build"
  /\ objects' \in {objects, objects \cup {attempt}}
  /\ pc' = "commit1"
  /\ UNCHANGED <<package, status, org, staged, orgs, schemas, task, retries, occurred>>

BuildFails_Autocommit ==
  /\ pc = "build"
  /\ \E kind \in {"tenant", "control", "storage"} : Suffer(kind)
  /\ schemas' = schemas \cup {attempt}
  /\ pc' = "handler"
  /\ UNCHANGED <<package, status, org, staged, orgs, objects, task, retries>>
\* Any failure in it rolls both transactions back, but not the objects.
BuildFails ==
  /\ pc = "build"
  /\ \E kind \in {"tenant", "control", "storage"} : Suffer(kind)
  /\ objects' \in {objects, objects \cup {attempt}}
  /\ pc' = "handler"
  /\ UNCHANGED <<package, status, org, staged, orgs, schemas, task, retries>>

\* "with atomic(default), atomic(tenant)": the inner block is left first.
Connection_DefaultFirst(stage) == IF stage = "commit1" THEN "default" ELSE "tenant"
Connection(stage) == IF stage = "commit1" THEN "tenant" ELSE "default"

Committing == pc \in {"commit1", "commit2"}

TakeEffect ==
  IF Connection(pc) = "tenant"
  THEN schemas' = schemas \cup {attempt} /\ UNCHANGED orgs
  ELSE orgs' = orgs \cup {attempt} /\ UNCHANGED schemas

Commit ==
  /\ Committing
  /\ TakeEffect
  /\ \/ Fine /\ pc' = IF pc = "commit1" THEN "commit2" ELSE "cleanup_ok"
     \/ Suffer("unacknowledged") /\ pc' = "handler"
  /\ UNCHANGED <<package, status, org, staged, objects, task, retries>>

CommitFails ==
  /\ Committing
  /\ \/ Connection(pc) = "tenant" /\ Suffer("tenant")
     \/ Connection(pc) = "default" /\ Suffer("control")
  /\ pc' = "handler"
  /\ UNCHANGED <<package, status, org, staged, stores, task, retries>>

-----------------------------------------------------------------------------
(***************************************************************************)
(* The except clause, the finally clause and what follows it.              *)
(***************************************************************************)
MarkFailed ==
  /\ pc = "handler"
  /\ \/ Fine /\ status' = "failed"
     \/ Suffer("control") /\ UNCHANGED status
  /\ pc' = "cleanup_failed"
  /\ UNCHANGED <<package, org, staged, stores, task, retries>>

\* Both ends of the try delete the staged package; a failure is swallowed.
StagedAfterCleanup == FALSE

Cleanup ==
  /\ pc \in {"cleanup_ok", "cleanup_failed"}
  /\ \/ Fine /\ staged' = StagedAfterCleanup
     \/ Suffer("storage") /\ UNCHANGED staged
  /\ pc' = IF pc = "cleanup_ok" THEN "finish" ELSE "retry"
  /\ UNCHANGED <<package, status, org, stores, task, retries>>

Outcome == attempt

Finish ==
  /\ pc = "finish"
  /\ status' = "completed" /\ org' = Outcome
  /\ \/ Fine /\ pc' = "audit"
     \/ Suffer("unacknowledged") /\ pc' = "retry"
  /\ UNCHANGED <<package, staged, stores, task, retries>>

FinishFails ==
  /\ Suffer("control")
  /\ pc = "finish"
  /\ pc' = "retry"
  /\ UNCHANGED <<package, status, org, staged, stores, task, retries>>

\* The audit event of a success is written inside the task as well.
Audit ==
  /\ pc = "audit"
  /\ \/ Fine /\ task' = "done" /\ pc' = "idle"
     \/ Suffer("control") /\ pc' = "retry" /\ UNCHANGED task
  /\ UNCHANGED <<package, status, org, staged, stores, retries>>

-----------------------------------------------------------------------------
(***************************************************************************)
(* run_restore_task's except clause and Celery's retry.                    *)
(***************************************************************************)
RetriesLeft == retries < MaxRetries

Counted_Lost == retries
Counted == retries + 1

Retry ==
  /\ pc = "retry" /\ RetriesLeft
  /\ pc' = "idle"
  /\ \/ Fine /\ task' = "queued" /\ retries' = Counted
     \/ Suffer("broker") /\ task' = "lost" /\ UNCHANGED retries
  /\ UNCHANGED <<package, status, org, staged, stores>>

\* MaxRetriesExceededError is caught to mark the job FAILED, but retry() was
\* given exc=, and Celery then raises that exception instead.
ExhaustedStatus == IF RetryReportsExc THEN status ELSE "failed"

Exhausted ==
  /\ pc = "retry" /\ retries >= MaxRetries
  /\ \/ Fine /\ status' = ExhaustedStatus
     \/ Suffer("control") /\ UNCHANGED status
  /\ task' = "done" /\ pc' = "idle"
  /\ UNCHANGED <<package, org, staged, stores, retries>>

WorkerKilled ==
  /\ Suffer("kill")
  /\ task = "running"
  /\ task' = "lost" /\ pc' = "idle"
  /\ UNCHANGED <<package, status, org, staged, stores, retries>>

Ended == task \in {"done", "lost"} /\ UNCHANGED vars

-----------------------------------------------------------------------------
Request == CreateJob \/ Stage \/ NoteKey \/ Enqueue

Worker ==
  \/ Begin \/ Fetch \/ Open \/ Build \/ Commit
  \/ MarkFailed \/ Cleanup \/ Finish \/ Audit \/ Retry \/ Exhausted
  \* what an invalid package and a missing one lead to is not a fault
  \/ OpenFails \/ FetchFails

Fault == StagingFails \/ BeginFails \/ BuildFails \/ CommitFails \/ FinishFails \/ WorkerKilled

Next == Request \/ Worker \/ Fault \/ Ended

Spec == Init /\ [][Next]_vars

\* A request runs to its end and a live worker executes what is queued;
\* nothing forces a fault.
FairSpec == Spec /\ WF_vars(Request) /\ WF_vars(Worker)

-----------------------------------------------------------------------------
(***************************************************************************)
(* Properties.                                                             *)
(***************************************************************************)

\* The values each variable takes; retries stay within max_retries.
TypeOK ==
  /\ package \in {"valid", "invalid"}
  /\ status \in {"none", "pending", "validating", "restoring", "completed", "failed"}
  /\ org \in {0} \cup Attempts
  /\ staged \in BOOLEAN
  /\ orgs \in SUBSET Attempts /\ schemas \in SUBSET Attempts /\ objects \in SUBSET Attempts
  /\ task \in {"unsent", "queued", "running", "done", "lost"}
  /\ retries \in 0..MaxRetries /\ occurred \in SUBSET Faults
  /\ pc \in {"create", "stage", "note", "send", "idle", "fetch", "open", "build", "commit1",
             "commit2", "handler", "cleanup_ok", "cleanup_failed", "finish", "audit", "retry"}

\* A restored organization that users can see has all its schemas and rows:
\* the catalog is never committed without them (restore_package's nesting).
CatalogIsBacked == orgs \subseteq schemas

\* Schemas without an organization are those of a restore between its two
\* commits, or are left by the one failure restore_package cannot undo: the
\* tenant commit took effect and what followed it did not.
SchemasAccounted ==
  \A a \in schemas \ orgs :
    \/ a = attempt /\ pc = "commit2"
    \/ occurred \cap {"control", "unacknowledged", "kill"} # {}

\* A COMPLETED job names an organization that was committed, by an attempt
\* that restored a valid package (the last save of run_restore).
CompletedIsRestored == status = "completed" => org \in orgs /\ package = "valid"

ControlAnswered == occurred \cap {"control", "unacknowledged"} = {}

\* Retries never restore the package a second time, unless both databases of the
\* job fail: what was restored has had its staged package deleted (finally) while
\* the object store answers, and is COMPLETED while the control database does.
OneOrganization ==
  "storage" \notin occurred \/ ControlAnswered => Cardinality(orgs) <= 1

\* While the control database answers, a FAILED job has left neither an
\* organization nor a schema (exports/models.py, RestoreJob).
FailedMeansNothing ==
  ControlAnswered /\ status = "failed" => orgs = {} /\ schemas = {}

\* Under a live worker, a job that was sent comes to an end, whatever its
\* package: COMPLETED, FAILED or with its retries used up (run_restore_task),
\* unless its message is lost or the control database fails.
RestoreEnds ==
  task = "queued" ~>
    \/ task = "done" /\ (status \in {"completed", "failed"} \/ retries = MaxRetries)
    \/ task = "lost" \/ "control" \in occurred

\* What a restore leaves in its stores agrees with what its job says
\* (run_restore, restore_package): the parts above, under every fault.
StoresAgree ==
  /\ TypeOK /\ CatalogIsBacked /\ SchemasAccounted /\ CompletedIsRestored
  /\ FailedMeansNothing /\ OneOrganization

-----------------------------------------------------------------------------
(***************************************************************************)
(* The promise to users.  An organization is whole when its schemas are    *)
(* committed; every status but COMPLETED and FAILED is one of a restore    *)
(* under way.                                                              *)
(***************************************************************************)
Promise == INSTANCE RestorePromise WITH
  Organizations <- [id : Attempts, whole : {TRUE}],
  visible <- {[id |-> a, whole |-> a \in schemas] : a \in orgs},
  verdict <- IF status \in {"completed", "failed"} THEN status ELSE "open"

\* As long as the control database answers and acknowledges, every step of a
\* restore is one that its users were promised, whatever else fails
\* (run_restore, restore_package, run_restore_task).
PromiseKept ==
  /\ Promise!Init
  /\ [][ControlAnswered' => [Promise!Next]_(Promise!promiseVars)]_vars

=============================================================================
