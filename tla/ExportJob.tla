------------------------------ MODULE ExportJob ------------------------------
(***************************************************************************)
(* One export of an organization: the ExportJob row, the package in the    *)
(* object store, the task that builds it, and a client downloading it      *)
(* (exports/services.py, exports/tasks.py).                                *)
(*                                                                         *)
(* The package's key is derived from the job, so a retried attempt writes  *)
(* over the package of an earlier one.  The content of an attempt is       *)
(* identified by its number; 0 stands for no content.  Operators named X_Y *)
(* are faulty variants of X that the properties are checked against.       *)
(***************************************************************************)
EXTENDS Naturals

CONSTANTS
  MaxRetries,        \* max_retries of the task
  RetryReportsExc,   \* does Celery's retry(exc=e) re-raise e once exhausted?
  Faults             \* which faults the environment may produce

FaultKinds ==
  { "build",            \* build_export fails (tenant data or object store)
    "control",          \* a statement on the control database fails
    "storage",          \* a put to the object store fails
    "unacknowledged",   \* a save or put fails after taking effect
    "broker",           \* the task, or its retry, cannot be published
    "kill" }            \* the worker process dies

ASSUME ExportAssumption ==
  /\ MaxRetries \in Nat /\ RetryReportsExc \in BOOLEAN
  /\ Faults \subseteq FaultKinds

VARIABLES
  status,     \* ExportJob.status; "none" before it is created
  sum,        \* its checksum_sha256
  object,     \* the content under the job's key in the object store
  task,       \* the Celery message
  retries,    \* its request.retries
  pc,         \* where run_export stands
  download,   \* a client: the job as it loaded it, and what it received
  occurred    \* the kinds of fault that have occurred so far

vars == <<status, sum, object, task, retries, pc, download, occurred>>

Contents == 0..(MaxRetries + 1)
attempt == retries + 1

Suffer(kinds) == kinds \subseteq Faults /\ occurred' = occurred \cup kinds
Fine == UNCHANGED occurred

Init ==
  /\ status = "none" /\ sum = 0 /\ object = 0
  /\ task = "unsent" /\ retries = 0 /\ pc = "idle"
  /\ download = [state |-> "none", sum |-> 0, body |-> 0]
  /\ occurred = {}

-----------------------------------------------------------------------------
(***************************************************************************)
(* start_export.                                                           *)
(***************************************************************************)
CreateJob ==
  /\ status = "none"
  /\ status' = "pending" /\ pc' = "send"
  /\ UNCHANGED <<sum, object, task, retries, download, occurred>>

Enqueue ==
  /\ pc = "send"
  /\ pc' = "idle"
  /\ \/ Fine /\ task' = "queued"
     \/ Suffer({"broker"}) /\ task' = "lost"
  /\ UNCHANGED <<status, sum, object, retries, download>>

-----------------------------------------------------------------------------
(***************************************************************************)
(* run_export.                                                             *)
(***************************************************************************)
Begin ==
  /\ task = "queued"
  /\ task' = "running" /\ pc' = "build"
  /\ status' = "running"
  /\ UNCHANGED <<sum, object, retries, download, occurred>>

BeginFails ==
  /\ Suffer({"control"})
  /\ task = "queued"
  /\ task' = "running" /\ pc' = "retry"
  /\ UNCHANGED <<status, sum, object, retries, download>>

Build ==
  /\ pc = "build"
  /\ pc' = "put"
  /\ UNCHANGED <<status, sum, object, task, retries, download, occurred>>

\* Only a failed build is recorded by run_export itself.
BuildFails ==
  /\ pc = "build"
  /\ \/ Suffer({"build"}) /\ status' = "failed"
     \/ Suffer({"build", "control"}) /\ UNCHANGED status
  /\ pc' = "retry"
  /\ UNCHANGED <<sum, object, task, retries, download>>

Put ==
  /\ pc = "put"
  /\ object' = attempt
  /\ \/ Fine /\ pc' = "finish"
     \/ Suffer({"unacknowledged"}) /\ pc' = "retry"
  /\ UNCHANGED <<status, sum, task, retries, download>>

PutFails ==
  /\ Suffer({"storage"})
  /\ pc = "put"
  /\ pc' = "retry"
  /\ UNCHANGED <<status, sum, object, task, retries, download>>

RecordedSum == attempt

Finish ==
  /\ pc = "finish"
  /\ status' = "completed" /\ sum' = RecordedSum
  /\ \/ Fine /\ pc' = "audit"
     \/ Suffer({"unacknowledged"}) /\ pc' = "retry"
  /\ UNCHANGED <<object, task, retries, download>>

FinishFails ==
  /\ Suffer({"control"})
  /\ pc = "finish"
  /\ pc' = "retry"
  /\ UNCHANGED <<status, sum, object, task, retries, download>>

Audit ==
  /\ pc = "audit"
  /\ \/ Fine /\ task' = "done" /\ pc' = "idle"
     \/ Suffer({"control"}) /\ pc' = "retry" /\ UNCHANGED task
  /\ UNCHANGED <<status, sum, object, retries, download>>

-----------------------------------------------------------------------------
(***************************************************************************)
(* run_export_task's except clause and Celery's retry.                     *)
(***************************************************************************)
RetriesLeft == retries < MaxRetries

Counted_Lost == retries
Counted == retries + 1

Retry ==
  /\ pc = "retry" /\ RetriesLeft
  /\ pc' = "idle"
  /\ \/ Fine /\ task' = "queued" /\ retries' = Counted
     \/ Suffer({"broker"}) /\ task' = "lost" /\ UNCHANGED retries
  /\ UNCHANGED <<status, sum, object, download>>

ExhaustedStatus == IF RetryReportsExc THEN status ELSE "failed"

Exhausted ==
  /\ pc = "retry" /\ retries >= MaxRetries
  /\ \/ Fine /\ status' = ExhaustedStatus
     \/ Suffer({"control"}) /\ UNCHANGED status
  /\ task' = "done" /\ pc' = "idle"
  /\ UNCHANGED <<sum, object, retries, download>>

WorkerKilled ==
  /\ Suffer({"kill"})
  /\ task = "running"
  /\ task' = "lost" /\ pc' = "idle"
  /\ UNCHANGED <<status, sum, object, retries, download>>

-----------------------------------------------------------------------------
(***************************************************************************)
(* download_export: the job is loaded, checked to be COMPLETED, and its    *)
(* object opened afterwards.                                               *)
(***************************************************************************)
MayDownload_Unchecked == status # "none"
MayDownload == status = "completed"

LoadJob ==
  /\ download.state \in {"none", "served"}
  /\ MayDownload
  /\ download' = [state |-> "loaded", sum |-> sum, body |-> 0]
  /\ UNCHANGED <<status, sum, object, task, retries, pc, occurred>>

Serve ==
  /\ download.state = "loaded"
  /\ download' = [download EXCEPT !.state = "served", !.body = object]
  /\ UNCHANGED <<status, sum, object, task, retries, pc, occurred>>

Ended == task \in {"done", "lost"} /\ download.state # "loaded" /\ UNCHANGED vars

-----------------------------------------------------------------------------
Worker ==
  \/ CreateJob \/ Enqueue \/ Begin \/ Build \/ Put \/ Finish \/ Audit
  \/ Retry \/ Exhausted

Fault ==
  BeginFails \/ BuildFails \/ PutFails \/ FinishFails \/ WorkerKilled

Next == Worker \/ Fault \/ LoadJob \/ Serve \/ Ended

Spec == Init /\ [][Next]_vars

\* A live worker executes what is queued; nothing forces a fault.
FairSpec == Spec /\ WF_vars(Worker)

-----------------------------------------------------------------------------
(***************************************************************************)
(* Properties.                                                             *)
(***************************************************************************)

\* The values each variable takes; retries stay within max_retries.
TypeOK ==
  /\ status \in {"none", "pending", "running", "completed", "failed"}
  /\ sum \in Contents /\ object \in Contents
  /\ task \in {"unsent", "queued", "running", "done", "lost"}
  /\ retries \in 0..MaxRetries /\ occurred \in SUBSET Faults
  /\ pc \in {"idle", "send", "build", "put", "finish", "audit", "retry"}
  /\ download \in [state : {"none", "loaded", "served"}, sum : Contents, body : Contents]

\* The package of a COMPLETED export is in the store and has the checksum on
\* record, although retries write over it (run_export marks RUNNING first).
CompletedMatches == status = "completed" => object # 0 /\ sum = object

\* A download always receives a whole package, and, while the control database
\* answers, the one whose checksum the client was shown: only a failure after
\* the COMPLETED save makes an export run again (run_export).
ServedIsComplete ==
  download.state = "served" =>
    /\ download.body # 0
    /\ occurred \cap {"control", "unacknowledged"} = {} => download.body = download.sum

\* Under a live worker, every export comes to an end: COMPLETED, FAILED or with
\* its retries used up (run_export_task), unless its message is lost or the
\* control database fails.
ExportEnds ==
  status = "pending" ~>
    \/ task = "done" /\ (status \in {"completed", "failed"} \/ retries = MaxRetries)
    \/ task = "lost" \/ "control" \in occurred

\* What a client downloads is the package the job describes (run_export,
\* download_export): the parts above, under every fault and any timing.
PackagesMatch == TypeOK /\ CompletedMatches /\ ServedIsComplete
=============================================================================
